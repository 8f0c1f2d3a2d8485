------------------------- MODULE DeliveryQueueProofs -------------------------
(***************************************************************************)
(* Type correctness and lease safety of DeliveryQueue, its audit log, its  *)
(* meter and auto-disabling, the attempts, statistics and metrics of       *)
(* DeliveryReports, and that the queue implements DeliveryOwnership, for   *)
(* every number of deliveries, endpoints and concurrent ticks, every       *)
(* configuration of the worker, and any clock, crash and operator          *)
(* behaviour; and that the pages of ListingReader miss nothing.            *)
(***************************************************************************)
EXTENDS DeliveryReports, FiniteSetTheorems, WellFoundedInduction, TLAPS

(* Rows that were not inserted yet are untouched and nobody's task.        *)
AbsentRowsAreUntouched ==
    \A d \in Deliveries : status[d] = "absent" =>
        /\ attemptCount[d] = 0
        /\ epochStart[d] = 0
        /\ attempts[d] = << >>
        /\ \A w \in Workers : ~Holds(w, d)

(* The inductive invariant.  LiveLeaseIsOwner is what makes a new lease    *)
(* differ from all others, FencingTokenUnique what makes an outcome end    *)
(* the only ownership there was, and the fresh snapshot of the owner what  *)
(* keeps the attempt count within the budget.                              *)
IInv ==
    /\ TypeOK
    /\ AbsentRowsAreUntouched
    /\ LiveLeaseIsOwner
    /\ FencingTokenUnique
    /\ OwnerSnapshotIsFresh
    /\ NoRowIsStranded

USE QueueAssumption, BackoffAssumption

-----------------------------------------------------------------------------
LEMMA InitIInv == Init => IInv
<1> SUFFICES ASSUME Init PROVE IInv
  OBVIOUS
<1>1. NoTask \in Task
  BY DEF NoTask, Task
<1>2. << >> \in Seq(AttemptRow)
  OBVIOUS
<1>3. TypeOK
  BY <1>1, <1>2 DEF Init, TypeOK, Statuses
<1>4. \A w \in Workers, d \in Deliveries : ~Holds(w, d)
  BY DEF Init, Holds, NoTask
<1> QED
  BY <1>3, <1>4 DEF Init, IInv, AbsentRowsAreUntouched, LiveLeaseIsOwner,
     FencingTokenUnique, OwnerSnapshotIsFresh, NoRowIsStranded

(* Steps that leave the rows alone, advance the clock or not, and at most  *)
(* end tasks or move them on.                                              *)
LEMMA TasksMoveOn ==
  ASSUME IInv, TypeOK', UNCHANGED <<rowVars, epochStart>>, now' >= now,
         \A w \in Workers, d \in Deliveries :
             Holds(w, d)' => /\ Holds(w, d)
                             /\ claim'[w][d].lease = claim[w][d].lease
                             /\ claim'[w][d].count = claim[w][d].count
  PROVE  IInv'
<1> USE DEF rowVars
<1>1. AbsentRowsAreUntouched'
  BY DEF IInv, AbsentRowsAreUntouched
<1>2. \A w \in Workers, d \in Deliveries : claim[w][d].lease \in Nat
  BY DEF IInv, TypeOK, Task
<1>3. now \in Nat /\ now' \in Nat
  BY DEF IInv, TypeOK
<1>4. LiveLeaseIsOwner'
  BY <1>2, <1>3 DEF IInv, LiveLeaseIsOwner, OwnsLease, Live
<1>5. FencingTokenUnique'
  BY DEF IInv, FencingTokenUnique
<1>6. OwnerSnapshotIsFresh'
  BY DEF IInv, OwnerSnapshotIsFresh, OwnsLease
<1>7. NoRowIsStranded'
  <2>1. \A d \in Deliveries : leaseExpiresAt[d] # None => leaseExpiresAt[d] \in Nat
    BY DEF IInv, TypeOK
  <2>2. QED
    BY <1>3, <2>1 DEF IInv, NoRowIsStranded
<1> QED
  BY <1>1, <1>4, <1>5, <1>6, <1>7 DEF IInv

LEMMA TickIInv == ASSUME IInv, Tick PROVE IInv'
<1>1. TypeOK' /\ now' >= now /\ UNCHANGED <<rowVars, claim, epochStart>>
  BY DEF IInv, TypeOK, Tick, rowVars, boundVars
<1> QED
  BY <1>1, TasksMoveOn DEF Holds

LEMMA SendIInv ==
  ASSUME NEW w \in Workers, NEW d \in Deliveries, IInv, Send(w, d) PROVE IInv'
<1> DEFINE t == [claim[w][d] EXCEPT !.phase = "sending", !.at = now]
<1>1. claim[w][d] \in Task /\ now \in Nat /\ TypeOK
  BY DEF IInv, TypeOK
<1>2. t \in Task /\ t.lease = claim[w][d].lease /\ t.count = claim[w][d].count
  BY <1>1 DEF Task
<1>3. claim' = [claim EXCEPT ![w][d] = t]
  BY DEF Send
<1>4. Holds(w, d)
  BY DEF Send, Holds
<1> HIDE DEF t
<1>0. /\ claim' \in [Workers -> [Deliveries -> Task]]
      /\ claim'[w][d] = t
      /\ \A v \in Workers, c \in Deliveries :
            v # w \/ c # d => claim'[v][c] = claim[v][c]
  BY <1>1, <1>2, <1>3 DEF TypeOK
<1>5. /\ claim' \in [Workers -> [Deliveries -> Task]]
      /\ \A v \in Workers, c \in Deliveries :
            Holds(v, c)' => /\ Holds(v, c)
                            /\ claim'[v][c].lease = claim[v][c].lease
                            /\ claim'[v][c].count = claim[v][c].count
  BY <1>0, <1>2, <1>4 DEF Holds
<1>6. UNCHANGED <<now, endpoint, rowVars, epochStart, boundVars>>
  BY DEF Send
<1>7. TypeOK' /\ now' >= now
  BY <1>1, <1>5, <1>6 DEF TypeOK, rowVars, boundVars
<1> QED
  BY <1>5, <1>6, <1>7, TasksMoveOn

LEMMA ReceiverAcceptsIInv ==
  ASSUME NEW w \in Workers, NEW d \in Deliveries, IInv, ReceiverAccepts(w, d)
  PROVE  IInv'
<1> DEFINE t == [claim[w][d] EXCEPT !.phase = "accepted"]
<1>1. claim[w][d] \in Task /\ TypeOK
  BY DEF IInv, TypeOK
<1>2. t \in Task /\ t.lease = claim[w][d].lease /\ t.count = claim[w][d].count
  BY <1>1 DEF Task
<1>3. claim' = [claim EXCEPT ![w][d] = t]
  BY DEF ReceiverAccepts
<1>4. Holds(w, d)
  BY DEF ReceiverAccepts, Holds
<1> HIDE DEF t
<1>0. /\ claim' \in [Workers -> [Deliveries -> Task]]
      /\ claim'[w][d] = t
      /\ \A v \in Workers, c \in Deliveries :
            v # w \/ c # d => claim'[v][c] = claim[v][c]
  BY <1>1, <1>2, <1>3 DEF TypeOK
<1>5. /\ claim' \in [Workers -> [Deliveries -> Task]]
      /\ \A v \in Workers, c \in Deliveries :
            Holds(v, c)' => /\ Holds(v, c)
                            /\ claim'[v][c].lease = claim[v][c].lease
                            /\ claim'[v][c].count = claim[v][c].count
  BY <1>0, <1>2, <1>4 DEF Holds
<1>6. UNCHANGED <<now, endpoint, rowVars, epochStart, boundVars>>
  BY DEF ReceiverAccepts
<1>7. TypeOK' /\ now' >= now
  BY <1>1, <1>5, <1>6 DEF TypeOK, rowVars, boundVars
<1> QED
  BY <1>5, <1>6, <1>7, TasksMoveOn

(* Ending a task leaves every other one as it is. *)
LEMMA EndTaskEnds ==
  ASSUME NEW w \in Workers, NEW d \in Deliveries, TypeOK, EndTask(w, d)
  PROVE  /\ claim' \in [Workers -> [Deliveries -> Task]]
         /\ ~Holds(w, d)'
         /\ \A v \in Workers, c \in Deliveries :
               Holds(v, c)' => /\ Holds(v, c) /\ claim'[v][c] = claim[v][c]
                               /\ v # w \/ c # d
<1>1. NoTask \in Task /\ NoTask.phase = "idle"
  BY DEF NoTask, Task
<1>2. claim' = [claim EXCEPT ![w][d] = NoTask]
  BY DEF EndTask
<1>3. /\ claim' \in [Workers -> [Deliveries -> Task]]
      /\ claim'[w][d] = NoTask
      /\ \A v \in Workers, c \in Deliveries :
            v # w \/ c # d => claim'[v][c] = claim[v][c]
  BY <1>1, <1>2 DEF TypeOK
<1> QED
  BY <1>1, <1>3 DEF Holds

LEMMA RecordStaleIInv ==
  ASSUME NEW w \in Workers, NEW d \in Deliveries, IInv, RecordStale(w, d)
  PROVE  IInv'
<1>1. /\ claim' \in [Workers -> [Deliveries -> Task]]
      /\ \A v \in Workers, c \in Deliveries :
            Holds(v, c)' => Holds(v, c) /\ claim'[v][c] = claim[v][c]
  BY EndTaskEnds DEF IInv, RecordStale
<1>2. TypeOK' /\ now' >= now /\ UNCHANGED <<rowVars, epochStart>>
  BY <1>1 DEF IInv, TypeOK, RecordStale, rowVars, boundVars
<1> QED
  BY <1>1, <1>2, TasksMoveOn

LEMMA CrashIInv == ASSUME IInv, Crash PROVE IInv'
<1>1. NoTask \in Task /\ NoTask.phase = "idle"
  BY DEF NoTask, Task
<1>2. /\ claim' \in [Workers -> [Deliveries -> Task]]
      /\ \A v \in Workers, c \in Deliveries : ~Holds(v, c)'
  BY <1>1 DEF Crash, Holds
<1>3. TypeOK' /\ now' >= now /\ UNCHANGED <<rowVars, epochStart>>
  BY <1>2 DEF IInv, TypeOK, Crash, rowVars, boundVars
<1> QED
  BY <1>2, <1>3, TasksMoveOn

LEMMA SetEnabledIInv ==
  ASSUME NEW e \in Endpoints, NEW s \in {"enabled", "disabled"}, IInv,
         SetEnabled(e, s)
  PROVE  IInv'
<1>1. TypeOK' /\ now' >= now /\ UNCHANGED <<rowVars, claim, epochStart>>
  BY DEF IInv, TypeOK, SetEnabled, OperatorRequest, rowVars, boundVars
<1> QED
  BY <1>1, TasksMoveOn DEF Holds

-----------------------------------------------------------------------------
(* A delivery is inserted: nobody holds it yet. *)
LEMMA EnqueueIInv == ASSUME NEW d \in Deliveries, IInv, Enqueue(d) PROVE IInv'
<1> USE DEF Enqueue
<1>1. /\ \A c \in Deliveries : c # d => status'[c] = status[c]
      /\ status[d] = "absent" /\ status'[d] = "pending"
      /\ UNCHANGED <<now, attemptCount, nextAttemptAt, leaseExpiresAt, attempts,
                     claim, epochStart>>
      /\ status' \in [Deliveries -> Statuses]
  BY DEF IInv, TypeOK, Statuses
<1>2. TypeOK'
  BY <1>1 DEF IInv, TypeOK, boundVars
<1> HIDE DEF Enqueue
<1>3. \A w \in Workers, c \in Deliveries : Holds(w, c)' <=> Holds(w, c)
  BY <1>1 DEF Holds
<1>4. attemptCount[d] = 0 /\ \A w \in Workers : ~Holds(w, d)
  BY <1>1 DEF IInv, AbsentRowsAreUntouched
<1>5. AbsentRowsAreUntouched'
  BY <1>1, <1>3 DEF IInv, AbsentRowsAreUntouched
<1>6. LiveLeaseIsOwner'
  BY <1>1, <1>3, <1>4 DEF IInv, LiveLeaseIsOwner, OwnsLease, Live
<1>7. FencingTokenUnique'
  BY <1>1, <1>3 DEF IInv, FencingTokenUnique
<1>8. OwnerSnapshotIsFresh'
  BY <1>1, <1>3, <1>4 DEF IInv, OwnerSnapshotIsFresh, OwnsLease
<1>9. NoRowIsStranded'
  BY <1>1, <1>4 DEF IInv, NoRowIsStranded
<1> QED
  BY <1>2, <1>5, <1>6, <1>7, <1>8, <1>9 DEF IInv

(* A claimed batch: every row in it was claimable, so that any other task  *)
(* on it has a lease that is over, which the new one is not.               *)
LEMMA ClaimIInv == ASSUME NEW w \in Workers, IInv, Claim(w) PROVE IInv'
<1>1. PICK batch \in SUBSET {d \in Deliveries : Claimable(d)} :
        /\ status' = [d \in Deliveries |->
                         IF d \in batch THEN "delivering" ELSE status[d]]
        /\ leaseExpiresAt' = [d \in Deliveries |->
                         IF d \in batch THEN NewLease ELSE leaseExpiresAt[d]]
        /\ claim' = [claim EXCEPT ![w] = [d \in Deliveries |->
                         IF d \in batch
                         THEN [phase |-> "queued", count |-> attemptCount[d],
                               lease |-> NewLease, at |-> 0]
                         ELSE NoTask]]
  BY DEF Claim
<1>2. /\ UNCHANGED <<now, endpoint, attemptCount, nextAttemptAt, attempts,
                     metered, epochStart, boundVars>>
      /\ \A d \in Deliveries : ~Holds(w, d)
  BY DEF Claim
<1>3. NewLease \in Nat /\ NewLease > now /\ now \in Nat
      /\ NewLease = now + VisibilityTimeout /\ NewLease # None
  BY DEF IInv, TypeOK, NewLease
<1>4. \A d \in batch :
        /\ d \in Deliveries
        /\ status[d] \in {"pending", "delivering"}
        /\ leaseExpiresAt[d] # None => leaseExpiresAt[d] <= now
  BY DEF Claimable, LeaseHasExpired, IInv, NoRowIsStranded
<1> HIDE DEF NewLease
<1>5. /\ \A d \in batch : /\ claim'[w][d].phase = "queued"
                          /\ claim'[w][d].count = attemptCount[d]
                          /\ claim'[w][d].lease = NewLease
      /\ \A d \in Deliveries : d \notin batch => claim'[w][d].phase = "idle"
      /\ \A v \in Workers : v # w => claim'[v] = claim[v]
  BY <1>1 DEF IInv, TypeOK, NoTask
<1>6. claim' \in [Workers -> [Deliveries -> Task]]
  <2>1. NoTask \in Task
    BY DEF NoTask, Task
  <2>2. \A d \in Deliveries : [phase |-> "queued", count |-> attemptCount[d],
                               lease |-> NewLease, at |-> 0] \in Task
    BY <1>3 DEF IInv, TypeOK, Task
  <2>3. [d \in Deliveries |->
            IF d \in batch
            THEN [phase |-> "queued", count |-> attemptCount[d],
                  lease |-> NewLease, at |-> 0]
            ELSE NoTask] \in [Deliveries -> Task]
    BY <2>1, <2>2
  <2>4. QED
    BY <1>1, <2>3 DEF IInv, TypeOK
<1>7. TypeOK'
  BY <1>1, <1>2, <1>3, <1>6 DEF IInv, TypeOK, boundVars, Statuses
<1>8. \A v \in Workers, d \in Deliveries :
        /\ v # w => (Holds(v, d)' <=> Holds(v, d))
        /\ v = w => (Holds(v, d)' <=> d \in batch)
  BY <1>4, <1>5 DEF Holds
<1>9. \A d \in Deliveries :
        /\ d \in batch => status'[d] = "delivering" /\ leaseExpiresAt'[d] = NewLease
        /\ d \notin batch => status'[d] = status[d] /\ leaseExpiresAt'[d] = leaseExpiresAt[d]
  BY <1>1
(* The other tasks on a claimed row have lost it. *)
<1>10. \A v \in Workers, d \in batch :
         v # w /\ Holds(v, d) => claim[v][d].lease <= now /\ claim[v][d].lease # NewLease
  <2>1. \A v \in Workers, d \in Deliveries : claim[v][d].lease \in Nat
    BY DEF IInv, TypeOK, Task
  <2>2. \A v \in Workers, d \in batch : Holds(v, d) => ~(claim[v][d].lease > now)
    BY <1>3, <1>4, <2>1 DEF IInv, LiveLeaseIsOwner, OwnsLease, Live
  <2>3. \A l \in Nat : ~(l > now) => l <= now /\ l # NewLease
    BY <1>3
  <2>4. QED
    BY <1>4, <2>1, <2>2, <2>3
<1>11. AbsentRowsAreUntouched'
  BY <1>2, <1>4, <1>8, <1>9 DEF IInv, AbsentRowsAreUntouched
<1>12. LiveLeaseIsOwner'
  <2> SUFFICES ASSUME NEW v \in Workers, NEW d \in Deliveries, Holds(v, d)',
                      claim'[v][d].lease > now, Live(d)'
               PROVE  OwnsLease(v, d)'
    BY <1>2 DEF LiveLeaseIsOwner
  <2>1. CASE v = w
    BY <2>1, <1>5, <1>8, <1>9 DEF OwnsLease
  <2>2. CASE v # w /\ d \in batch
    BY <2>2, <1>3, <1>5, <1>8, <1>10 DEF IInv, TypeOK, Task
  <2>3. CASE v # w /\ d \notin batch
    BY <2>3, <1>5, <1>8, <1>9 DEF IInv, LiveLeaseIsOwner, OwnsLease, Live
  <2>4. QED
    BY <2>1, <2>2, <2>3
<1>13. FencingTokenUnique'
  <2> SUFFICES ASSUME NEW u \in Workers, NEW v \in Workers, NEW d \in Deliveries,
                      Holds(u, d)', Holds(v, d)', u # v
               PROVE  claim'[u][d].lease # claim'[v][d].lease
    BY DEF FencingTokenUnique
  <2>1. CASE u # w /\ v # w
    BY <2>1, <1>5, <1>8 DEF IInv, FencingTokenUnique
  <2>2. CASE u = w /\ v # w
    BY <2>2, <1>5, <1>8, <1>10
  <2>3. CASE u # w /\ v = w
    BY <2>3, <1>5, <1>8, <1>10
  <2>4. QED
    BY <2>1, <2>2, <2>3
<1>14. OwnerSnapshotIsFresh'
  <2> SUFFICES ASSUME NEW v \in Workers, NEW d \in Deliveries,
                      Holds(v, d)', OwnsLease(v, d)'
               PROVE  claim'[v][d].count = attemptCount[d]
                      /\ attemptCount[d] < AttemptBudget
    BY <1>2 DEF OwnerSnapshotIsFresh
  <2>1. CASE v = w
    BY <2>1, <1>4, <1>5, <1>8 DEF IInv, NoRowIsStranded
  <2>2. CASE v # w /\ d \in batch
    BY <2>2, <1>5, <1>8, <1>9, <1>10 DEF OwnsLease
  <2>3. CASE v # w /\ d \notin batch
    BY <2>3, <1>5, <1>8, <1>9 DEF IInv, OwnerSnapshotIsFresh, OwnsLease
  <2>4. QED
    BY <2>1, <2>2, <2>3
<1>15. NoRowIsStranded'
  BY <1>2, <1>3, <1>4, <1>9 DEF IInv, NoRowIsStranded
<1> QED
  BY <1>7, <1>11, <1>12, <1>13, <1>14, <1>15 DEF IInv

-----------------------------------------------------------------------------
(* The owner of d ends its task and settles or reschedules the row: as its *)
(* token was unique, no one else owns or leases the row afterwards.        *)
LEMMA OwnerRecords ==
  ASSUME NEW w \in Workers, NEW d \in Deliveries, IInv, Holds(w, d),
         OwnsLease(w, d), EndTask(w, d), TypeOK', UNCHANGED <<now, epochStart>>,
         status'[d] \in {"pending", "succeeded", "dead_letter"},
         leaseExpiresAt'[d] = None,
         status'[d] = "pending" => attemptCount'[d] < AttemptBudget,
         status'[d] # "pending" => nextAttemptAt'[d] = None,
         \A c \in Deliveries : c # d =>
             /\ status'[c] = status[c]
             /\ attemptCount'[c] = attemptCount[c]
             /\ nextAttemptAt'[c] = nextAttemptAt[c]
             /\ leaseExpiresAt'[c] = leaseExpiresAt[c]
             /\ attempts'[c] = attempts[c]
  PROVE  IInv'
<1>1. \A v \in Workers, c \in Deliveries :
        Holds(v, c)' => /\ Holds(v, c) /\ claim'[v][c] = claim[v][c]
                        /\ v # w \/ c # d
  BY EndTaskEnds DEF IInv
<1>2. \A v \in Workers : v # w /\ Holds(v, d) =>
        ~OwnsLease(v, d) /\ ~(claim[v][d].lease > now)
  BY DEF IInv, FencingTokenUnique, LiveLeaseIsOwner, OwnsLease, Live
<1>3. AbsentRowsAreUntouched'
  BY <1>1 DEF IInv, AbsentRowsAreUntouched
<1>4. LiveLeaseIsOwner'
  BY <1>1, <1>2 DEF IInv, LiveLeaseIsOwner, OwnsLease, Live
<1>5. FencingTokenUnique'
  BY <1>1 DEF IInv, FencingTokenUnique
<1>6. OwnerSnapshotIsFresh'
  BY <1>1 DEF IInv, OwnerSnapshotIsFresh, OwnsLease
<1>7. NoRowIsStranded'
  BY DEF IInv, NoRowIsStranded
<1> QED
  BY <1>3, <1>4, <1>5, <1>6, <1>7 DEF IInv

(* What the owner records is well-typed: its snapshot is the row's count.  *)
LEMMA AttemptIsInBudget ==
  ASSUME NEW w \in Workers, NEW d \in Deliveries, IInv, Holds(w, d), OwnsLease(w, d)
  PROVE  /\ AttemptNumber(w, d) \in 1 .. AttemptBudget
         /\ ~BudgetIsUsedUp(w, d) => AttemptNumber(w, d) < AttemptBudget
         /\ \A o \in {"succeeded", "failed", "dead_letter"} :
               [number |-> AttemptNumber(w, d), outcome |-> o,
                at |-> claim[w][d].at] \in AttemptRow
<1>1. claim[w][d].count = attemptCount[d] /\ attemptCount[d] < AttemptBudget
  BY DEF IInv, OwnerSnapshotIsFresh
<1>2. claim[w][d].at \in Nat /\ attemptCount[d] \in Nat
  BY DEF IInv, TypeOK, Task
<1>3. AttemptNumber(w, d) \in 1 .. AttemptBudget
  BY <1>1, <1>2 DEF AttemptNumber
<1> QED
  BY <1>2, <1>3 DEF BudgetIsUsedUp, AttemptRow

(* An outcome appended to the audit log keeps it a log. *)
LEMMA AttemptsStayTyped ==
  ASSUME NEW w \in Workers, NEW d \in Deliveries, IInv, Holds(w, d), OwnsLease(w, d),
         NEW o \in {"succeeded", "failed", "dead_letter"},
         InsertDeliveryAttempt(w, d, o)
  PROVE  /\ attempts' \in [Deliveries -> Seq(AttemptRow)] /\ metered' \in Nat
         /\ \A c \in Deliveries : c # d => attempts'[c] = attempts[c]
<1> DEFINE row == [number |-> AttemptNumber(w, d), outcome |-> o,
                   at |-> claim[w][d].at]
<1>1. row \in AttemptRow
  BY AttemptIsInBudget
<1>2. attempts' = [attempts EXCEPT ![d] = Append(@, row)]
  BY DEF InsertDeliveryAttempt, LogAttempt
<1>3. attempts \in [Deliveries -> Seq(AttemptRow)] /\ metered' \in Nat
  BY DEF IInv, TypeOK, InsertDeliveryAttempt
<1> HIDE DEF row
<1>4. Append(attempts[d], row) \in Seq(AttemptRow)
  BY <1>1, <1>3
<1> QED
  BY <1>2, <1>3, <1>4

LEMMA RecordSuccessIInv ==
  ASSUME NEW w \in Workers, NEW d \in Deliveries, IInv, RecordSuccess(w, d)
  PROVE  IInv'
<1>1. Holds(w, d) /\ OwnsLease(w, d) /\ EndTask(w, d)
      /\ InsertDeliveryAttempt(w, d, "succeeded")
  BY DEF RecordSuccess, Holds
<1>2. AttemptNumber(w, d) \in 1 .. AttemptBudget
  BY <1>1, AttemptIsInBudget
<1>3. /\ attempts' \in [Deliveries -> Seq(AttemptRow)] /\ metered' \in Nat
      /\ \A c \in Deliveries : c # d => attempts'[c] = attempts[c]
  BY <1>1, AttemptsStayTyped
<1>4. claim' \in [Workers -> [Deliveries -> Task]]
  BY <1>1, EndTaskEnds DEF IInv
<1>5. /\ status' = [status EXCEPT ![d] = "succeeded"]
      /\ attemptCount' = [attemptCount EXCEPT ![d] = AttemptNumber(w, d)]
      /\ nextAttemptAt' = [nextAttemptAt EXCEPT ![d] = None]
      /\ leaseExpiresAt' = [leaseExpiresAt EXCEPT ![d] = None]
      /\ UNCHANGED <<now, endpoint, epochStart, boundVars>>
  BY DEF RecordSuccess
<1>6. TypeOK'
  BY <1>2, <1>3, <1>4, <1>5 DEF IInv, TypeOK, boundVars, Statuses
<1>7. /\ status'[d] = "succeeded"
      /\ nextAttemptAt'[d] = None /\ leaseExpiresAt'[d] = None
      /\ \A c \in Deliveries : c # d =>
             /\ status'[c] = status[c]
             /\ attemptCount'[c] = attemptCount[c]
             /\ nextAttemptAt'[c] = nextAttemptAt[c]
             /\ leaseExpiresAt'[c] = leaseExpiresAt[c]
             /\ attempts'[c] = attempts[c]
  BY <1>3, <1>5 DEF IInv, TypeOK
<1>8. UNCHANGED <<now, epochStart>>
  BY <1>5
<1> QED
  BY <1>1, <1>6, <1>7, <1>8, OwnerRecords

LEMMA RecordFailureIInv ==
  ASSUME NEW w \in Workers, NEW d \in Deliveries, IInv, RecordFailure(w, d)
  PROVE  IInv'
<1>1. Holds(w, d) /\ OwnsLease(w, d) /\ EndTask(w, d)
      /\ InsertDeliveryAttempt(w, d, "failed")
  BY DEF RecordFailure, Holds, Requesting
<1>2. /\ AttemptNumber(w, d) \in 1 .. AttemptBudget
      /\ AttemptNumber(w, d) < AttemptBudget
      /\ CalculateRetryBackoffMs(AttemptNumber(w, d)) \in Nat
  <2>1. AttemptNumber(w, d) \in 1 .. AttemptBudget /\ ~BudgetIsUsedUp(w, d)
    BY <1>1, AttemptIsInBudget DEF RecordFailure
  <2>2. QED
    BY <1>1, <2>1, AttemptIsInBudget
<1>3. /\ attempts' \in [Deliveries -> Seq(AttemptRow)] /\ metered' \in Nat
      /\ \A c \in Deliveries : c # d => attempts'[c] = attempts[c]
  BY <1>1, AttemptsStayTyped
<1>4. claim' \in [Workers -> [Deliveries -> Task]]
  BY <1>1, EndTaskEnds DEF IInv
<1>5. /\ status' = [status EXCEPT ![d] = "pending"]
      /\ attemptCount' = [attemptCount EXCEPT ![d] = AttemptNumber(w, d)]
      /\ nextAttemptAt' = [nextAttemptAt EXCEPT ![d] =
                              now + CalculateRetryBackoffMs(AttemptNumber(w, d))]
      /\ leaseExpiresAt' = [leaseExpiresAt EXCEPT ![d] = None]
      /\ UNCHANGED <<now, endpoint, epochStart, boundVars>>
  BY DEF RecordFailure
<1>6. TypeOK'
  <2>1. /\ status' \in [Deliveries -> Statuses]
        /\ attemptCount' \in [Deliveries -> 0 .. AttemptBudget]
    BY <1>2, <1>5 DEF IInv, TypeOK, Statuses
  <2>2. /\ nextAttemptAt' \in [Deliveries -> Nat \cup {None}]
        /\ leaseExpiresAt' \in [Deliveries -> Nat \cup {None}]
    <3>1. now + CalculateRetryBackoffMs(AttemptNumber(w, d)) \in Nat
      BY <1>2 DEF IInv, TypeOK
    <3>2. QED
      BY <1>5, <3>1 DEF IInv, TypeOK
  <2>3. QED
    BY <1>3, <1>4, <1>5, <2>1, <2>2 DEF IInv, TypeOK, boundVars
<1>7. /\ status'[d] = "pending" /\ attemptCount'[d] < AttemptBudget
      /\ leaseExpiresAt'[d] = None
      /\ \A c \in Deliveries : c # d =>
             /\ status'[c] = status[c]
             /\ attemptCount'[c] = attemptCount[c]
             /\ nextAttemptAt'[c] = nextAttemptAt[c]
             /\ leaseExpiresAt'[c] = leaseExpiresAt[c]
             /\ attempts'[c] = attempts[c]
  BY <1>2, <1>3, <1>5 DEF IInv, TypeOK
<1>8. UNCHANGED <<now, epochStart>>
  BY <1>5
<1> QED
  BY <1>1, <1>6, <1>7, <1>8, OwnerRecords

LEMMA RecordDeadLetterIInv ==
  ASSUME NEW w \in Workers, NEW d \in Deliveries, IInv, RecordDeadLetter(w, d)
  PROVE  IInv'
<1>1. Holds(w, d) /\ OwnsLease(w, d) /\ EndTask(w, d)
      /\ InsertDeliveryAttempt(w, d, "dead_letter")
  BY DEF RecordDeadLetter, Holds, Requesting
<1>2. AttemptNumber(w, d) \in 1 .. AttemptBudget
  BY <1>1, AttemptIsInBudget
<1>3. /\ attempts' \in [Deliveries -> Seq(AttemptRow)] /\ metered' \in Nat
      /\ \A c \in Deliveries : c # d => attempts'[c] = attempts[c]
  BY <1>1, AttemptsStayTyped
<1>4. claim' \in [Workers -> [Deliveries -> Task]]
  BY <1>1, EndTaskEnds DEF IInv
<1>5. /\ status' = [status EXCEPT ![d] = "dead_letter"]
      /\ attemptCount' = [attemptCount EXCEPT ![d] = AttemptNumber(w, d)]
      /\ nextAttemptAt' = [nextAttemptAt EXCEPT ![d] = None]
      /\ leaseExpiresAt' = [leaseExpiresAt EXCEPT ![d] = None]
      /\ UNCHANGED <<now, epochStart, boundVars>>
  BY DEF RecordDeadLetter
<1>6. TypeOK'
  <2>1. \/ endpoint' = endpoint
        \/ endpoint' = [endpoint EXCEPT ![EndpointOf[d]] = "disabled"]
    BY DEF RecordDeadLetter
  <2>2. endpoint' \in [Endpoints -> {"enabled", "disabled", "deleted"}]
    BY <2>1 DEF IInv, TypeOK
  <2>3. QED
    BY <1>2, <1>3, <1>4, <1>5, <2>2 DEF IInv, TypeOK, boundVars, Statuses
<1>7. /\ status'[d] = "dead_letter"
      /\ nextAttemptAt'[d] = None /\ leaseExpiresAt'[d] = None
      /\ \A c \in Deliveries : c # d =>
             /\ status'[c] = status[c]
             /\ attemptCount'[c] = attemptCount[c]
             /\ nextAttemptAt'[c] = nextAttemptAt[c]
             /\ leaseExpiresAt'[c] = leaseExpiresAt[c]
             /\ attempts'[c] = attempts[c]
  BY <1>3, <1>5 DEF IInv, TypeOK
<1>8. UNCHANGED <<now, epochStart>>
  BY <1>5
<1> QED
  BY <1>1, <1>6, <1>7, <1>8, OwnerRecords

LEMMA RecordIInv ==
  ASSUME NEW w \in Workers, NEW d \in Deliveries, IInv, Record(w, d) PROVE IInv'
BY RecordSuccessIInv, RecordFailureIInv, RecordDeadLetterIInv, RecordStaleIInv
   DEF Record

-----------------------------------------------------------------------------
(* A dead letter has no live lease, so that reviving it disowns no one. *)
LEMMA RetryMessageIInv ==
  ASSUME NEW m \in Messages, IInv, RetryMessage(m) PROVE IInv'
<1>1. \A d \in Deliveries :
        /\ d \in Retryable(m) =>
             /\ status[d] = "dead_letter" /\ status'[d] = "pending"
             /\ attemptCount'[d] = 0 /\ leaseExpiresAt'[d] = None
        /\ d \notin Retryable(m) =>
             /\ status'[d] = status[d]
             /\ attemptCount'[d] = attemptCount[d]
             /\ nextAttemptAt'[d] = nextAttemptAt[d]
             /\ leaseExpiresAt'[d] = leaseExpiresAt[d]
             /\ epochStart'[d] = epochStart[d]
  BY DEF RetryMessage, Retryable
<1>2. UNCHANGED <<now, attempts, claim>>
  BY DEF RetryMessage
<1>3. TypeOK'
  <2>1. \A d \in Deliveries : Len(attempts[d]) \in Nat
    BY DEF IInv, TypeOK
  <2>2. QED
    BY <2>1 DEF IInv, TypeOK, RetryMessage, OperatorRequest, Statuses
<1>4. \A w \in Workers, d \in Deliveries : Holds(w, d)' <=> Holds(w, d)
  BY <1>2 DEF Holds
<1>5. AbsentRowsAreUntouched'
  BY <1>1, <1>2, <1>4 DEF IInv, AbsentRowsAreUntouched
<1>6. LiveLeaseIsOwner'
  BY <1>1, <1>2, <1>4 DEF IInv, LiveLeaseIsOwner, OwnsLease, Live
<1>7. FencingTokenUnique'
  BY <1>2, <1>4 DEF IInv, FencingTokenUnique
<1>8. OwnerSnapshotIsFresh'
  BY <1>1, <1>2, <1>4 DEF IInv, OwnerSnapshotIsFresh, OwnsLease
<1>9. NoRowIsStranded'
  BY <1>1, <1>2 DEF IInv, NoRowIsStranded
<1> QED
  BY <1>3, <1>5, <1>6, <1>7, <1>8, <1>9 DEF IInv

LEMMA DeleteEndpointIInv ==
  ASSUME NEW e \in Endpoints, IInv, DeleteEndpoint(e) PROVE IInv'
<1> DEFINE gone == {d \in Deliveries : EndpointOf[d] = e /\ status[d] # "absent"}
<1>1. \A d \in Deliveries :
        /\ d \in gone =>
             /\ status[d] # "absent" /\ status'[d] = "deleted"
             /\ leaseExpiresAt'[d] = None
        /\ d \notin gone =>
             /\ status'[d] = status[d]
             /\ attemptCount'[d] = attemptCount[d]
             /\ nextAttemptAt'[d] = nextAttemptAt[d]
             /\ leaseExpiresAt'[d] = leaseExpiresAt[d]
             /\ attempts'[d] = attempts[d]
             /\ epochStart'[d] = epochStart[d]
  BY DEF DeleteEndpoint
<1>2. UNCHANGED <<now, claim>>
  BY DEF DeleteEndpoint
<1>3. TypeOK'
  <2>1. << >> \in Seq(AttemptRow)
    OBVIOUS
  <2>2. /\ attempts' = [d \in Deliveries |-> IF d \in gone THEN << >> ELSE attempts[d]]
        /\ attempts \in [Deliveries -> Seq(AttemptRow)]
    BY DEF DeleteEndpoint, IInv, TypeOK
  <2>3. attempts' \in [Deliveries -> Seq(AttemptRow)]
    BY <2>1, <2>2
  <2>4. /\ status' \in [Deliveries -> Statuses]
        /\ attemptCount' \in [Deliveries -> 0 .. AttemptBudget]
        /\ nextAttemptAt' \in [Deliveries -> Nat \cup {None}]
        /\ leaseExpiresAt' \in [Deliveries -> Nat \cup {None}]
        /\ epochStart' \in [Deliveries -> Nat]
    BY DEF IInv, TypeOK, DeleteEndpoint, Statuses
  <2>5. QED
    BY <2>3, <2>4 DEF IInv, TypeOK, DeleteEndpoint, OperatorRequest
<1> HIDE DEF gone
<1>4. \A w \in Workers, d \in Deliveries : Holds(w, d)' <=> Holds(w, d)
  BY <1>2 DEF Holds
<1>5. AbsentRowsAreUntouched'
  BY <1>1, <1>4 DEF IInv, AbsentRowsAreUntouched
<1>6. LiveLeaseIsOwner'
  BY <1>1, <1>2, <1>4 DEF IInv, LiveLeaseIsOwner, OwnsLease, Live
<1>7. FencingTokenUnique'
  BY <1>2, <1>4 DEF IInv, FencingTokenUnique
<1>8. OwnerSnapshotIsFresh'
  BY <1>1, <1>2, <1>4 DEF IInv, OwnerSnapshotIsFresh, OwnsLease
<1>9. NoRowIsStranded'
  BY <1>1, <1>2 DEF IInv, NoRowIsStranded
<1> QED
  BY <1>3, <1>5, <1>6, <1>7, <1>8, <1>9 DEF IInv

-----------------------------------------------------------------------------
LEMMA NextIInv == IInv /\ [Next]_vars => IInv'
<1> SUFFICES ASSUME IInv, [Next]_vars PROVE IInv'
  OBVIOUS
<1>1. CASE Tick
  BY <1>1, TickIInv
<1>2. CASE \E d \in Deliveries : Enqueue(d)
  BY <1>2, EnqueueIInv
<1>3. CASE \E w \in Workers : Claim(w)
  BY <1>3, ClaimIInv
<1>4. CASE \E w \in Workers, d \in Deliveries : Send(w, d)
  BY <1>4, SendIInv
<1>5. CASE \E w \in Workers, d \in Deliveries : ReceiverAccepts(w, d)
  BY <1>5, ReceiverAcceptsIInv
<1>6. CASE \E w \in Workers, d \in Deliveries : Record(w, d)
  BY <1>6, RecordIInv
<1>7. CASE Crash
  BY <1>7, CrashIInv
<1>8. CASE \E m \in Messages : RetryMessage(m)
  BY <1>8, RetryMessageIInv
<1>9. CASE \E e \in Endpoints, s \in {"enabled", "disabled"} : SetEnabled(e, s)
  BY <1>9, SetEnabledIInv
<1>10. CASE \E e \in Endpoints : DeleteEndpoint(e)
  BY <1>10, DeleteEndpointIInv
<1>11. CASE UNCHANGED vars
  <2>1. UNCHANGED <<rowVars, epochStart, now, claim>>
    BY <1>11 DEF vars
  <2>2. TypeOK'
    BY <1>11 DEF IInv, TypeOK, vars, rowVars, boundVars
  <2>3. now' >= now
    BY <2>1 DEF IInv, TypeOK
  <2>4. QED
    BY <2>1, <2>2, <2>3, TasksMoveOn DEF Holds
<1> QED
  BY <1>1, <1>2, <1>3, <1>4, <1>5, <1>6, <1>7, <1>8, <1>9, <1>10, <1>11 DEF Next

(* The inductive invariant holds of every behaviour of the queue, however  *)
(* many ticks, deliveries, crashes and operator requests there are.        *)
THEOREM QueueInductive == Spec => []IInv
<1>1. Init => IInv
  BY InitIInv
<1>2. IInv /\ [Next]_vars => IInv'
  BY NextIInv
<1> QED
  BY <1>1, <1>2, PTL DEF Spec

(* Every table and every snapshot of a tick is well-formed; in particular  *)
(* the attempt count of a row never exceeds the budget (worker.ts:546).    *)
THEOREM TypeCorrect == Spec => []TypeOK
<1>1. IInv => TypeOK
  BY DEF IInv
<1> QED
  BY <1>1, QueueInductive, PTL

(* While its lease runs, a tick that claimed a delivery owns it, for any   *)
(* visibility timeout (worker.ts:217-221, 518, 575).                       *)
THEOREM LeaseSafety == Spec => []LiveLeaseIsOwner
<1>1. IInv => LiveLeaseIsOwner
  BY DEF IInv
<1> QED
  BY <1>1, QueueInductive, PTL

(* The expiry time of a lease identifies the claim: at most one of the     *)
(* ticks that remember a delivery can record its outcome (worker.ts:518).  *)
THEOREM FencingSafety == Spec => []FencingTokenUnique
<1>1. IInv => FencingTokenUnique
  BY DEF IInv
<1> QED
  BY <1>1, QueueInductive, PTL

(* The tick that may record has not been overtaken: the attempt number it  *)
(* computed at the claim is the next one (worker.ts:431).                  *)
THEOREM SnapshotSafety == Spec => []OwnerSnapshotIsFresh
<1>1. IInv => OwnerSnapshotIsFresh
  BY DEF IInv
<1> QED
  BY <1>1, QueueInductive, PTL

(* No delivery is left in a state from which no claim can take it up       *)
(* (worker.ts:224-229, 310).                                               *)
THEOREM ProgressPossible == Spec => []NoRowIsStranded
<1>1. IInv => NoRowIsStranded
  BY DEF IInv
<1> QED
  BY <1>1, QueueInductive, PTL

(* What SettledRowsStay asks of delivery d in a step. *)
StaysSettled(d) ==
    /\ status[d] = "succeeded" => status'[d] \in {"succeeded", "deleted"}
    /\ status[d] = "dead_letter" =>
          \/ status'[d] \in {"dead_letter", "deleted"}
          \/ status'[d] = "pending" /\ attemptCount'[d] = 0

LEMMA SettledRowsStayStep ==
  ASSUME TypeOK, [Next]_vars, NEW d \in Deliveries PROVE StaysSettled(d)
<1> USE DEF StaysSettled, TypeOK
<1>1. CASE UNCHANGED <<status, attemptCount>>
  BY <1>1
<1>2. ASSUME NEW c \in Deliveries, Enqueue(c) PROVE StaysSettled(d)
  BY <1>2 DEF Enqueue
<1>3. ASSUME NEW w \in Workers, Claim(w) PROVE StaysSettled(d)
  <2>1. PICK batch \in SUBSET {c \in Deliveries : Claimable(c)} :
          status' = [c \in Deliveries |->
                        IF c \in batch THEN "delivering" ELSE status[c]]
    BY <1>3 DEF Claim
  <2>2. d \in batch => status[d] \in {"pending", "delivering"}
    BY DEF Claimable
  <2>3. attemptCount' = attemptCount
    BY <1>3 DEF Claim
  <2>4. QED
    BY <2>1, <2>2, <2>3
<1>4. ASSUME NEW w \in Workers, NEW c \in Deliveries, Record(w, c)
      PROVE  StaysSettled(d)
  BY <1>4 DEF Record, RecordSuccess, RecordFailure, RecordDeadLetter, RecordStale,
     OwnsLease, rowVars
<1>5. ASSUME NEW m \in Messages, RetryMessage(m) PROVE StaysSettled(d)
  BY <1>5 DEF RetryMessage, Retryable
<1>6. ASSUME NEW e \in Endpoints, DeleteEndpoint(e) PROVE StaysSettled(d)
  BY <1>6 DEF DeleteEndpoint
<1> HIDE DEF StaysSettled, TypeOK
<1>7. \/ UNCHANGED <<status, attemptCount>>
      \/ \E c \in Deliveries : Enqueue(c)
      \/ \E w \in Workers : Claim(w)
      \/ \E w \in Workers, c \in Deliveries : Record(w, c)
      \/ \E m \in Messages : RetryMessage(m)
      \/ \E e \in Endpoints : DeleteEndpoint(e)
  BY DEF Next, Tick, Send, ReceiverAccepts, Crash, SetEnabled, vars, rowVars
<1> QED
  BY <1>1, <1>2, <1>3, <1>4, <1>5, <1>6, <1>7

(* A success is final, and a dead letter is revived only by a retry that   *)
(* clears its count (worker.ts:518, messages.ts:397).                      *)
THEOREM SettledIsFinal == Spec => SettledRowsStay
<1>1. ASSUME TypeOK, [Next]_vars
      PROVE  [\A d \in Deliveries :
                 /\ status[d] = "succeeded" => status'[d] \in {"succeeded", "deleted"}
                 /\ status[d] = "dead_letter" =>
                       \/ status'[d] \in {"dead_letter", "deleted"}
                       \/ status'[d] = "pending" /\ attemptCount'[d] = 0]_vars
  BY <1>1, SettledRowsStayStep DEF StaysSettled
<1> QED
  BY <1>1, TypeCorrect, PTL DEF Spec, SettledRowsStay

-----------------------------------------------------------------------------
(* The audit log *)

LEMMA AuditTrailInit == ASSUME Init PROVE AuditTrail
BY DEF Init, AuditTrail, Live

(* A log of k old and c new entries, with one more.                        *)
LEMMA LogGrows ==
  ASSUME NEW S, NEW s \in Seq(S), NEW x \in S, NEW k \in Nat, NEW c \in Nat,
         Len(s) = k + c
  PROVE  /\ Len(Append(s, x)) = k + (c + 1)
         /\ Append(s, x)[k + (c + 1)] = x
         /\ \A n \in 1 .. c : Append(s, x)[k + n] = s[k + n]
OBVIOUS

(* An outcome is logged by the owner of the delivery's lease: its snapshot *)
(* is fresh, and the row was not settled.                                  *)
LEMMA RecordIsLogged ==
  ASSUME NEW w \in Workers, NEW d \in Deliveries, IInv, EpochIsLogged(d),
         Holds(w, d), OwnsLease(w, d),
         NEW o \in {"succeeded", "failed", "dead_letter"},
         InsertDeliveryAttempt(w, d, o), UNCHANGED epochStart,
         attemptCount'[d] = AttemptNumber(w, d),
         status'[d] = IF o = "failed" THEN "pending" ELSE o,
         o = "dead_letter" => BudgetIsUsedUp(w, d)
  PROVE  EpochIsLogged(d)'
<1> DEFINE row == [number |-> AttemptNumber(w, d), outcome |-> o,
                   at |-> claim[w][d].at]
<1>1. /\ claim[w][d].count = attemptCount[d]
      /\ attemptCount[d] < AttemptBudget
      /\ attemptCount[d] \in Nat
      /\ epochStart[d] \in Nat
      /\ attempts[d] \in Seq(AttemptRow)
      /\ status[d] = "delivering"
  BY DEF IInv, TypeOK, OwnerSnapshotIsFresh, OwnsLease
<1>2. AttemptNumber(w, d) = attemptCount[d] + 1
  BY <1>1 DEF AttemptNumber
<1>3. /\ attemptCount'[d] = attemptCount[d] + 1
      /\ status'[d] = IF o = "failed" THEN "pending" ELSE o
      /\ epochStart'[d] = epochStart[d]
  BY <1>2
<1>4. attempts'[d] = Append(attempts[d], row)
  BY DEF InsertDeliveryAttempt, LogAttempt, IInv, TypeOK
<1>5. row.number = attemptCount[d] + 1 /\ row.outcome = o
  BY <1>2
<1>6. row \in AttemptRow
  BY AttemptIsInBudget
<1> HIDE DEF row
<1>7. /\ Len(attempts[d]) = epochStart[d] + attemptCount[d]
      /\ \A n \in 1 .. attemptCount[d] :
            /\ attempts[d][epochStart[d] + n].number = n
            /\ attempts[d][epochStart[d] + n].outcome = "failed"
  BY <1>1 DEF EpochIsLogged
<1>8. /\ Len(Append(attempts[d], row)) = epochStart[d] + (attemptCount[d] + 1)
      /\ Append(attempts[d], row)[epochStart[d] + (attemptCount[d] + 1)] = row
      /\ \A n \in 1 .. attemptCount[d] :
            Append(attempts[d], row)[epochStart[d] + n] = attempts[d][epochStart[d] + n]
  <2> DEFINE log == attempts[d]
             old == epochStart[d]
             new == attemptCount[d]
  <2>1. log \in Seq(AttemptRow) /\ old \in Nat /\ new \in Nat
    BY <1>1
  <2>2. Len(log) = old + new
    BY <1>7
  <2> HIDE DEF log, old, new
  <2>3. /\ Len(Append(log, row)) = old + (new + 1)
        /\ Append(log, row)[old + (new + 1)] = row
        /\ \A n \in 1 .. new : Append(log, row)[old + n] = log[old + n]
    BY <1>6, <2>1, <2>2, LogGrows
  <2>4. QED
    BY <2>3 DEF log, old, new
<1>9. /\ Len(attempts'[d]) = epochStart[d] + attemptCount'[d]
      /\ attempts'[d][epochStart[d] + attemptCount'[d]] = row
      /\ \A n \in 1 .. attemptCount[d] :
            attempts'[d][epochStart[d] + n] = attempts[d][epochStart[d] + n]
  BY <1>3, <1>4, <1>8, Zenon
<1>10. ASSUME NEW n \in 1 .. attemptCount'[d]
       PROVE  /\ attempts'[d][epochStart'[d] + n].number = n
              /\ attempts'[d][epochStart'[d] + n].outcome =
                   IF n = attemptCount'[d] /\ status'[d] \in {"succeeded", "dead_letter"}
                   THEN status'[d] ELSE "failed"
  <2>1. CASE n = attemptCount'[d]
    BY <2>1, <1>3, <1>5, <1>9
  <2>2. CASE n # attemptCount'[d]
    <3>1. n \in 1 .. attemptCount[d]
      BY <2>2, <1>1, <1>3
    <3>2. QED
      BY <2>2, <3>1, <1>3, <1>7, <1>9
  <2>3. QED
    BY <2>1, <2>2
<1>11. /\ status'[d] = "succeeded" => attemptCount'[d] > 0
       /\ status'[d] = "dead_letter" => attemptCount'[d] = AttemptBudget
  BY <1>1, <1>2, <1>3 DEF BudgetIsUsedUp
<1> QED
  BY <1>3, <1>9, <1>10, <1>11 DEF EpochIsLogged

(* A row that only changes from one unsettled status to another.           *)
LEMMA LogIsKept ==
  ASSUME NEW d \in Deliveries, EpochIsLogged(d),
         attempts'[d] = attempts[d], epochStart'[d] = epochStart[d],
         attemptCount'[d] = attemptCount[d],
         \/ status'[d] = status[d]
         \/ {status[d], status'[d]} \cap {"succeeded", "dead_letter"} = {}
  PROVE  EpochIsLogged(d)'
BY DEF EpochIsLogged

LEMMA AuditTrailRecord ==
  ASSUME NEW w \in Workers, NEW d \in Deliveries, IInv, AuditTrail,
         NEW o \in {"succeeded", "failed", "dead_letter"},
         Holds(w, d), OwnsLease(w, d), InsertDeliveryAttempt(w, d, o),
         UNCHANGED epochStart,
         attemptCount' = [attemptCount EXCEPT ![d] = AttemptNumber(w, d)],
         status' = [status EXCEPT ![d] = IF o = "failed" THEN "pending" ELSE o],
         o = "dead_letter" => BudgetIsUsedUp(w, d)
  PROVE  AuditTrail'
<1>1. EpochIsLogged(d)
  BY DEF AuditTrail, Live, OwnsLease
<1>2. /\ attemptCount'[d] = AttemptNumber(w, d)
      /\ status'[d] = IF o = "failed" THEN "pending" ELSE o
      /\ \A c \in Deliveries : c # d =>
            attemptCount'[c] = attemptCount[c] /\ status'[c] = status[c]
  BY DEF IInv, TypeOK
<1>3. EpochIsLogged(d)'
  BY <1>1, <1>2, RecordIsLogged
<1>4. ASSUME NEW c \in Deliveries, c # d, Live(c)' PROVE EpochIsLogged(c)'
  <2>1. attempts'[c] = attempts[c]
    BY <1>4, AttemptsStayTyped
  <2>2. EpochIsLogged(c)
    BY <1>2, <1>4 DEF AuditTrail, Live
  <2>3. QED
    BY <1>2, <1>4, <2>1, <2>2, LogIsKept
<1> QED
  BY <1>3, <1>4 DEF AuditTrail

LEMMA AuditTrailNext == IInv /\ AuditTrail /\ [Next]_vars => AuditTrail'
<1> SUFFICES ASSUME IInv, AuditTrail, [Next]_vars PROVE AuditTrail'
  OBVIOUS
<1>1. CASE UNCHANGED <<status, attemptCount, attempts, epochStart>>
  BY <1>1, LogIsKept DEF AuditTrail, Live
<1>2. ASSUME NEW d \in Deliveries, Enqueue(d) PROVE AuditTrail'
  <2>1. /\ attemptCount'[d] = 0 /\ epochStart'[d] = 0 /\ attempts'[d] = << >>
        /\ status'[d] = "pending"
    BY <1>2 DEF Enqueue, IInv, TypeOK, AbsentRowsAreUntouched
  <2>2. EpochIsLogged(d)'
    BY <2>1 DEF EpochIsLogged
  <2>3. ASSUME NEW c \in Deliveries, c # d, Live(c)' PROVE EpochIsLogged(c)'
    <3>1. /\ status'[c] = status[c] /\ attempts'[c] = attempts[c]
          /\ attemptCount'[c] = attemptCount[c] /\ epochStart'[c] = epochStart[c]
      BY <1>2, <2>3 DEF Enqueue, IInv, TypeOK
    <3>2. QED
      BY <2>3, <3>1, LogIsKept DEF AuditTrail, Live
  <2>4. QED
    BY <2>2, <2>3 DEF AuditTrail
<1>3. ASSUME NEW w \in Workers, Claim(w) PROVE AuditTrail'
  <2>1. PICK batch \in SUBSET {c \in Deliveries : Claimable(c)} :
          status' = [c \in Deliveries |->
                        IF c \in batch THEN "delivering" ELSE status[c]]
    BY <1>3 DEF Claim
  <2>2. UNCHANGED <<attempts, attemptCount, epochStart>>
    BY <1>3 DEF Claim
  <2>3. ASSUME NEW d \in Deliveries, Live(d)' PROVE EpochIsLogged(d)'
    <3>1. \/ status'[d] = status[d]
          \/ status[d] \in {"pending", "delivering"} /\ status'[d] = "delivering"
      BY <2>1 DEF Claimable
    <3>2. EpochIsLogged(d)
      BY <2>3, <3>1 DEF AuditTrail, Live
    <3>3. QED
      BY <2>2, <3>1, <3>2, LogIsKept
  <2>4. QED
    BY <2>3 DEF AuditTrail
<1>4. ASSUME NEW w \in Workers, NEW d \in Deliveries, Record(w, d)
      PROVE  AuditTrail'
  <2>1. CASE RecordSuccess(w, d)
    <3>1. /\ Holds(w, d) /\ OwnsLease(w, d)
          /\ InsertDeliveryAttempt(w, d, "succeeded") /\ UNCHANGED epochStart
          /\ attemptCount' = [attemptCount EXCEPT ![d] = AttemptNumber(w, d)]
          /\ status' = [status EXCEPT ![d] = "succeeded"]
      BY <2>1 DEF RecordSuccess, Holds
    <3>2. QED
      BY <3>1, AuditTrailRecord
  <2>2. CASE RecordFailure(w, d)
    <3>1. /\ Holds(w, d) /\ OwnsLease(w, d)
          /\ InsertDeliveryAttempt(w, d, "failed") /\ UNCHANGED epochStart
          /\ attemptCount' = [attemptCount EXCEPT ![d] = AttemptNumber(w, d)]
          /\ status' = [status EXCEPT ![d] = "pending"]
      BY <2>2 DEF RecordFailure, Holds, Requesting
    <3>2. QED
      BY <3>1, AuditTrailRecord
  <2>3. CASE RecordDeadLetter(w, d)
    <3>1. /\ Holds(w, d) /\ OwnsLease(w, d) /\ BudgetIsUsedUp(w, d)
          /\ InsertDeliveryAttempt(w, d, "dead_letter") /\ UNCHANGED epochStart
          /\ attemptCount' = [attemptCount EXCEPT ![d] = AttemptNumber(w, d)]
          /\ status' = [status EXCEPT ![d] = "dead_letter"]
      BY <2>3 DEF RecordDeadLetter, Holds, Requesting
    <3>2. QED
      BY <3>1, AuditTrailRecord
  <2>4. CASE RecordStale(w, d)
    BY <2>4, <1>1 DEF RecordStale, rowVars
  <2>5. QED
    BY <1>4, <2>1, <2>2, <2>3, <2>4 DEF Record
<1>5. ASSUME NEW m \in Messages, RetryMessage(m) PROVE AuditTrail'
  <2>1. ASSUME NEW d \in Deliveries, Live(d)' PROVE EpochIsLogged(d)'
    <3>1. CASE d \in Retryable(m)
      <4>1. /\ status'[d] = "pending" /\ attemptCount'[d] = 0
            /\ epochStart'[d] = Len(attempts[d]) /\ attempts'[d] = attempts[d]
        BY <1>5, <3>1 DEF RetryMessage
      <4>2. Len(attempts[d]) \in Nat
        BY DEF IInv, TypeOK
      <4>3. QED
        BY <4>1, <4>2 DEF EpochIsLogged
    <3>2. CASE d \notin Retryable(m)
      <4>1. /\ status'[d] = status[d] /\ attempts'[d] = attempts[d]
            /\ attemptCount'[d] = attemptCount[d] /\ epochStart'[d] = epochStart[d]
        BY <1>5, <3>2 DEF RetryMessage
      <4>2. QED
        BY <2>1, <4>1, LogIsKept DEF AuditTrail, Live
    <3>3. QED
      BY <3>1, <3>2
  <2>2. QED
    BY <2>1 DEF AuditTrail
<1>6. ASSUME NEW e \in Endpoints, DeleteEndpoint(e) PROVE AuditTrail'
  <2>1. ASSUME NEW d \in Deliveries, Live(d)' PROVE EpochIsLogged(d)'
    <3>1. ~(EndpointOf[d] = e /\ status[d] # "absent")
      BY <1>6, <2>1 DEF DeleteEndpoint, Live
    <3>2. /\ status'[d] = status[d] /\ attempts'[d] = attempts[d]
          /\ attemptCount'[d] = attemptCount[d] /\ epochStart'[d] = epochStart[d]
      BY <1>6, <3>1 DEF DeleteEndpoint
    <3>3. QED
      BY <2>1, <3>2, LogIsKept DEF AuditTrail, Live
  <2>2. QED
    BY <2>1 DEF AuditTrail
<1>7. \/ UNCHANGED <<status, attemptCount, attempts, epochStart>>
      \/ \E d \in Deliveries : Enqueue(d)
      \/ \E w \in Workers : Claim(w)
      \/ \E w \in Workers, d \in Deliveries : Record(w, d)
      \/ \E m \in Messages : RetryMessage(m)
      \/ \E e \in Endpoints : DeleteEndpoint(e)
  BY DEF Next, Tick, Send, ReceiverAccepts, Crash, SetEnabled, vars, rowVars
<1> QED
  BY <1>1, <1>2, <1>3, <1>4, <1>5, <1>6, <1>7

(* The audit log of an epoch is complete, numbered and ends with the       *)
(* outcome that settled the delivery (worker.ts:606, messages.ts:400).     *)
THEOREM AuditTrailIsComplete == Spec => []AuditTrail
<1>1. Init => AuditTrail
  BY AuditTrailInit
<1>2. IInv /\ AuditTrail /\ [Next]_vars => AuditTrail'
  BY AuditTrailNext
<1> QED
  BY <1>1, <1>2, QueueInductive, PTL DEF Spec

-----------------------------------------------------------------------------
(* The meter *)

(* The log is finite, whatever the number of deliveries.                   *)
LogIsFinite == IsFiniteSet(LoggedAttempts)

(* One more row for delivery d is one more logged attempt.                 *)
LEMMA LoggedAttemptsGrow ==
  ASSUME NEW d \in Deliveries, NEW row \in AttemptRow,
         attempts \in [Deliveries -> Seq(AttemptRow)],
         attempts' = [attempts EXCEPT ![d] = Append(@, row)]
  PROVE  /\ <<d, Len(attempts[d]) + 1>> \notin LoggedAttempts
         /\ LoggedAttempts' = LoggedAttempts \cup {<<d, Len(attempts[d]) + 1>>}
<1> DEFINE n == Len(attempts[d])
<1>1. n \in Nat /\ DOMAIN attempts[d] = 1 .. n
  OBVIOUS
<1>2. DOMAIN Append(attempts[d], row) = 1 .. (n + 1)
  BY <1>1
<1> HIDE DEF n
<1>3. 1 .. (n + 1) = (1 .. n) \cup {n + 1} /\ n + 1 \notin 1 .. n
  BY <1>1
<1>4. /\ DOMAIN attempts'[d] = DOMAIN attempts[d] \cup {n + 1}
      /\ n + 1 \notin DOMAIN attempts[d]
      /\ \A c \in Deliveries : c # d => attempts'[c] = attempts[c]
  BY <1>1, <1>2, <1>3
<1>5. <<d, n + 1>> \notin LoggedAttempts
  BY <1>4 DEF LoggedAttempts
<1>6. \A x : x \in LoggedAttempts' <=> x \in LoggedAttempts \/ x = <<d, n + 1>>
  <2>1. \A x : x \in LoggedAttempts' <=>
               \E c \in Deliveries : x \in {c} \X DOMAIN attempts'[c]
    BY DEF LoggedAttempts
  <2>2. \A x : x \in LoggedAttempts <=>
               \E c \in Deliveries : x \in {c} \X DOMAIN attempts[c]
    BY DEF LoggedAttempts
  <2>3. \A x, c : c \in Deliveries =>
          (x \in {c} \X DOMAIN attempts'[c] <=>
             x \in {c} \X DOMAIN attempts[c] \/ (c = d /\ x = <<d, n + 1>>))
    BY <1>4
  <2>4. QED
    BY <2>1, <2>2, <2>3
<1> QED
  BY <1>5, <1>6 DEF n

(* An endpoint that was deleted stays so. *)
LEMMA DeletionIsFinal ==
  ASSUME TypeOK, [Next]_vars, NEW e \in Endpoints, endpoint[e] = "deleted"
  PROVE  endpoint'[e] = "deleted"
<1>1. CASE UNCHANGED endpoint
  BY <1>1
<1>2. ASSUME NEW w \in Workers, NEW d \in Deliveries, RecordDeadLetter(w, d)
      PROVE  endpoint'[e] = "deleted"
  BY <1>2 DEF RecordDeadLetter, TypeOK
<1>3. ASSUME NEW f \in Endpoints, NEW s \in {"enabled", "disabled"}, SetEnabled(f, s)
      PROVE  endpoint'[e] = "deleted"
  BY <1>3 DEF SetEnabled, TypeOK
<1>4. ASSUME NEW f \in Endpoints, DeleteEndpoint(f) PROVE endpoint'[e] = "deleted"
  BY <1>4 DEF DeleteEndpoint, TypeOK
<1>5. \/ UNCHANGED endpoint
      \/ \E w \in Workers, d \in Deliveries : RecordDeadLetter(w, d)
      \/ \E f \in Endpoints, s \in {"enabled", "disabled"} : SetEnabled(f, s)
      \/ \E f \in Endpoints : DeleteEndpoint(f)
  BY DEF Next, Tick, Enqueue, Claim, Send, ReceiverAccepts, Record, RecordSuccess,
     RecordFailure, RecordStale, Crash, RetryMessage, vars
<1> QED
  BY <1>1, <1>2, <1>3, <1>4, <1>5

(* The log only changes with the meter, or with an endpoint that goes.     *)
LEMMA LogAndMeter ==
  ASSUME IInv, [Next]_vars
  PROVE  \/ UNCHANGED <<attempts, metered>>
         \/ \E w \in Workers, d \in Deliveries, o \in {"succeeded", "failed", "dead_letter"} :
               Holds(w, d) /\ OwnsLease(w, d) /\ InsertDeliveryAttempt(w, d, o)
         \/ \E e \in Endpoints : DeleteEndpoint(e)
<1>1. ASSUME NEW w \in Workers, NEW d \in Deliveries, Record(w, d)
      PROVE  \/ UNCHANGED <<attempts, metered>>
             \/ \E o \in {"succeeded", "failed", "dead_letter"} :
                   Holds(w, d) /\ OwnsLease(w, d) /\ InsertDeliveryAttempt(w, d, o)
  BY <1>1 DEF Record, RecordSuccess, RecordFailure, RecordDeadLetter, RecordStale,
     rowVars, Holds, Requesting
<1>2. \/ UNCHANGED <<attempts, metered>>
      \/ \E w \in Workers, d \in Deliveries : Record(w, d)
      \/ \E e \in Endpoints : DeleteEndpoint(e)
  BY DEF Next, Tick, Enqueue, Claim, Send, ReceiverAccepts, Crash, RetryMessage,
     SetEnabled, vars, rowVars
<1> QED
  BY <1>1, <1>2

(* A recorded outcome is one more row of the log.                          *)
LEMMA AttemptIsLogged ==
  ASSUME IInv, LogIsFinite, NEW w \in Workers, NEW d \in Deliveries,
         NEW o \in {"succeeded", "failed", "dead_letter"},
         Holds(w, d), OwnsLease(w, d), InsertDeliveryAttempt(w, d, o)
  PROVE  /\ IsFiniteSet(LoggedAttempts')
         /\ Cardinality(LoggedAttempts') = Cardinality(LoggedAttempts) + 1
<1> DEFINE row == [number |-> AttemptNumber(w, d), outcome |-> o,
                   at |-> claim[w][d].at]
           x == <<d, Len(attempts[d]) + 1>>
<1>1. row \in AttemptRow
  BY AttemptIsInBudget
<1>2. attempts' = [attempts EXCEPT ![d] = Append(@, row)]
  BY DEF InsertDeliveryAttempt, LogAttempt
<1> HIDE DEF row
<1>3. x \notin LoggedAttempts /\ LoggedAttempts' = LoggedAttempts \cup {x}
  BY <1>1, <1>2, LoggedAttemptsGrow DEF IInv, TypeOK
<1> HIDE DEF x
<1> QED
  BY <1>3, FS_AddElement DEF LogIsFinite

LEMMA MeterInit == Init => LogIsFinite /\ AttemptsAreMetered
<1> SUFFICES ASSUME Init PROVE LogIsFinite /\ AttemptsAreMetered
  OBVIOUS
<1>1. \A d \in Deliveries : attempts[d] = << >> /\ DOMAIN << >> = {}
  BY DEF Init
<1>2. LoggedAttempts = {}
  BY <1>1 DEF LoggedAttempts
<1>3. IsFiniteSet(LoggedAttempts) /\ Cardinality(LoggedAttempts) = 0
  BY <1>2, FS_EmptySet
<1> QED
  BY <1>3 DEF Init, LogIsFinite, AttemptsAreMetered

LEMMA MeterNext ==
  IInv /\ LogIsFinite /\ AttemptsAreMetered /\ [Next]_vars
     => LogIsFinite' /\ AttemptsAreMetered'
<1> SUFFICES ASSUME IInv, LogIsFinite, AttemptsAreMetered, [Next]_vars
             PROVE  LogIsFinite' /\ AttemptsAreMetered'
  OBVIOUS
<1>1. /\ Cardinality(LoggedAttempts) \in Nat
      /\ Cardinality(LoggedAttempts) <= metered
      /\ (\A e \in Endpoints : endpoint[e] # "deleted")
            => Cardinality(LoggedAttempts) = metered
      /\ metered \in Nat
  BY FS_CardinalityType DEF LogIsFinite, AttemptsAreMetered, IInv, TypeOK
<1>2. (\A e \in Endpoints : endpoint'[e] # "deleted")
         => \A e \in Endpoints : endpoint[e] # "deleted"
  BY DeletionIsFinal DEF IInv
<1>3. CASE UNCHANGED <<attempts, metered>>
  <2>1. LoggedAttempts' = LoggedAttempts
    BY <1>3 DEF LoggedAttempts
  <2>2. QED
    BY <1>1, <1>2, <1>3, <2>1 DEF LogIsFinite, AttemptsAreMetered
<1>4. ASSUME NEW w \in Workers, NEW d \in Deliveries,
             NEW o \in {"succeeded", "failed", "dead_letter"},
             Holds(w, d), OwnsLease(w, d), InsertDeliveryAttempt(w, d, o)
      PROVE  LogIsFinite' /\ AttemptsAreMetered'
  <2>1. metered' = metered + 1
    BY <1>4 DEF InsertDeliveryAttempt
  <2>2. /\ IsFiniteSet(LoggedAttempts')
        /\ Cardinality(LoggedAttempts') = Cardinality(LoggedAttempts) + 1
    BY <1>4, AttemptIsLogged
  <2>3. QED
    BY <1>1, <1>2, <2>1, <2>2 DEF LogIsFinite, AttemptsAreMetered
<1>5. ASSUME NEW e \in Endpoints, DeleteEndpoint(e)
      PROVE  LogIsFinite' /\ AttemptsAreMetered'
  <2>1. \A d \in Deliveries : attempts'[d] = << >> \/ attempts'[d] = attempts[d]
    BY <1>5 DEF DeleteEndpoint
  <2>2. LoggedAttempts' \subseteq LoggedAttempts
    BY <2>1 DEF LoggedAttempts
  <2>3. /\ IsFiniteSet(LoggedAttempts')
        /\ Cardinality(LoggedAttempts') <= Cardinality(LoggedAttempts)
        /\ Cardinality(LoggedAttempts') \in Nat
    BY <2>2, FS_Subset, FS_CardinalityType DEF LogIsFinite
  <2>4. endpoint'[e] = "deleted" /\ metered' = metered
    BY <1>5 DEF DeleteEndpoint, IInv, TypeOK
  <2>5. QED
    BY <1>1, <2>3, <2>4 DEF LogIsFinite, AttemptsAreMetered
<1> QED
  BY <1>3, <1>4, <1>5, LogAndMeter

(* The app is billed for every attempt in the log, those of earlier epochs *)
(* included, and for no outcome that came too late (usage.ts:78,           *)
(* worker.ts:630).                                                         *)
THEOREM MeterIsExact == Spec => []AttemptsAreMetered
<1>1. Init => LogIsFinite /\ AttemptsAreMetered
  BY MeterInit
<1>2. IInv /\ LogIsFinite /\ AttemptsAreMetered /\ [Next]_vars
         => LogIsFinite' /\ AttemptsAreMetered'
  BY MeterNext
<1> QED
  BY <1>1, <1>2, QueueInductive, PTL DEF Spec

(* A step that makes posthorn_deliveries_total fall deletes an endpoint.   *)
CounterStep ==
    DeliveriesTotal' < DeliveriesTotal =>
        \E e \in Endpoints : endpoint[e] # "deleted" /\ endpoint'[e] = "deleted"

(* The log loses rows only with their endpoint. *)
LEMMA CounterStepHolds == IInv /\ LogIsFinite /\ [Next]_vars => [CounterStep]_vars
<1> SUFFICES ASSUME IInv, LogIsFinite, [Next]_vars PROVE CounterStep
  OBVIOUS
<1>0. Cardinality(LoggedAttempts) \in Nat
  BY FS_CardinalityType DEF LogIsFinite
<1>1. CASE UNCHANGED <<attempts, metered>>
  <2>1. LoggedAttempts' = LoggedAttempts
    BY <1>1 DEF LoggedAttempts
  <2>2. QED
    BY <1>0, <2>1 DEF CounterStep, DeliveriesTotal
<1>2. ASSUME NEW w \in Workers, NEW d \in Deliveries,
             NEW o \in {"succeeded", "failed", "dead_letter"},
             Holds(w, d), OwnsLease(w, d), InsertDeliveryAttempt(w, d, o)
      PROVE  CounterStep
  <2>1. /\ IsFiniteSet(LoggedAttempts')
        /\ Cardinality(LoggedAttempts') = Cardinality(LoggedAttempts) + 1
    BY <1>2, AttemptIsLogged
  <2>2. QED
    BY <1>0, <2>1 DEF CounterStep, DeliveriesTotal
<1>3. ASSUME NEW e \in Endpoints, DeleteEndpoint(e) PROVE CounterStep
  BY <1>3 DEF DeleteEndpoint, CounterStep, IInv, TypeOK
<1> QED
  BY <1>1, <1>2, <1>3, LogAndMeter

(* metrics.ts:41 calls posthorn_deliveries_total a counter: no outcome, no *)
(* race and no retry of a dead letter makes it fall, only the deletion of  *)
(* an endpoint.                                                            *)
THEOREM CounterOnlyFallsByDeletion == Spec => [][CounterStep]_vars
<1>1. Init => LogIsFinite /\ AttemptsAreMetered
  BY MeterInit
<1>2. IInv /\ LogIsFinite /\ AttemptsAreMetered /\ [Next]_vars
         => LogIsFinite' /\ AttemptsAreMetered'
  BY MeterNext
<1>3. IInv /\ LogIsFinite /\ [Next]_vars => [CounterStep]_vars
  BY CounterStepHolds
<1> QED
  BY <1>1, <1>2, <1>3, QueueInductive, PTL DEF Spec

-----------------------------------------------------------------------------
(* Auto-disabling *)

LEMMA DisablingNeedsOlderFailure ==
  ASSUME IInv, [Next]_vars, NEW e \in Endpoints, WorkerDisables(e)
  PROVE  HasOlderFailure(e)
<1>1. PICK w \in Workers, d \in Deliveries : RecordDeadLetter(w, d)
  <2>1. operatorOps' = operatorOps /\ operatorOps \in Nat
        /\ endpoint[e] = "enabled" /\ endpoint'[e] = "disabled"
    BY DEF WorkerDisables, IInv, TypeOK
  <2>2. ~ \E m \in Messages : RetryMessage(m)
    BY <2>1 DEF RetryMessage
  <2>3. ~ \E f \in Endpoints, s \in {"enabled", "disabled"} : SetEnabled(f, s)
    BY <2>1 DEF SetEnabled, OperatorRequest
  <2>4. ~ \E f \in Endpoints : DeleteEndpoint(f)
    BY <2>1 DEF DeleteEndpoint, OperatorRequest
  <2>5. endpoint' # endpoint
    BY <2>1
  <2>6. QED
    BY <2>2, <2>3, <2>4, <2>5 DEF Next, Tick, Enqueue, Claim, Send, ReceiverAccepts,
       Record, RecordSuccess, RecordFailure, RecordStale, Crash, vars
<1> DEFINE row == [number |-> AttemptNumber(w, d), outcome |-> "dead_letter",
                   at |-> claim[w][d].at]
<1>2. /\ Holds(w, d) /\ OwnsLease(w, d)
      /\ attempts' = [attempts EXCEPT ![d] = Append(@, row)]
      /\ EndpointOf[d] = e
      /\ FailureWindowCrossed(e, attempts', claim[w][d].at)
  BY <1>1 DEF RecordDeadLetter, Holds, Requesting, InsertDeliveryAttempt, LogAttempt,
     WorkerDisables, IInv, TypeOK
<1>3. row \in AttemptRow /\ row.at = claim[w][d].at
  BY <1>2, AttemptIsInBudget
<1> HIDE DEF row
<1>4. PICK c \in Deliveries :
        /\ EndpointOf[c] = e
        /\ \E i \in DOMAIN attempts'[c] :
              /\ attempts'[c][i].outcome \in {"failed", "dead_letter"}
              /\ attempts'[c][i].at <= now - AutoDisableAfter
              /\ attempts'[c][i].at < claim[w][d].at
  BY <1>2 DEF FailureWindowCrossed, AttemptsOf
<1>5. PICK i \in DOMAIN attempts'[c] :
        /\ attempts'[c][i].outcome \in {"failed", "dead_letter"}
        /\ attempts'[c][i].at <= now - AutoDisableAfter
        /\ attempts'[c][i].at < claim[w][d].at
  BY <1>4
<1>6. attempts[c] \in Seq(AttemptRow) /\ claim[w][d].at \in Nat
  BY DEF IInv, TypeOK, Task
(* The row being recorded is not older than itself. *)
<1>7. i \in DOMAIN attempts[c] /\ attempts'[c][i] = attempts[c][i]
  <2>1. CASE c # d
    BY <2>1, <1>2, <1>5 DEF IInv, TypeOK
  <2>2. CASE c = d
    <3>1. attempts'[c] = Append(attempts[c], row)
      BY <2>2, <1>2 DEF IInv, TypeOK
    <3>2. Append(attempts[c], row)[Len(attempts[c]) + 1] = row
      BY <1>3, <1>6
    <3>3. i # Len(attempts[c]) + 1
      BY <1>3, <1>5, <1>6, <3>1, <3>2
    <3>4. i \in 1 .. Len(attempts[c])
      BY <1>3, <1>5, <1>6, <3>1, <3>3
    <3>5. QED
      BY <1>3, <1>6, <3>1, <3>4
  <2>3. QED
    BY <2>1, <2>2
<1> QED
  BY <1>4, <1>5, <1>7 DEF HasOlderFailure

(* The worker disables an endpoint only on evidence older than the attempt *)
(* that it is recording, and against this endpoint (DECISIONS.md:29).      *)
THEOREM DisablingIsJustified == Spec => DisabledOnItsOwnOlderFailure
<1>1. ASSUME IInv, [Next]_vars
      PROVE  [\A e \in Endpoints : WorkerDisables(e) => HasOlderFailure(e)]_vars
  BY <1>1, DisablingNeedsOlderFailure
<1> QED
  BY <1>1, QueueInductive, PTL DEF Spec, DisabledOnItsOwnOlderFailure

-----------------------------------------------------------------------------
(* The queue implements DeliveryOwnership: without clock and lease         *)
(* timestamps, its ticks own, lose and settle deliveries as promised.      *)

(* The variables of DeliveryOwnership, as the queue represents them.       *)
IsDue(d) ==
    \/ status[d] = "pending" /\ RetryIsDue(d)
    \/ status[d] = "delivering" /\ LeaseHasExpired(d)
DueMap == [d \in Deliveries |-> IsDue(d)]
OwnerMap == [d \in Deliveries |-> Owner(d)]
WorkingMap == [w \in Workers |-> {d \in Deliveries : Holds(w, d)}]
OwnsIt(w, d) == Holds(w, d) /\ OwnsLease(w, d)

(* A delivery that is not inserted yet is due as soon as it is.            *)
AbsentRowsAreDue == \A d \in Deliveries : status[d] = "absent" => nextAttemptAt[d] = None

RInv == IInv /\ AbsentRowsAreDue

LEMMA AbsentRowsStayDue == IInv /\ AbsentRowsAreDue /\ [Next]_vars => AbsentRowsAreDue'
<1> SUFFICES ASSUME IInv, AbsentRowsAreDue, [Next]_vars,
                    NEW d \in Deliveries, status'[d] = "absent"
             PROVE  nextAttemptAt'[d] = None
  BY DEF AbsentRowsAreDue
<1> USE DEF IInv, TypeOK, AbsentRowsAreDue
<1>1. CASE UNCHANGED <<status, nextAttemptAt>>
  BY <1>1
<1>2. ASSUME NEW c \in Deliveries, Enqueue(c) PROVE nextAttemptAt'[d] = None
  BY <1>2 DEF Enqueue
<1>3. ASSUME NEW w \in Workers, Claim(w) PROVE nextAttemptAt'[d] = None
  BY <1>3 DEF Claim
<1>4. ASSUME NEW w \in Workers, NEW c \in Deliveries, Record(w, c)
      PROVE  nextAttemptAt'[d] = None
  BY <1>4 DEF Record, RecordSuccess, RecordFailure, RecordDeadLetter, RecordStale,
     rowVars
<1>5. ASSUME NEW m \in Messages, RetryMessage(m) PROVE nextAttemptAt'[d] = None
  BY <1>5 DEF RetryMessage
<1>6. ASSUME NEW e \in Endpoints, DeleteEndpoint(e) PROVE nextAttemptAt'[d] = None
  BY <1>6 DEF DeleteEndpoint
<1>7. \/ UNCHANGED <<status, nextAttemptAt>>
      \/ \E c \in Deliveries : Enqueue(c)
      \/ \E w \in Workers : Claim(w)
      \/ \E w \in Workers, c \in Deliveries : Record(w, c)
      \/ \E m \in Messages : RetryMessage(m)
      \/ \E e \in Endpoints : DeleteEndpoint(e)
  BY DEF Next, Tick, Send, ReceiverAccepts, Crash, SetEnabled, vars, rowVars
<1> QED
  BY <1>1, <1>2, <1>3, <1>4, <1>5, <1>6, <1>7

LEMMA RefinementInvariant == Spec => []RInv
<1>1. Init => AbsentRowsAreDue
  BY DEF Init, AbsentRowsAreDue
<1> QED
  BY <1>1, AbsentRowsStayDue, QueueInductive, PTL DEF Spec, RInv

-----------------------------------------------------------------------------
(* As fencing tokens are unique, the owner is whoever owns the lease.      *)
OwnersAreUnique ==
    \A d \in Deliveries :
        /\ Owner(d) \in Workers \cup {None}
        /\ \A w \in Workers : Owner(d) = w <=> OwnsIt(w, d)

LEMMA OwnerIs == FencingTokenUnique => OwnersAreUnique
<1> SUFFICES ASSUME FencingTokenUnique, NEW d \in Deliveries
             PROVE  /\ Owner(d) \in Workers \cup {None}
                    /\ \A w \in Workers : Owner(d) = w <=> OwnsIt(w, d)
  BY DEF OwnersAreUnique
<1>1. \A v, w \in Workers : OwnsIt(v, d) /\ OwnsIt(w, d) => v = w
  BY DEF FencingTokenUnique, OwnsIt, OwnsLease
<1>2. CASE \E w \in Workers : OwnsIt(w, d)
  <2>1. PICK w \in Workers : OwnsIt(w, d)
    BY <1>2
  <2>2. Owner(d) = CHOOSE v \in Workers : OwnsIt(v, d)
    BY <1>2 DEF Owner, OwnsIt
  <2>3. Owner(d) \in Workers /\ OwnsIt(Owner(d), d)
    BY <2>1, <2>2
  <2>4. QED
    BY <1>1, <2>3
<1>3. CASE ~ \E w \in Workers : OwnsIt(w, d)
  BY <1>3 DEF Owner, OwnsIt
<1> QED
  BY <1>2, <1>3

LEMMA OwnerIsNext == FencingTokenUnique' => OwnersAreUnique'
BY OwnerIs, PTL

(* Steps that change who owns d only as far as they say.                   *)
LEMMA OwnerStays ==
  ASSUME IInv, IInv', NEW d \in Deliveries,
         \A w \in Workers : OwnsIt(w, d)' <=> OwnsIt(w, d)
  PROVE  Owner(d)' = Owner(d)
<1>1. /\ Owner(d) \in Workers \cup {None}
      /\ \A w \in Workers : Owner(d) = w <=> OwnsIt(w, d)
  BY OwnerIs DEF IInv, OwnersAreUnique
<1>2. /\ Owner(d)' \in Workers \cup {None}
      /\ \A w \in Workers : Owner(d)' = w <=> OwnsIt(w, d)'
  BY OwnerIsNext DEF IInv, OwnersAreUnique
<1> QED
  BY <1>1, <1>2

LEMMA OwnerIsLost ==
  ASSUME IInv', NEW d \in Deliveries, \A w \in Workers : ~OwnsIt(w, d)'
  PROVE  Owner(d)' = None
<1>1. /\ Owner(d)' \in Workers \cup {None}
      /\ \A w \in Workers : Owner(d)' = w <=> OwnsIt(w, d)'
  BY OwnerIsNext DEF IInv, OwnersAreUnique
<1> QED
  BY <1>1

LEMMA OwnerBecomes ==
  ASSUME IInv', NEW d \in Deliveries, NEW w \in Workers, OwnsIt(w, d)'
  PROVE  Owner(d)' = w
<1>1. \A v \in Workers : Owner(d)' = v <=> OwnsIt(v, d)'
  BY OwnerIsNext DEF IInv, OwnersAreUnique
<1> QED
  BY <1>1

(* What the row and the tasks of a delivery determine.                     *)
LEMMA SameRowSameOwner ==
  ASSUME IInv, IInv', NEW d \in Deliveries, status'[d] = status[d],
         leaseExpiresAt'[d] = leaseExpiresAt[d],
         \A w \in Workers : OwnsIt(w, d) \/ OwnsIt(w, d)' => claim'[w][d] = claim[w][d]
  PROVE  Owner(d)' = Owner(d)
<1>1. \A w \in Workers : OwnsIt(w, d)' <=> OwnsIt(w, d)
  BY DEF OwnsIt, Holds, OwnsLease
<1> QED
  BY <1>1, OwnerStays

LEMMA DueIsBoolean ==
  ASSUME NEW d \in Deliveries PROVE IsDue(d) \in BOOLEAN /\ IsDue(d)' \in BOOLEAN
BY DEF IsDue

LEMMA SameRowSameTimer ==
  ASSUME NEW d \in Deliveries, status'[d] = status[d], now' = now,
         nextAttemptAt'[d] = nextAttemptAt[d], leaseExpiresAt'[d] = leaseExpiresAt[d]
  PROVE  IsDue(d)' = IsDue(d)
BY DEF IsDue, RetryIsDue, LeaseHasExpired

-----------------------------------------------------------------------------
(* A step of the queue that neither claims, ends nor re-times anything is  *)
(* no step of the abstract specification.                                  *)
OwnershipVars ==
    <<status, attemptCount, DueMap, OwnerMap, WorkingMap, endpoint, crashes,
      operatorOps>>

LEMMA StutterMaps == ASSUME UNCHANGED OwnershipVars PROVE UNCHANGED Ownership!vars
BY DEF OwnershipVars, Ownership!vars, DueMap, OwnerMap, WorkingMap, IsDue

LEMMA InitMaps == Init => Ownership!Init
<1> SUFFICES ASSUME Init PROVE Ownership!Init
  OBVIOUS
<1>1. \A w \in Workers, d \in Deliveries : ~Holds(w, d)
  BY DEF Init, Holds, NoTask
<1>2. DueMap = [d \in Deliveries |-> FALSE]
  BY DEF Init, DueMap, IsDue
<1>3. OwnerMap = [d \in Deliveries |-> None]
  BY <1>1 DEF OwnerMap, Owner
<1>4. WorkingMap = [w \in Workers |-> {}]
  BY <1>1 DEF WorkingMap
<1> QED
  BY <1>2, <1>3, <1>4 DEF Init, Ownership!Init, DueMap, OwnerMap, WorkingMap, IsDue

(* The clock only lets timers run out: those of the abstract Elapse.       *)
LEMMA TickMaps ==
  ASSUME IInv, IInv', Tick PROVE Ownership!Next \/ UNCHANGED Ownership!vars
<1>1. /\ now' = now + 1 /\ now \in Nat
      /\ UNCHANGED <<endpoint, status, attemptCount, nextAttemptAt,
                     leaseExpiresAt, claim, crashes, operatorOps>>
  BY DEF Tick, rowVars, boundVars, IInv, TypeOK
<1>2. \A d \in Deliveries : IsDue(d) => IsDue(d)'
  <2>1. None \notin Nat
    BY DEF QueueAssumption
  <2>2. \A d \in Deliveries : /\ nextAttemptAt[d] \in Nat \cup {None}
                               /\ leaseExpiresAt[d] \in Nat \cup {None}
    BY DEF IInv, TypeOK
  <2> QED
    BY <1>1, <2>1, <2>2 DEF IsDue, RetryIsDue, LeaseHasExpired
<1>3. \A d \in Deliveries : IsDue(d)' => status[d] \in {"pending", "delivering"}
  BY <1>1 DEF IsDue
<1>4. PICK S \in SUBSET Deliveries :
        \A d \in Deliveries : d \in S <=> ~IsDue(d) /\ IsDue(d)'
  <2> WITNESS {d \in Deliveries : ~IsDue(d) /\ IsDue(d)'} \in SUBSET Deliveries
  <2> QED
    OBVIOUS
<1>5. \A d \in Deliveries : IsDue(d)' = (IsDue(d) \/ d \in S)
  BY <1>2, <1>4, DueIsBoolean
<1>6. DueMap' = [d \in Deliveries |-> DueMap[d] \/ d \in S]
  BY <1>5 DEF DueMap
<1>7. OwnerMap' = OwnerMap
  BY <1>1, SameRowSameOwner DEF OwnerMap
<1>8. WorkingMap' = WorkingMap
  BY <1>1 DEF WorkingMap, Holds
<1>9. CASE S = {}
  <2>1. \A d \in Deliveries : IsDue(d)' = IsDue(d)
    BY <1>5, <1>9, DueIsBoolean
  <2>2. DueMap' = DueMap
    BY <2>1 DEF DueMap
  <2>3. QED
    BY <1>1, <1>7, <1>8, <2>2, StutterMaps DEF OwnershipVars
<1>10. CASE S # {}
  <2>1. \A d \in S : status[d] \in {"pending", "delivering"} /\ ~DueMap[d]
    BY <1>3, <1>4 DEF DueMap
  <2>2. Ownership!Elapse(S)
    BY <1>1, <1>6, <1>7, <1>8, <1>10, <2>1 DEF Ownership!Elapse, Ownership!Unsettled,
       DueMap, OwnerMap, WorkingMap, IsDue
  <2>3. QED
    BY <2>2 DEF Ownership!Next
<1> QED
  BY <1>9, <1>10

LEMMA EnqueueMaps ==
  ASSUME RInv, IInv', NEW d \in Deliveries, Enqueue(d) PROVE Ownership!Enqueue(d)
<1>1. /\ status[d] = "absent" /\ endpoint[EndpointOf[d]] = "enabled"
      /\ status' = [status EXCEPT ![d] = "pending"]
      /\ UNCHANGED <<now, endpoint, attemptCount, nextAttemptAt, leaseExpiresAt,
                     claim, crashes, operatorOps>>
  BY DEF Enqueue, boundVars
<1>2. status'[d] = "pending" /\ \A c \in Deliveries : c # d => status'[c] = status[c]
  BY <1>1 DEF RInv, IInv, TypeOK
<1>3. IsDue(d)' = TRUE
  BY <1>1, <1>2 DEF RInv, AbsentRowsAreDue, IsDue, RetryIsDue
<1>4. \A c \in Deliveries : c # d => IsDue(c)' = IsDue(c)
  BY <1>1, <1>2, SameRowSameTimer
<1>5. DueMap' = [DueMap EXCEPT ![d] = TRUE]
  BY <1>3, <1>4 DEF DueMap
<1>6. \A c \in Deliveries : Owner(c)' = Owner(c)
  <2>1. \A w \in Workers : ~OwnsIt(w, d) /\ ~OwnsIt(w, d)'
    BY <1>1, <1>2 DEF OwnsIt, OwnsLease
  <2>2. Owner(d)' = Owner(d)
    BY <2>1, OwnerStays DEF RInv
  <2>3. \A c \in Deliveries : c # d => Owner(c)' = Owner(c)
    BY <1>1, <1>2, SameRowSameOwner DEF RInv
  <2>4. QED
    BY <2>2, <2>3
<1>7. OwnerMap' = OwnerMap /\ WorkingMap' = WorkingMap
  BY <1>1, <1>6 DEF OwnerMap, WorkingMap, Holds
<1> QED
  BY <1>1, <1>5, <1>7 DEF Ownership!Enqueue, DueMap, OwnerMap, WorkingMap, IsDue

(* A claim makes the tick the owner of its batch and re-arms its timers;   *)
(* whoever owned one of these deliveries has lost it.                      *)
LEMMA ClaimMaps ==
  ASSUME IInv, IInv', NEW w \in Workers, Claim(w) PROVE Ownership!Claim(w)
<1>1. PICK batch \in SUBSET {d \in Deliveries : Claimable(d)} :
        /\ batch # {}
        /\ status' = [d \in Deliveries |->
                         IF d \in batch THEN "delivering" ELSE status[d]]
        /\ leaseExpiresAt' = [d \in Deliveries |->
                         IF d \in batch THEN NewLease ELSE leaseExpiresAt[d]]
        /\ claim' = [claim EXCEPT ![w] = [d \in Deliveries |->
                         IF d \in batch
                         THEN [phase |-> "queued", count |-> attemptCount[d],
                               lease |-> NewLease, at |-> 0]
                         ELSE NoTask]]
  BY DEF Claim
<1>2. /\ UNCHANGED <<now, endpoint, attemptCount, nextAttemptAt, crashes, operatorOps>>
      /\ \A d \in Deliveries : ~Holds(w, d)
  BY DEF Claim, boundVars
<1>3. NewLease \in Nat /\ NewLease > now /\ now \in Nat /\ NewLease # None
  BY DEF IInv, TypeOK, NewLease
<1> HIDE DEF NewLease
<1>4. /\ \A d \in batch : /\ claim'[w][d].phase = "queued"
                          /\ claim'[w][d].lease = NewLease
      /\ \A d \in Deliveries : d \notin batch => claim'[w][d].phase = "idle"
      /\ \A v \in Workers : v # w => claim'[v] = claim[v]
  BY <1>1 DEF IInv, TypeOK, NoTask
<1>5. \A v \in Workers, d \in Deliveries :
        /\ v # w => (Holds(v, d)' <=> Holds(v, d))
        /\ v = w => (Holds(v, d)' <=> d \in batch)
  BY <1>4 DEF Holds
<1>6. \A d \in Deliveries :
        /\ d \in batch => status'[d] = "delivering" /\ leaseExpiresAt'[d] = NewLease
        /\ d \notin batch => status'[d] = status[d] /\ leaseExpiresAt'[d] = leaseExpiresAt[d]
  BY <1>1
<1>7. \A d \in batch : d \in Deliveries /\ status[d] \in {"pending", "delivering"}
                       /\ endpoint[EndpointOf[d]] = "enabled" /\ IsDue(d)
  BY DEF Claimable, IsDue
<1>8. \A d \in Deliveries : IsDue(d)' = (IsDue(d) /\ d \notin batch)
  <2>1. ASSUME NEW d \in batch PROVE IsDue(d)' = FALSE
    BY <1>2, <1>3, <1>6, <1>7 DEF IsDue, LeaseHasExpired
  <2>2. \A d \in Deliveries : d \notin batch => IsDue(d)' = IsDue(d)
    BY <1>2, <1>6, SameRowSameTimer
  <2>3. QED
    BY <1>7, <2>1, <2>2, DueIsBoolean
<1>9. DueMap' = [d \in Deliveries |-> DueMap[d] /\ d \notin batch]
  BY <1>8 DEF DueMap
<1>10. \A d \in Deliveries : Owner(d)' = IF d \in batch THEN w ELSE Owner(d)
  <2>1. ASSUME NEW d \in batch PROVE Owner(d)' = w
    <3>1. OwnsIt(w, d)'
      BY <1>4, <1>5, <1>6, <1>7 DEF OwnsIt, OwnsLease
    <3>2. QED
      BY <1>7, <3>1, OwnerBecomes
  <2>2. ASSUME NEW d \in Deliveries, d \notin batch PROVE Owner(d)' = Owner(d)
    <3>1. ~OwnsIt(w, d) /\ ~OwnsIt(w, d)'
      BY <1>2, <1>5, <2>2 DEF OwnsIt
    <3>2. \A v \in Workers : v # w => claim'[v][d] = claim[v][d]
      BY <1>4
    <3>3. QED
      BY <1>6, <2>2, <3>1, <3>2, SameRowSameOwner
  <2>3. QED
    BY <1>7, <2>1, <2>2
<1>11. OwnerMap' = [d \in Deliveries |-> IF d \in batch THEN w ELSE OwnerMap[d]]
  BY <1>10 DEF OwnerMap
<1>12. /\ WorkingMap[w] = {}
       /\ WorkingMap' = [WorkingMap EXCEPT ![w] = batch]
  <2>1. \A v \in Workers : {d \in Deliveries : Holds(v, d)'} =
                           IF v = w THEN batch ELSE {d \in Deliveries : Holds(v, d)}
    BY <1>5, <1>7
  <2>2. QED
    BY <1>2, <2>1 DEF WorkingMap
<1>13. \A d \in batch : Ownership!Claimable(d)
  BY <1>7 DEF Ownership!Claimable, Ownership!Unsettled, IsDue
<1>14. batch \in SUBSET {d \in Deliveries : Ownership!Claimable(d)}
  BY <1>7, <1>13
<1> QED
  BY <1>1, <1>2, <1>9, <1>11, <1>12, <1>14 DEF Ownership!Claim, DueMap, OwnerMap,
     WorkingMap, IsDue

-----------------------------------------------------------------------------
(* A task that ends leaves the set of deliveries its tick works on.        *)
LEMMA EndedTaskIsDone ==
  ASSUME TypeOK, NEW w \in Workers, NEW d \in Deliveries, Holds(w, d), EndTask(w, d)
  PROVE  /\ d \in WorkingMap[w]
         /\ WorkingMap' = [WorkingMap EXCEPT ![w] = @ \ {d}]
<1>1. claim' = [claim EXCEPT ![w][d] = NoTask]
  BY DEF EndTask
<1>2. \A v \in Workers, c \in Deliveries :
        Holds(v, c)' <=> Holds(v, c) /\ (v # w \/ c # d)
  BY <1>1 DEF TypeOK, Holds, NoTask
<1>3. \A v \in Workers :
        {c \in Deliveries : Holds(v, c)'} =
           IF v = w THEN {c \in Deliveries : Holds(v, c)} \ {d}
                    ELSE {c \in Deliveries : Holds(v, c)}
  BY <1>2
<1>4. WorkingMap' = [v \in Workers |-> IF v = w THEN {c \in Deliveries : Holds(v, c)} \ {d}
                                      ELSE {c \in Deliveries : Holds(v, c)}]
  BY <1>3 DEF WorkingMap
<1>5. \A v \in Workers : WorkingMap[v] = {c \in Deliveries : Holds(v, c)}
  BY DEF WorkingMap
<1>6. WorkingMap' = [WorkingMap EXCEPT ![w] = WorkingMap[w] \ {d}]
  BY <1>4, <1>5 DEF WorkingMap
<1> QED
  BY <1>5, <1>6

(* What every outcome that is recorded does, in the variables of the       *)
(* abstract specification.                                                 *)
LEMMA OutcomeMaps ==
  ASSUME IInv, IInv', NEW w \in Workers, NEW d \in Deliveries, Holds(w, d),
         OwnsLease(w, d), EndTask(w, d), UNCHANGED now,
         NEW s \in {"pending", "succeeded", "dead_letter"},
         NEW n \in Nat \cup {None},
         status' = [status EXCEPT ![d] = s],
         attemptCount' = [attemptCount EXCEPT ![d] = AttemptNumber(w, d)],
         nextAttemptAt' = [nextAttemptAt EXCEPT ![d] = n],
         leaseExpiresAt' = [leaseExpiresAt EXCEPT ![d] = None],
         s = "pending" => n \in Nat /\ n > now
  PROVE  /\ d \in WorkingMap[w] /\ OwnerMap[d] = w
         /\ AttemptNumber(w, d) = attemptCount[d] + 1
         /\ attemptCount' = [attemptCount EXCEPT ![d] = @ + 1]
         /\ DueMap' = [DueMap EXCEPT ![d] = FALSE]
         /\ OwnerMap' = [OwnerMap EXCEPT ![d] = None]
         /\ WorkingMap' = [WorkingMap EXCEPT ![w] = @ \ {d}]
<1>1. /\ status'[d] = s /\ nextAttemptAt'[d] = n /\ leaseExpiresAt'[d] = None
      /\ \A c \in Deliveries : c # d =>
            /\ status'[c] = status[c]
            /\ nextAttemptAt'[c] = nextAttemptAt[c]
            /\ leaseExpiresAt'[c] = leaseExpiresAt[c]
  BY DEF IInv, TypeOK
<1>2. d \in WorkingMap[w] /\ WorkingMap' = [WorkingMap EXCEPT ![w] = @ \ {d}]
  BY EndedTaskIsDone DEF IInv
<1>3. AttemptNumber(w, d) = attemptCount[d] + 1
  BY DEF AttemptNumber, IInv, OwnerSnapshotIsFresh
<1>4. attemptCount' = [attemptCount EXCEPT ![d] = @ + 1]
  BY <1>3
<1>5. OwnerMap[d] = w
  BY OwnerIs DEF IInv, OwnersAreUnique, OwnerMap, OwnsIt
<1>6. Owner(d)' = None
  <2>1. \A v \in Workers : ~OwnsIt(v, d)'
    BY <1>1 DEF OwnsIt, OwnsLease
  <2>2. QED
    BY <2>1, OwnerIsLost
<1>7. \A c \in Deliveries : c # d => Owner(c)' = Owner(c)
  <2>1. \A v \in Workers, c \in Deliveries : c # d => claim'[v][c] = claim[v][c]
    BY DEF EndTask, IInv, TypeOK
  <2>2. QED
    BY <1>1, <2>1, SameRowSameOwner
<1>8. OwnerMap' = [OwnerMap EXCEPT ![d] = None]
  BY <1>6, <1>7 DEF OwnerMap
<1>9. IsDue(d)' = FALSE
  <2>1. status'[d] # "delivering"
    BY <1>1
  <2>2. status'[d] = "pending" => ~RetryIsDue(d)'
    <3>1. now \in Nat /\ now' = now
      BY DEF IInv, TypeOK
    <3>2. status'[d] = "pending" => nextAttemptAt'[d] \in Nat /\ nextAttemptAt'[d] > now
      BY <1>1
    <3>3. QED
      BY <3>1, <3>2 DEF RetryIsDue
  <2>3. QED
    BY <2>1, <2>2 DEF IsDue
<1>10. \A c \in Deliveries : c # d => IsDue(c)' = IsDue(c)
  BY <1>1, SameRowSameTimer
<1>11. DueMap' = [DueMap EXCEPT ![d] = FALSE]
  BY <1>9, <1>10 DEF DueMap
<1> QED
  BY <1>2, <1>3, <1>4, <1>5, <1>8, <1>11

LEMMA RecordSuccessMaps ==
  ASSUME IInv, IInv', NEW w \in Workers, NEW d \in Deliveries, RecordSuccess(w, d)
  PROVE  Ownership!Succeed(w, d)
<1>1. /\ Holds(w, d) /\ OwnsLease(w, d) /\ EndTask(w, d)
      /\ status' = [status EXCEPT ![d] = "succeeded"]
      /\ attemptCount' = [attemptCount EXCEPT ![d] = AttemptNumber(w, d)]
      /\ nextAttemptAt' = [nextAttemptAt EXCEPT ![d] = None]
      /\ leaseExpiresAt' = [leaseExpiresAt EXCEPT ![d] = None]
      /\ UNCHANGED <<now, endpoint, crashes, operatorOps>>
  BY DEF RecordSuccess, Holds, boundVars
<1>2. /\ d \in WorkingMap[w] /\ OwnerMap[d] = w
      /\ attemptCount' = [attemptCount EXCEPT ![d] = @ + 1]
      /\ DueMap' = [DueMap EXCEPT ![d] = FALSE]
      /\ OwnerMap' = [OwnerMap EXCEPT ![d] = None]
      /\ WorkingMap' = [WorkingMap EXCEPT ![w] = @ \ {d}]
  BY <1>1, OutcomeMaps
<1> QED
  BY <1>1, <1>2 DEF Ownership!Succeed, DueMap, OwnerMap, WorkingMap, IsDue

LEMMA RecordFailureMaps ==
  ASSUME IInv, IInv', NEW w \in Workers, NEW d \in Deliveries, RecordFailure(w, d)
  PROVE  Ownership!FailAndReschedule(w, d)
<1> DEFINE n == now + CalculateRetryBackoffMs(AttemptNumber(w, d))
<1>1. /\ Holds(w, d) /\ OwnsLease(w, d) /\ EndTask(w, d)
      /\ ~BudgetIsUsedUp(w, d)
      /\ status' = [status EXCEPT ![d] = "pending"]
      /\ attemptCount' = [attemptCount EXCEPT ![d] = AttemptNumber(w, d)]
      /\ nextAttemptAt' = [nextAttemptAt EXCEPT ![d] = n]
      /\ leaseExpiresAt' = [leaseExpiresAt EXCEPT ![d] = None]
      /\ UNCHANGED <<now, endpoint, crashes, operatorOps>>
  BY DEF RecordFailure, Requesting, Holds, boundVars
<1>2. n \in Nat /\ n > now
  <2>1. CalculateRetryBackoffMs(AttemptNumber(w, d)) \in Nat \ {0}
    BY <1>1, AttemptIsInBudget
  <2>2. now \in Nat
    BY DEF IInv, TypeOK
  <2>3. QED
    BY <2>1, <2>2
<1> HIDE DEF n
<1>3. /\ d \in WorkingMap[w] /\ OwnerMap[d] = w
      /\ AttemptNumber(w, d) = attemptCount[d] + 1
      /\ attemptCount' = [attemptCount EXCEPT ![d] = @ + 1]
      /\ DueMap' = [DueMap EXCEPT ![d] = FALSE]
      /\ OwnerMap' = [OwnerMap EXCEPT ![d] = None]
      /\ WorkingMap' = [WorkingMap EXCEPT ![w] = @ \ {d}]
  BY <1>1, <1>2, OutcomeMaps
<1>4. ~Ownership!BudgetIsUsedUp(d)
  BY <1>1, <1>3 DEF BudgetIsUsedUp, Ownership!BudgetIsUsedUp
<1> QED
  BY <1>1, <1>3, <1>4 DEF Ownership!FailAndReschedule, DueMap, OwnerMap, WorkingMap, IsDue

LEMMA RecordDeadLetterMaps ==
  ASSUME IInv, IInv', NEW w \in Workers, NEW d \in Deliveries, RecordDeadLetter(w, d)
  PROVE  Ownership!DeadLetter(w, d)
<1>1. /\ Holds(w, d) /\ OwnsLease(w, d) /\ EndTask(w, d)
      /\ BudgetIsUsedUp(w, d)
      /\ status' = [status EXCEPT ![d] = "dead_letter"]
      /\ attemptCount' = [attemptCount EXCEPT ![d] = AttemptNumber(w, d)]
      /\ nextAttemptAt' = [nextAttemptAt EXCEPT ![d] = None]
      /\ leaseExpiresAt' = [leaseExpiresAt EXCEPT ![d] = None]
      /\ UNCHANGED <<now, crashes, operatorOps>>
  BY DEF RecordDeadLetter, Requesting, Holds, boundVars
<1>2. /\ d \in WorkingMap[w] /\ OwnerMap[d] = w
      /\ AttemptNumber(w, d) = attemptCount[d] + 1
      /\ attemptCount' = [attemptCount EXCEPT ![d] = @ + 1]
      /\ DueMap' = [DueMap EXCEPT ![d] = FALSE]
      /\ OwnerMap' = [OwnerMap EXCEPT ![d] = None]
      /\ WorkingMap' = [WorkingMap EXCEPT ![w] = @ \ {d}]
  BY <1>1, OutcomeMaps
<1>3. Ownership!BudgetIsUsedUp(d)
  BY <1>1, <1>2 DEF BudgetIsUsedUp, Ownership!BudgetIsUsedUp
<1>4. \/ UNCHANGED endpoint
      \/ /\ AutoDisableAfter # 0
         /\ endpoint[EndpointOf[d]] = "enabled"
         /\ endpoint' = [endpoint EXCEPT ![EndpointOf[d]] = "disabled"]
  BY DEF RecordDeadLetter, FailureWindowCrossed
<1> QED
  BY <1>1, <1>2, <1>3, <1>4 DEF Ownership!DeadLetter, DueMap, OwnerMap, WorkingMap, IsDue

LEMMA RecordStaleMaps ==
  ASSUME IInv, IInv', NEW w \in Workers, NEW d \in Deliveries, RecordStale(w, d)
  PROVE  Ownership!DropStale(w, d)
<1>1. /\ Holds(w, d) /\ ~OwnsLease(w, d) /\ EndTask(w, d)
      /\ UNCHANGED <<now, endpoint, status, attemptCount, nextAttemptAt,
                     leaseExpiresAt, crashes, operatorOps>>
  BY DEF RecordStale, Requesting, Holds, rowVars, boundVars
<1>2. d \in WorkingMap[w] /\ WorkingMap' = [WorkingMap EXCEPT ![w] = @ \ {d}]
  BY <1>1, EndedTaskIsDone DEF IInv
<1>3. OwnerMap[d] # w
  BY <1>1, OwnerIs DEF IInv, OwnersAreUnique, OwnerMap, OwnsIt
<1>4. \A c \in Deliveries : Owner(c)' = Owner(c)
  <2>1. claim' = [claim EXCEPT ![w][d] = NoTask]
    BY <1>1 DEF EndTask
  <2>2. \A v \in Workers, c \in Deliveries :
          v # w \/ c # d => claim'[v][c] = claim[v][c]
    BY <2>1 DEF IInv, TypeOK
  <2>3. ~OwnsIt(w, d) /\ ~OwnsIt(w, d)'
    BY <1>1, EndTaskEnds DEF OwnsIt, IInv
  <2>4. QED
    BY <1>1, <2>2, <2>3, SameRowSameOwner
<1>5. OwnerMap' = OwnerMap
  BY <1>4 DEF OwnerMap
<1>6. DueMap' = DueMap
  BY <1>1, SameRowSameTimer DEF DueMap
<1> QED
  BY <1>1, <1>2, <1>3, <1>5, <1>6 DEF Ownership!DropStale, DueMap, OwnerMap,
     WorkingMap, IsDue

-----------------------------------------------------------------------------
LEMMA CrashMaps == ASSUME IInv, IInv', Crash PROVE Ownership!Crash
<1>1. /\ crashes < MaxCrashes /\ crashes' = crashes + 1
      /\ \E w \in Workers, d \in Deliveries : Holds(w, d)
      /\ \A w \in Workers, d \in Deliveries : ~Holds(w, d)'
      /\ UNCHANGED <<now, endpoint, status, attemptCount, nextAttemptAt,
                     leaseExpiresAt, operatorOps>>
  BY DEF Crash, Holds, NoTask, rowVars
<1>2. \E w \in Workers : WorkingMap[w] # {}
  BY <1>1 DEF WorkingMap
<1>3. WorkingMap' = [w \in Workers |-> {}]
  BY <1>1 DEF WorkingMap
<1>4. \A d \in Deliveries : Owner(d)' = None
  BY <1>1, OwnerIsLost DEF OwnsIt
<1>5. OwnerMap' = [d \in Deliveries |-> None]
  BY <1>4 DEF OwnerMap
<1>6. DueMap' = DueMap
  BY <1>1, SameRowSameTimer DEF DueMap
<1> QED
  BY <1>1, <1>2, <1>3, <1>5, <1>6 DEF Ownership!Crash, DueMap, OwnerMap, WorkingMap, IsDue

(* A dead letter has no owner, and a retry makes it due at once.           *)
LEMMA RetryMessageMaps ==
  ASSUME IInv, IInv', NEW m \in Messages, RetryMessage(m) PROVE Ownership!RetryMessage(m)
<1> DEFINE dead == {d \in Deliveries : MessageOf[d] = m /\ status[d] = "dead_letter"}
<1>1. /\ OperatorRequest /\ dead # {}
      /\ status' = [d \in Deliveries |-> IF d \in dead THEN "pending" ELSE status[d]]
      /\ attemptCount' = [d \in Deliveries |-> IF d \in dead THEN 0 ELSE attemptCount[d]]
      /\ UNCHANGED <<now, endpoint, claim, crashes>>
      /\ \A d \in Deliveries :
            /\ d \in dead => nextAttemptAt'[d] = None
            /\ d \notin dead => nextAttemptAt'[d] = nextAttemptAt[d]
                                /\ leaseExpiresAt'[d] = leaseExpiresAt[d]
  BY DEF RetryMessage, Retryable
<1>2. \A d \in dead : status[d] = "dead_letter" /\ status'[d] = "pending"
  BY <1>1
<1>3. \A d \in Deliveries : d \notin dead => status'[d] = status[d]
  BY <1>1
<1>4. WorkingMap' = WorkingMap
  BY <1>1 DEF WorkingMap, Holds
<1>5. \A d \in Deliveries : Owner(d)' = Owner(d)
  <2>1. ASSUME NEW d \in dead PROVE Owner(d)' = Owner(d)
    <3>1. \A w \in Workers : ~OwnsIt(w, d) /\ ~OwnsIt(w, d)'
      BY <1>2 DEF OwnsIt, OwnsLease
    <3>2. QED
      BY <3>1, OwnerStays
  <2>2. \A d \in Deliveries : d \notin dead => Owner(d)' = Owner(d)
    BY <1>1, <1>3, SameRowSameOwner
  <2>3. QED
    BY <2>1, <2>2
<1>6. \A d \in Deliveries : IsDue(d)' = (IsDue(d) \/ d \in dead)
  <2>1. \A d \in dead : IsDue(d)' = TRUE
    BY <1>1, <1>2 DEF IsDue, RetryIsDue
  <2>2. \A d \in Deliveries : d \notin dead => IsDue(d)' = IsDue(d)
    BY <1>1, <1>3, SameRowSameTimer
  <2> HIDE DEF dead
  <2>3. QED
    BY <2>1, <2>2, DueIsBoolean
<1>7. OwnerMap' = OwnerMap
  BY <1>5 DEF OwnerMap
<1>8. DueMap' = [d \in Deliveries |-> DueMap[d] \/ d \in dead]
  BY <1>6 DEF DueMap
<1>9. Ownership!OperatorRequest
  BY <1>1 DEF OperatorRequest, Ownership!OperatorRequest
<1> QED
  BY <1>1, <1>4, <1>7, <1>8, <1>9 DEF Ownership!RetryMessage, DueMap, OwnerMap,
     WorkingMap, IsDue

LEMMA SetEnabledMaps ==
  ASSUME IInv, IInv', NEW e \in Endpoints, NEW s \in {"enabled", "disabled"},
         SetEnabled(e, s)
  PROVE  Ownership!SetEnabled(e, s)
<1>1. /\ OperatorRequest /\ endpoint[e] \in {"enabled", "disabled"} \ {s}
      /\ endpoint' = [endpoint EXCEPT ![e] = s]
      /\ UNCHANGED <<now, status, attemptCount, nextAttemptAt, leaseExpiresAt,
                     claim, crashes>>
  BY DEF SetEnabled, rowVars
<1>2. OwnerMap' = OwnerMap
  BY <1>1, SameRowSameOwner DEF OwnerMap
<1>3. DueMap' = DueMap
  BY <1>1, SameRowSameTimer DEF DueMap
<1>4. WorkingMap' = WorkingMap
  BY <1>1 DEF WorkingMap, Holds
<1>5. Ownership!OperatorRequest
  BY <1>1 DEF OperatorRequest, Ownership!OperatorRequest
<1> QED
  BY <1>1, <1>2, <1>3, <1>4, <1>5 DEF Ownership!SetEnabled, DueMap, OwnerMap,
     WorkingMap, IsDue

(* The rows that go with their endpoint have no owner and no timer; a tick *)
(* that works on one of them goes on.                                      *)
LEMMA DeleteEndpointMaps ==
  ASSUME IInv, IInv', NEW e \in Endpoints, DeleteEndpoint(e)
  PROVE  Ownership!DeleteEndpoint(e)
<1> DEFINE gone == {d \in Deliveries : EndpointOf[d] = e /\ status[d] # "absent"}
<1>1. /\ OperatorRequest /\ endpoint[e] # "deleted"
      /\ endpoint' = [endpoint EXCEPT ![e] = "deleted"]
      /\ status' = [d \in Deliveries |-> IF d \in gone THEN "deleted" ELSE status[d]]
      /\ attemptCount' = [d \in Deliveries |-> IF d \in gone THEN 0 ELSE attemptCount[d]]
      /\ UNCHANGED <<now, claim, crashes>>
      /\ \A d \in Deliveries : d \notin gone =>
            /\ nextAttemptAt'[d] = nextAttemptAt[d]
            /\ leaseExpiresAt'[d] = leaseExpiresAt[d]
  BY DEF DeleteEndpoint
<1> HIDE DEF gone
<1>2. \A d \in Deliveries : status'[d] = IF d \in gone THEN "deleted" ELSE status[d]
  BY <1>1
<1>3. WorkingMap' = WorkingMap
  BY <1>1 DEF WorkingMap, Holds
<1>4. \A d \in Deliveries : Owner(d)' = IF d \in gone THEN None ELSE Owner(d)
  <2>1. ASSUME NEW d \in Deliveries, d \in gone PROVE Owner(d)' = None
    <3>1. \A w \in Workers : ~OwnsIt(w, d)'
      BY <1>2, <2>1 DEF OwnsIt, OwnsLease
    <3>2. QED
      BY <3>1, OwnerIsLost
  <2>2. \A d \in Deliveries : d \notin gone => Owner(d)' = Owner(d)
    BY <1>1, <1>2, SameRowSameOwner
  <2>3. QED
    BY <2>1, <2>2
<1>5. \A d \in Deliveries : IsDue(d)' = (IsDue(d) /\ d \notin gone)
  <2>1. \A d \in Deliveries : d \in gone => IsDue(d)' = FALSE
    BY <1>2 DEF IsDue
  <2>2. \A d \in Deliveries : d \notin gone => IsDue(d)' = IsDue(d)
    BY <1>1, <1>2, SameRowSameTimer
  <2>3. QED
    BY <2>1, <2>2, DueIsBoolean
<1>6. OwnerMap' = [d \in Deliveries |-> IF d \in gone THEN None ELSE OwnerMap[d]]
  BY <1>4 DEF OwnerMap
<1>7. DueMap' = [d \in Deliveries |-> DueMap[d] /\ d \notin gone]
  BY <1>5 DEF DueMap
<1>8. Ownership!OperatorRequest
  BY <1>1 DEF OperatorRequest, Ownership!OperatorRequest
<1> QED
  BY <1>1, <1>3, <1>6, <1>7, <1>8 DEF Ownership!DeleteEndpoint, DueMap, OwnerMap,
     WorkingMap, IsDue, gone

(* A request that goes out or is answered moves its task on. *)
LEMMA RequestsStutter ==
  ASSUME IInv, IInv', NEW w \in Workers, NEW d \in Deliveries,
         Send(w, d) \/ ReceiverAccepts(w, d)
  PROVE  UNCHANGED Ownership!vars
<1>1. PICK t \in Task : /\ t.phase # "idle" /\ t.lease = claim[w][d].lease
                        /\ claim' = [claim EXCEPT ![w][d] = t]
  <2>1. claim[w][d] \in Task /\ now \in Nat
    BY DEF IInv, TypeOK
  <2>2. CASE Send(w, d)
    <3> DEFINE t == [claim[w][d] EXCEPT !.phase = "sending", !.at = now]
    <3>1. t \in Task /\ t.phase # "idle" /\ t.lease = claim[w][d].lease
      BY <2>1 DEF Task
    <3>2. claim' = [claim EXCEPT ![w][d] = t]
      BY <2>2 DEF Send
    <3> HIDE DEF t
    <3>3. QED
      BY <3>1, <3>2
  <2>3. CASE ReceiverAccepts(w, d)
    <3> DEFINE t == [claim[w][d] EXCEPT !.phase = "accepted"]
    <3>1. t \in Task /\ t.phase # "idle" /\ t.lease = claim[w][d].lease
      BY <2>1 DEF Task
    <3>2. claim' = [claim EXCEPT ![w][d] = t]
      BY <2>3 DEF ReceiverAccepts
    <3> HIDE DEF t
    <3>3. QED
      BY <3>1, <3>2
  <2>4. QED
    BY <2>2, <2>3
<1>2. UNCHANGED <<now, endpoint, status, attemptCount, nextAttemptAt,
                  leaseExpiresAt, crashes, operatorOps>>
  BY DEF Send, ReceiverAccepts, rowVars, boundVars
<1>3. Holds(w, d)
  BY DEF Send, ReceiverAccepts, Holds
<1>4. \A v \in Workers, c \in Deliveries :
        /\ Holds(v, c)' <=> Holds(v, c)
        /\ claim'[v][c].lease = claim[v][c].lease
  BY <1>1, <1>3 DEF Holds, IInv, TypeOK
<1>5. \A v \in Workers, c \in Deliveries : OwnsIt(v, c)' <=> OwnsIt(v, c)
  BY <1>2, <1>4 DEF OwnsIt, OwnsLease
<1>6. OwnerMap' = OwnerMap
  BY <1>5, OwnerStays DEF OwnerMap
<1>7. DueMap' = DueMap
  BY <1>2, SameRowSameTimer DEF DueMap
<1>8. WorkingMap' = WorkingMap
  BY <1>4 DEF WorkingMap
<1> QED
  BY <1>2, <1>6, <1>7, <1>8, StutterMaps DEF OwnershipVars

-----------------------------------------------------------------------------
LEMMA NextMaps == RInv /\ RInv' /\ [Next]_vars => [Ownership!Next]_Ownership!vars
<1> SUFFICES ASSUME RInv, RInv', [Next]_vars
             PROVE  Ownership!Next \/ UNCHANGED Ownership!vars
  OBVIOUS
<1>0. IInv /\ IInv'
  BY DEF RInv
<1>1. CASE Tick
  BY <1>0, <1>1, TickMaps
<1>2. CASE \E d \in Deliveries : Enqueue(d)
  BY <1>0, <1>2, EnqueueMaps DEF Ownership!Next
<1>3. CASE \E w \in Workers : Claim(w)
  BY <1>0, <1>3, ClaimMaps DEF Ownership!Next
<1>4. CASE \E w \in Workers, d \in Deliveries : Record(w, d)
  <2>1. PICK w \in Workers, d \in Deliveries : Record(w, d)
    BY <1>4
  <2>2. Ownership!Finish(w, d)
    BY <1>0, <2>1, RecordSuccessMaps, RecordFailureMaps, RecordDeadLetterMaps,
       RecordStaleMaps DEF Record, Ownership!Finish
  <2>3. QED
    BY <2>2 DEF Ownership!Next
<1>5. CASE Crash
  BY <1>0, <1>5, CrashMaps DEF Ownership!Next
<1>6. CASE \E m \in Messages : RetryMessage(m)
  BY <1>0, <1>6, RetryMessageMaps DEF Ownership!Next
<1>7. CASE \E e \in Endpoints, s \in {"enabled", "disabled"} : SetEnabled(e, s)
  BY <1>0, <1>7, SetEnabledMaps DEF Ownership!Next
<1>8. CASE \E e \in Endpoints : DeleteEndpoint(e)
  BY <1>0, <1>8, DeleteEndpointMaps DEF Ownership!Next
(* A request that goes out or is answered changes no one's rights.         *)
<1>9. CASE \/ \E w \in Workers, d \in Deliveries : Send(w, d)
           \/ \E w \in Workers, d \in Deliveries : ReceiverAccepts(w, d)
  BY <1>0, <1>9, RequestsStutter
<1>10. CASE UNCHANGED vars
  <2>1. UNCHANGED <<now, endpoint, status, attemptCount, nextAttemptAt,
                    leaseExpiresAt, claim, crashes, operatorOps>>
    BY <1>10 DEF vars, rowVars, boundVars
  <2>2. OwnerMap' = OwnerMap
    BY <1>0, <2>1, SameRowSameOwner DEF OwnerMap
  <2>3. DueMap' = DueMap /\ WorkingMap' = WorkingMap
    BY <2>1, SameRowSameTimer DEF DueMap, WorkingMap, Holds
  <2>4. QED
    BY <2>1, <2>2, <2>3, StutterMaps DEF OwnershipVars
<1> QED
  BY <1>1, <1>2, <1>3, <1>4, <1>5, <1>6, <1>7, <1>8, <1>9, <1>10 DEF Next

(* The queue of worker.ts gives every delivery at most one owner, takes it *)
(* away only when a lease runs out, the process crashes or the row goes,   *)
(* and lets only the owner record: every step of DeliveryQueue is a step   *)
(* of DeliveryOwnership or leaves its variables alone.                     *)
THEOREM QueueImplementsOwnership == Spec => ImplementsOwnership
<1>1. Init => Ownership!Init
  BY InitMaps
<1>2. RInv /\ RInv' /\ [Next]_vars => [Ownership!Next]_Ownership!vars
  BY NextMaps
<1> QED
  BY <1>1, <1>2, RefinementInvariant, PTL DEF Spec, ImplementsOwnership, Ownership!Spec

-----------------------------------------------------------------------------
(* The statistics *)

(* Where attempt i of delivery d stands.  Its number tells where its epoch *)
(* began: that is the epoch that goes on, or one that used up its budget   *)
(* and ended with a dead letter.  A success is the last of all.            *)
EpochOf(d, i) == i - attempts[d][i].number

AttemptIsPlaced(d, i) ==
    /\ attempts[d][i].number \in 1 .. AttemptBudget
    /\ attempts[d][i].outcome = "failed" => attempts[d][i].number < AttemptBudget
    /\ attempts[d][i].outcome = "succeeded" =>
          i = Len(attempts[d]) /\ status[d] = "succeeded"
    /\ \/ EpochOf(d, i) = epochStart[d]
       \/ /\ EpochOf(d, i) + AttemptBudget \in 1 .. epochStart[d]
          /\ attempts[d][EpochOf(d, i) + AttemptBudget].outcome = "dead_letter"

LogIsPlaced ==
    \A d \in Deliveries :
        /\ status[d] = "deleted" => attempts[d] = << >>
        /\ \A i \in 1 .. Len(attempts[d]) : AttemptIsPlaced(d, i)

(* What all conjuncts of LogIsPlaced say of one delivery.                  *)
RowIsPlaced(d) ==
    /\ status[d] = "deleted" => attempts[d] = << >>
    /\ \A i \in 1 .. Len(attempts[d]) : AttemptIsPlaced(d, i)

(* A row whose log is left alone, and which no success left.               *)
LEMMA PlacesStay ==
  ASSUME NEW d \in Deliveries, RowIsPlaced(d),
         attempts'[d] = attempts[d], epochStart'[d] = epochStart[d],
         status[d] = "succeeded" => status'[d] = "succeeded",
         status'[d] = "deleted" => status[d] = "deleted"
  PROVE  RowIsPlaced(d)'
BY DEF RowIsPlaced, AttemptIsPlaced, EpochOf

LEMMA EmptyLogIsPlaced ==
  ASSUME NEW d \in Deliveries, attempts'[d] = << >> PROVE RowIsPlaced(d)'
BY DEF RowIsPlaced

(* An outcome is logged as the last one of the epoch that goes on.         *)
LEMMA RecordIsPlaced ==
  ASSUME NEW w \in Workers, NEW d \in Deliveries, IInv, EpochIsLogged(d), RowIsPlaced(d),
         NEW o \in {"succeeded", "failed", "dead_letter"},
         Holds(w, d), OwnsLease(w, d), InsertDeliveryAttempt(w, d, o),
         epochStart'[d] = epochStart[d],
         status'[d] = IF o = "failed" THEN "pending" ELSE o,
         o = "failed" => ~BudgetIsUsedUp(w, d)
  PROVE  RowIsPlaced(d)'
<1> DEFINE row == [number |-> AttemptNumber(w, d), outcome |-> o,
                   at |-> claim[w][d].at]
<1>0. PICK n : n = Len(attempts[d])
  OBVIOUS
<1>1. /\ claim[w][d].count = attemptCount[d]
      /\ attemptCount[d] < AttemptBudget
      /\ attemptCount[d] \in Nat
      /\ epochStart[d] \in Nat
      /\ attempts[d] \in Seq(AttemptRow)
      /\ status[d] = "delivering"
  BY DEF IInv, TypeOK, OwnerSnapshotIsFresh, OwnsLease
<1>2. AttemptNumber(w, d) = attemptCount[d] + 1 /\ n = epochStart[d] + attemptCount[d]
  BY <1>0, <1>1 DEF AttemptNumber, EpochIsLogged
<1>3. row.number = attemptCount[d] + 1 /\ row.outcome = o /\ row \in AttemptRow
  BY <1>2, AttemptIsInBudget
<1>4. attempts'[d] = Append(attempts[d], row)
  BY DEF InsertDeliveryAttempt, LogAttempt, IInv, TypeOK
<1> HIDE DEF row
<1>5. /\ n \in Nat /\ Len(attempts'[d]) = n + 1 /\ attempts'[d][n + 1] = row
      /\ \A i \in 1 .. n : attempts'[d][i] = attempts[d][i]
  BY <1>0, <1>1, <1>3, <1>4
<1>6. \A i \in 1 .. n : AttemptIsPlaced(d, i)
  BY <1>0 DEF RowIsPlaced
<1>7. ASSUME NEW i \in 1 .. n PROVE AttemptIsPlaced(d, i)'
  <2>1. attempts[d][i].outcome # "succeeded"
    BY <1>1, <1>6 DEF AttemptIsPlaced
  <2>2. attempts'[d][i] = attempts[d][i] /\ EpochOf(d, i)' = EpochOf(d, i)
    BY <1>5 DEF EpochOf
  <2>3. CASE EpochOf(d, i) = epochStart[d]
    BY <1>6, <2>1, <2>2, <2>3 DEF AttemptIsPlaced
  <2>4. CASE /\ EpochOf(d, i) + AttemptBudget \in 1 .. epochStart[d]
             /\ attempts[d][EpochOf(d, i) + AttemptBudget].outcome = "dead_letter"
    <3>1. EpochOf(d, i) + AttemptBudget \in 1 .. n
      BY <1>1, <1>2, <2>4
    <3>2. attempts'[d][EpochOf(d, i) + AttemptBudget] = attempts[d][EpochOf(d, i) + AttemptBudget]
      BY <1>5, <3>1
    <3> QED
      BY <1>6, <2>1, <2>2, <2>4, <3>2 DEF AttemptIsPlaced
  <2> QED
    BY <1>6, <2>3, <2>4 DEF AttemptIsPlaced
<1>8. AttemptIsPlaced(d, n + 1)'
  <2>1. o = "failed" => attemptCount[d] + 1 < AttemptBudget
    BY <1>1, <1>2 DEF BudgetIsUsedUp
  <2>2. EpochOf(d, n + 1)' = epochStart'[d]
    BY <1>1, <1>2, <1>3, <1>5 DEF EpochOf
  <2>3. /\ attempts'[d][n + 1].number = attemptCount[d] + 1
        /\ attempts'[d][n + 1].outcome = o
        /\ attemptCount[d] + 1 \in 1 .. AttemptBudget
    <3>1. attempts'[d][n + 1] = row
      BY <1>5
    <3>2. AttemptBudget \in Nat /\ attemptCount[d] + 1 \in 1 .. AttemptBudget
      BY <1>1
    <3> QED
      BY <1>3, <3>1, <3>2
  <2>4. o = "succeeded" => n + 1 = Len(attempts'[d]) /\ status'[d] = "succeeded"
    BY <1>5
  <2> QED
    BY <2>1, <2>2, <2>3, <2>4 DEF AttemptIsPlaced
<1>9. \A i \in 1 .. (n + 1) : i \in 1 .. n \/ i = n + 1
  BY <1>5
<1> QED
  BY <1>5, <1>7, <1>8, <1>9 DEF RowIsPlaced

(* A retry closes an epoch that used up its budget.                        *)
LEMMA RetryIsPlaced ==
  ASSUME NEW d \in Deliveries, IInv, EpochIsLogged(d), RowIsPlaced(d),
         status[d] = "dead_letter", status'[d] = "pending",
         attempts'[d] = attempts[d], epochStart'[d] = Len(attempts[d])
  PROVE  RowIsPlaced(d)'
<1>0. PICK n : n = Len(attempts[d])
  OBVIOUS
<1>1. epochStart[d] \in Nat /\ n \in Nat /\ AttemptBudget \in Nat \ {0}
  BY <1>0 DEF IInv, TypeOK
<1>2. attemptCount[d] = AttemptBudget /\ n = epochStart[d] + AttemptBudget
  BY <1>0 DEF EpochIsLogged
<1>3. attempts[d][n].outcome = "dead_letter"
  BY <1>1, <1>2 DEF EpochIsLogged
<1>4. \A i \in 1 .. n : AttemptIsPlaced(d, i)
  BY <1>0 DEF RowIsPlaced
<1>5. ASSUME NEW i \in 1 .. n PROVE AttemptIsPlaced(d, i)'
  <2>1. attempts[d][i].outcome # "succeeded"
    BY <1>4 DEF AttemptIsPlaced
  <2>2. attempts'[d][i] = attempts[d][i] /\ EpochOf(d, i)' = EpochOf(d, i)
    BY DEF EpochOf
  <2>3. CASE EpochOf(d, i) = epochStart[d]
    <3>1. EpochOf(d, i) + AttemptBudget = n /\ n \in 1 .. epochStart'[d]
      BY <1>0, <1>1, <1>2, <2>3
    <3> QED
      BY <1>3, <1>4, <2>1, <2>2, <3>1 DEF AttemptIsPlaced
  <2>4. CASE /\ EpochOf(d, i) + AttemptBudget \in 1 .. epochStart[d]
             /\ attempts[d][EpochOf(d, i) + AttemptBudget].outcome = "dead_letter"
    <3>1. EpochOf(d, i) + AttemptBudget \in 1 .. epochStart'[d]
      BY <1>0, <1>1, <1>2, <2>4
    <3> QED
      BY <1>4, <2>1, <2>2, <2>4, <3>1 DEF AttemptIsPlaced
  <2> QED
    BY <1>4, <2>3, <2>4 DEF AttemptIsPlaced
<1> QED
  BY <1>0, <1>5 DEF RowIsPlaced

LEMMA PlacedByRow == LogIsPlaced <=> \A d \in Deliveries : RowIsPlaced(d)
BY DEF LogIsPlaced, RowIsPlaced

LEMMA LogPlacedInit == ASSUME Init PROVE LogIsPlaced
BY DEF Init, LogIsPlaced

LEMMA LogPlacedRecord ==
  ASSUME NEW w \in Workers, NEW d \in Deliveries, IInv, AuditTrail, LogIsPlaced,
         NEW o \in {"succeeded", "failed", "dead_letter"},
         Holds(w, d), OwnsLease(w, d), InsertDeliveryAttempt(w, d, o),
         UNCHANGED epochStart,
         status' = [status EXCEPT ![d] = IF o = "failed" THEN "pending" ELSE o],
         o = "failed" => ~BudgetIsUsedUp(w, d)
  PROVE  LogIsPlaced'
<1>1. EpochIsLogged(d) /\ \A c \in Deliveries : RowIsPlaced(c)
  BY PlacedByRow DEF AuditTrail, Live, OwnsLease
<1>2. /\ status'[d] = IF o = "failed" THEN "pending" ELSE o
      /\ \A c \in Deliveries : c # d => status'[c] = status[c]
  BY DEF IInv, TypeOK
<1>3. RowIsPlaced(d)'
  BY <1>1, <1>2, RecordIsPlaced
<1>4. ASSUME NEW c \in Deliveries, c # d PROVE RowIsPlaced(c)'
  <2>1. attempts'[c] = attempts[c] /\ status'[c] = status[c]
    BY <1>2, <1>4, AttemptsStayTyped
  <2> QED
    BY <1>1, <2>1, PlacesStay
<1> QED
  BY <1>3, <1>4 DEF LogIsPlaced, RowIsPlaced

LEMMA LogPlacedNext == IInv /\ AuditTrail /\ LogIsPlaced /\ [Next]_vars => LogIsPlaced'
<1> SUFFICES ASSUME IInv, AuditTrail, LogIsPlaced, [Next]_vars PROVE LogIsPlaced'
  OBVIOUS
<1>0. \A d \in Deliveries : RowIsPlaced(d)
  BY PlacedByRow
<1>q. (\A d \in Deliveries : RowIsPlaced(d)') => LogIsPlaced'
  BY DEF LogIsPlaced, RowIsPlaced
<1>1. CASE UNCHANGED <<status, attempts, epochStart>>
  BY <1>0, <1>1, <1>q, PlacesStay
<1>2. ASSUME NEW d \in Deliveries, Enqueue(d) PROVE LogIsPlaced'
  <2>1. ASSUME NEW c \in Deliveries PROVE RowIsPlaced(c)'
    <3>1. /\ attempts'[c] = attempts[c] /\ epochStart'[c] = epochStart[c]
          /\ status'[c] = status[c] \/ (status[c] = "absent" /\ status'[c] = "pending")
      BY <1>2 DEF Enqueue, IInv, TypeOK
    <3> QED
      BY <1>0, <3>1, PlacesStay
  <2> QED
    BY <1>q, <2>1
<1>3. ASSUME NEW w \in Workers, Claim(w) PROVE LogIsPlaced'
  <2>1. PICK batch \in SUBSET {c \in Deliveries : Claimable(c)} :
          status' = [c \in Deliveries |->
                        IF c \in batch THEN "delivering" ELSE status[c]]
    BY <1>3 DEF Claim
  <2>2. UNCHANGED <<attempts, epochStart>>
    BY <1>3 DEF Claim
  <2>3. ASSUME NEW d \in Deliveries PROVE RowIsPlaced(d)'
    <3>1. \/ status'[d] = status[d]
          \/ status[d] \in {"pending", "delivering"} /\ status'[d] = "delivering"
      BY <2>1 DEF Claimable
    <3> QED
      BY <1>0, <2>2, <3>1, PlacesStay
  <2> QED
    BY <1>q, <2>3
<1>4. ASSUME NEW w \in Workers, NEW d \in Deliveries, Record(w, d)
      PROVE  LogIsPlaced'
  <2>1. CASE RecordSuccess(w, d)
    <3>1. /\ Holds(w, d) /\ OwnsLease(w, d)
          /\ InsertDeliveryAttempt(w, d, "succeeded") /\ UNCHANGED epochStart
          /\ status' = [status EXCEPT ![d] = "succeeded"]
      BY <2>1 DEF RecordSuccess, Holds
    <3> QED
      BY <3>1, LogPlacedRecord
  <2>2. CASE RecordFailure(w, d)
    <3>1. /\ Holds(w, d) /\ OwnsLease(w, d) /\ ~BudgetIsUsedUp(w, d)
          /\ InsertDeliveryAttempt(w, d, "failed") /\ UNCHANGED epochStart
          /\ status' = [status EXCEPT ![d] = "pending"]
      BY <2>2 DEF RecordFailure, Holds, Requesting
    <3> QED
      BY <3>1, LogPlacedRecord
  <2>3. CASE RecordDeadLetter(w, d)
    <3>1. /\ Holds(w, d) /\ OwnsLease(w, d)
          /\ InsertDeliveryAttempt(w, d, "dead_letter") /\ UNCHANGED epochStart
          /\ status' = [status EXCEPT ![d] = "dead_letter"]
      BY <2>3 DEF RecordDeadLetter, Holds, Requesting
    <3> QED
      BY <3>1, LogPlacedRecord
  <2>4. CASE RecordStale(w, d)
    BY <2>4, <1>1 DEF RecordStale, rowVars
  <2> QED
    BY <1>4, <2>1, <2>2, <2>3, <2>4 DEF Record
<1>5. ASSUME NEW m \in Messages, RetryMessage(m) PROVE LogIsPlaced'
  <2>1. ASSUME NEW d \in Deliveries PROVE RowIsPlaced(d)'
    <3>1. CASE d \in Retryable(m)
      <4>1. /\ status[d] = "dead_letter" /\ status'[d] = "pending"
            /\ epochStart'[d] = Len(attempts[d]) /\ attempts'[d] = attempts[d]
        BY <1>5, <3>1 DEF RetryMessage, Retryable
      <4>2. EpochIsLogged(d)
        BY <4>1 DEF AuditTrail, Live
      <4> QED
        BY <1>0, <4>1, <4>2, RetryIsPlaced
    <3>2. CASE d \notin Retryable(m)
      <4>1. /\ status'[d] = status[d] /\ attempts'[d] = attempts[d]
            /\ epochStart'[d] = epochStart[d]
        BY <1>5, <3>2 DEF RetryMessage
      <4> QED
        BY <1>0, <4>1, PlacesStay
    <3> QED
      BY <3>1, <3>2
  <2> QED
    BY <1>q, <2>1
<1>6. ASSUME NEW e \in Endpoints, DeleteEndpoint(e) PROVE LogIsPlaced'
  <2>1. ASSUME NEW d \in Deliveries PROVE RowIsPlaced(d)'
    <3>1. CASE EndpointOf[d] = e /\ status[d] # "absent"
      <4>1. attempts'[d] = << >>
        BY <1>6, <3>1 DEF DeleteEndpoint
      <4> QED
        BY <4>1, EmptyLogIsPlaced
    <3>2. CASE ~(EndpointOf[d] = e /\ status[d] # "absent")
      <4>1. /\ status'[d] = status[d] /\ attempts'[d] = attempts[d]
            /\ epochStart'[d] = epochStart[d]
        BY <1>6, <3>2 DEF DeleteEndpoint
      <4> QED
        BY <1>0, <4>1, PlacesStay
    <3> QED
      BY <3>1, <3>2
  <2> QED
    BY <1>q, <2>1
<1>7. \/ UNCHANGED <<status, attempts, epochStart>>
      \/ \E d \in Deliveries : Enqueue(d)
      \/ \E w \in Workers : Claim(w)
      \/ \E w \in Workers, d \in Deliveries : Record(w, d)
      \/ \E m \in Messages : RetryMessage(m)
      \/ \E e \in Endpoints : DeleteEndpoint(e)
  BY DEF Next, Tick, Send, ReceiverAccepts, Crash, SetEnabled, vars, rowVars
<1> QED
  BY <1>1, <1>2, <1>3, <1>4, <1>5, <1>6, <1>7

(* Every attempt in the log has its place in an epoch, and each epoch that *)
(* a retry closed has its dead letter (messages.ts:400).                   *)
THEOREM EveryAttemptIsPlaced == Spec => []LogIsPlaced
<1>1. Init => LogIsPlaced
  BY LogPlacedInit
<1>2. IInv /\ AuditTrail /\ LogIsPlaced /\ [Next]_vars => LogIsPlaced'
  BY LogPlacedNext
<1> QED
  BY <1>1, <1>2, QueueInductive, AuditTrailIsComplete, PTL DEF Spec

LEMMA OutcomesAre ==
  ASSUME TypeOK, NEW e, NEW o
  PROVE  \A x : x \in OutcomeRows(e, o) <=>
            \E d \in RowsOf(e) : \E i \in 1 .. Len(attempts[d]) :
               x = <<d, i>> /\ attempts[d][i].outcome = o
<1>1. \A d \in RowsOf(e) : attempts[d] \in Seq(AttemptRow) /\ DOMAIN attempts[d] = 1 .. Len(attempts[d])
  BY DEF TypeOK, RowsOf
<1>2. \A x : x \in OutcomeRows(e, o) <=>
            \E d \in RowsOf(e) :
               x \in {d} \X {i \in DOMAIN attempts[d] : attempts[d][i].outcome = o}
  BY DEF OutcomeRows
<1>3. ASSUME NEW d \in RowsOf(e), NEW x
      PROVE  x \in {d} \X {i \in DOMAIN attempts[d] : attempts[d][i].outcome = o} <=>
                \E i \in 1 .. Len(attempts[d]) : x = <<d, i>> /\ attempts[d][i].outcome = o
  BY <1>1
<1> QED
  BY <1>2, <1>3

LEMMA OutcomesAreFinite ==
  ASSUME LogIsFinite, NEW e, NEW o
  PROVE  IsFiniteSet(OutcomeRows(e, o)) /\ Cardinality(OutcomeRows(e, o)) \in Nat
<1>1. OutcomeRows(e, o) \subseteq LoggedAttempts
  BY DEF OutcomeRows, LoggedAttempts, RowsOf
<1> QED
  BY <1>1, FS_Subset, FS_CardinalityType DEF LogIsFinite

LEMMA RowsAreFinite ==
  ASSUME IsFiniteSet(Deliveries), NEW e
  PROVE  /\ IsFiniteSet(RowsOf(e)) /\ Cardinality(RowsOf(e)) \in Nat
         /\ \A s : IsFiniteSet(InStatus(e, s)) /\ Cardinality(InStatus(e, s)) \in Nat
<1>1. RowsOf(e) \subseteq Deliveries /\ \A s : InStatus(e, s) \subseteq RowsOf(e)
  BY DEF RowsOf, InStatus
<1>2. IsFiniteSet(RowsOf(e)) /\ Cardinality(RowsOf(e)) \in Nat
  BY <1>1, FS_Subset, FS_CardinalityType
<1> QED
  BY <1>1, <1>2, FS_Subset, FS_CardinalityType

(* The last attempt at a delivery that succeeded or was given up on.       *)
LEMMA LastAttemptIs ==
  ASSUME IInv, AuditTrail, NEW e, NEW d \in RowsOf(e), status[d] \in {"succeeded", "dead_letter"}
  PROVE  /\ Len(attempts[d]) \in Nat \ {0}
         /\ attempts[d][Len(attempts[d])].outcome = status[d]
<1>1. d \in Deliveries /\ EpochIsLogged(d)
  BY DEF RowsOf, AuditTrail
<1>2. /\ epochStart[d] \in Nat /\ attemptCount[d] \in Nat
      /\ AttemptBudget \in Nat \ {0}
  BY <1>1 DEF IInv, TypeOK
<1>3. attemptCount[d] > 0 /\ Len(attempts[d]) = epochStart[d] + attemptCount[d]
  BY <1>1, <1>2 DEF EpochIsLogged
<1>4. attempts[d][epochStart[d] + attemptCount[d]].outcome = status[d]
  BY <1>1, <1>2, <1>3 DEF EpochIsLogged
<1> QED
  BY <1>2, <1>3, <1>4

(* There is a successful attempt iff there is a delivery that succeeded.   *)
LEMMA SuccessesAreLogged ==
  ASSUME IInv, AuditTrail, LogIsPlaced, NEW e
  PROVE  OutcomeRows(e, "succeeded") # {} <=> InStatus(e, "succeeded") # {}
<1>1. \A x : x \in OutcomeRows(e, "succeeded") <=>
            \E d \in RowsOf(e) : \E i \in 1 .. Len(attempts[d]) :
               x = <<d, i>> /\ attempts[d][i].outcome = "succeeded"
  BY OutcomesAre DEF IInv
<1>2. ASSUME NEW d \in InStatus(e, "succeeded")
      PROVE  <<d, Len(attempts[d])>> \in OutcomeRows(e, "succeeded")
  <2>1. d \in RowsOf(e) /\ status[d] = "succeeded"
    BY DEF InStatus
  <2>2. /\ Len(attempts[d]) \in 1 .. Len(attempts[d])
        /\ attempts[d][Len(attempts[d])].outcome = "succeeded"
    BY <2>1, LastAttemptIs
  <2> QED
    BY <1>1, <2>1, <2>2
<1>3. ASSUME NEW x \in OutcomeRows(e, "succeeded")
      PROVE  \E d \in RowsOf(e) : d \in InStatus(e, "succeeded")
  <2>1. PICK d \in RowsOf(e) : \E i \in 1 .. Len(attempts[d]) :
               x = <<d, i>> /\ attempts[d][i].outcome = "succeeded"
    BY <1>1
  <2>2. PICK i \in 1 .. Len(attempts[d]) : x = <<d, i>> /\ attempts[d][i].outcome = "succeeded"
    BY <2>1
  <2>3. status[d] = "succeeded"
    BY <2>2 DEF LogIsPlaced, AttemptIsPlaced, RowsOf
  <2> QED
    BY <2>3 DEF InStatus
<1> QED
  BY <1>2, <1>3

(* Each delivery that was given up on has a fatal attempt.                 *)
LEMMA DeadLettersAreCounted ==
  ASSUME LogIsFinite, IInv, AuditTrail, NEW e
  PROVE  Cardinality(InStatus(e, "dead_letter")) <= Cardinality(OutcomeRows(e, "dead_letter"))
<1> DEFINE S == InStatus(e, "dead_letter")
           T == OutcomeRows(e, "dead_letter")
           f == [d \in S |-> <<d, Len(attempts[d])>>]
<1>1. \A d \in S : d \in RowsOf(e) /\ status[d] = "dead_letter"
  BY DEF InStatus
<1>2. \A x : x \in T <=> \E d \in RowsOf(e) : \E i \in 1 .. Len(attempts[d]) :
                            x = <<d, i>> /\ attempts[d][i].outcome = "dead_letter"
  BY OutcomesAre DEF IInv
<1>3. \A d \in S : <<d, Len(attempts[d])>> \in T
  <2> SUFFICES ASSUME NEW d \in S PROVE <<d, Len(attempts[d])>> \in T
    OBVIOUS
  <2>1. /\ Len(attempts[d]) \in 1 .. Len(attempts[d])
        /\ attempts[d][Len(attempts[d])].outcome = "dead_letter"
    BY <1>1, LastAttemptIs
  <2> QED
    BY <1>1, <1>2, <2>1
<1>4. IsFiniteSet(T)
  BY OutcomesAreFinite
<1> HIDE DEF S, T
<1>5. f \in Injection(S, T)
  <2>1. f \in [S -> T]
    BY <1>3
  <2>2. \A c, d \in S : f[c] = f[d] => c = d
    OBVIOUS
  <2> QED
    BY <2>1, <2>2 DEF Injection, IsInjective
<1> QED
  BY <1>4, <1>5, FS_Injection DEF S, T

(* A failed attempt was one of a budget, of which the last is not one: it  *)
(* is told by its number and by how its epoch ended, if it has.            *)
LEMMA FailuresAreBounded ==
  ASSUME IsFiniteSet(Deliveries), LogIsFinite, IInv, AuditTrail, LogIsPlaced, NEW e
  PROVE  Cardinality(OutcomeRows(e, "failed")) <=
            (AttemptBudget - 1)
              * (Cardinality(RowsOf(e)) + Cardinality(OutcomeRows(e, "dead_letter")))
<1> DEFINE S == OutcomeRows(e, "failed")
           D == OutcomeRows(e, "dead_letter")
           Z == RowsOf(e) \X {0}
           N == 1 .. (AttemptBudget - 1)
           end(d, i) == IF EpochOf(d, i) = epochStart[d] THEN 0 ELSE EpochOf(d, i) + AttemptBudget
           number(d, i) == attempts[d][i].number
           f == [x \in S |-> <<number(x[1], x[2]), <<x[1], end(x[1], x[2])>>>>]
<1>1. \A x : x \in S <=> \E d \in RowsOf(e) : \E i \in 1 .. Len(attempts[d]) :
                            x = <<d, i>> /\ attempts[d][i].outcome = "failed"
  BY OutcomesAre DEF IInv
<1>2. \A x : x \in D <=> \E d \in RowsOf(e) : \E i \in 1 .. Len(attempts[d]) :
                            x = <<d, i>> /\ attempts[d][i].outcome = "dead_letter"
  BY OutcomesAre DEF IInv
<1>3. AttemptBudget \in Nat \ {0}
  OBVIOUS
<1>4. \A d \in RowsOf(e) :
         /\ d \in Deliveries /\ epochStart[d] \in Nat /\ Len(attempts[d]) \in Nat
         /\ epochStart[d] <= Len(attempts[d])
         /\ \A i \in 1 .. Len(attempts[d]) : AttemptIsPlaced(d, i)
  <2> SUFFICES ASSUME NEW d \in RowsOf(e)
               PROVE  /\ d \in Deliveries /\ epochStart[d] \in Nat /\ Len(attempts[d]) \in Nat
                      /\ epochStart[d] <= Len(attempts[d])
                      /\ \A i \in 1 .. Len(attempts[d]) : AttemptIsPlaced(d, i)
    OBVIOUS
  <2>1. d \in Deliveries /\ Live(d)
    BY DEF RowsOf
  <2>2. /\ epochStart[d] \in Nat /\ attemptCount[d] \in Nat
        /\ Len(attempts[d]) = epochStart[d] + attemptCount[d]
    BY <2>1 DEF AuditTrail, EpochIsLogged, IInv, TypeOK
  <2>3. \A i \in 1 .. Len(attempts[d]) : AttemptIsPlaced(d, i)
    BY <2>1 DEF LogIsPlaced
  <2> QED
    BY <2>1, <2>2, <2>3
<1> HIDE DEF S, D, Z, N
<1>5. ASSUME NEW d \in RowsOf(e), NEW i \in 1 .. Len(attempts[d]),
             attempts[d][i].outcome = "failed"
      PROVE  /\ number(d, i) \in N
             /\ <<d, end(d, i)>> \in Z \cup D
             /\ end(d, i) = 0 => i = epochStart[d] + number(d, i)
             /\ end(d, i) # 0 => i = (end(d, i) - AttemptBudget) + number(d, i)
             /\ end(d, i) \in Nat
  <2>0. /\ number(d, i) \in 1 .. AttemptBudget /\ number(d, i) < AttemptBudget
        /\ i \in Nat /\ epochStart[d] \in Nat /\ Len(attempts[d]) \in Nat
        /\ epochStart[d] <= Len(attempts[d])
    BY <1>4, <1>5 DEF AttemptIsPlaced
  <2>1. number(d, i) \in N
    BY <1>3, <2>0 DEF N
  <2>2. EpochOf(d, i) = i - number(d, i)
    BY DEF EpochOf
  <2> HIDE DEF number
  <2>3. CASE EpochOf(d, i) = epochStart[d]
    <3>1. <<d, 0>> \in Z
      BY DEF Z
    <3> QED
      BY <2>0, <2>1, <2>2, <2>3, <3>1
  <2>4. CASE EpochOf(d, i) # epochStart[d]
    <3>1. /\ EpochOf(d, i) + AttemptBudget \in 1 .. epochStart[d]
          /\ attempts[d][EpochOf(d, i) + AttemptBudget].outcome = "dead_letter"
      BY <1>4, <2>4 DEF AttemptIsPlaced
    <3>2. EpochOf(d, i) + AttemptBudget \in 1 .. Len(attempts[d])
      BY <2>0, <3>1
    <3>3. <<d, EpochOf(d, i) + AttemptBudget>> \in D
      BY <1>2, <3>1, <3>2
    <3>4. end(d, i) = EpochOf(d, i) + AttemptBudget /\ end(d, i) # 0
      BY <2>4, <3>1
    <3>5. i = ((EpochOf(d, i) + AttemptBudget) - AttemptBudget) + number(d, i)
      BY <1>3, <2>0, <2>2
    <3>6. EpochOf(d, i) + AttemptBudget \in Nat
      BY <3>1
    <3> HIDE DEF end
    <3> QED
      BY <2>1, <3>3, <3>4, <3>5, <3>6
  <2> QED
    BY <2>3, <2>4
<1>6. IsFiniteSet(N) /\ Cardinality(N) = AttemptBudget - 1
  BY <1>3, FS_Interval DEF N
<1>7. IsFiniteSet(RowsOf(e)) /\ Cardinality(RowsOf(e)) \in Nat
  BY RowsAreFinite
<1>8. IsFiniteSet(Z) /\ Cardinality(Z) = Cardinality(RowsOf(e))
  <2>1. IsFiniteSet({0}) /\ Cardinality({0}) = 1
    BY FS_Singleton
  <2> QED
    BY <1>7, <2>1, FS_Product DEF Z
<1>9. IsFiniteSet(D) /\ Cardinality(D) \in Nat
  BY OutcomesAreFinite DEF D
<1>10. IsFiniteSet(Z \cup D) /\ Cardinality(Z \cup D) = Cardinality(RowsOf(e)) + Cardinality(D)
  <2>1. Z \cap D = {}
    BY <1>2 DEF Z
  <2>2. Cardinality(Z \cap D) = 0
    BY <2>1, FS_EmptySet
  <2> QED
    BY <1>7, <1>8, <1>9, <2>2, FS_Union
<1>11. /\ IsFiniteSet(N \X (Z \cup D))
       /\ Cardinality(N \X (Z \cup D)) =
             (AttemptBudget - 1) * (Cardinality(RowsOf(e)) + Cardinality(D))
  BY <1>6, <1>10, FS_Product
<1>12. f \in Injection(S, N \X (Z \cup D))
  <2>1. f \in [S -> N \X (Z \cup D)]
    <3> SUFFICES ASSUME NEW x \in S
                 PROVE  <<number(x[1], x[2]), <<x[1], end(x[1], x[2])>>>> \in N \X (Z \cup D)
      OBVIOUS
    <3>1. PICK d \in RowsOf(e) : \E i \in 1 .. Len(attempts[d]) :
                  x = <<d, i>> /\ attempts[d][i].outcome = "failed"
      BY <1>1
    <3>2. PICK i \in 1 .. Len(attempts[d]) : x = <<d, i>> /\ attempts[d][i].outcome = "failed"
      BY <3>1
    <3>3. number(d, i) \in N /\ <<d, end(d, i)>> \in Z \cup D
      BY <1>5, <3>2
    <3>4. x[1] = d /\ x[2] = i
      BY <3>2
    <3> HIDE DEF number, end
    <3> QED
      BY <3>3, <3>4
  <2>2. ASSUME NEW x \in S, NEW y \in S, f[x] = f[y] PROVE x = y
    <3>1. PICK d \in RowsOf(e) : \E i \in 1 .. Len(attempts[d]) :
                  x = <<d, i>> /\ attempts[d][i].outcome = "failed"
      BY <1>1
    <3>2. PICK i \in 1 .. Len(attempts[d]) : x = <<d, i>> /\ attempts[d][i].outcome = "failed"
      BY <3>1
    <3>3. PICK c \in RowsOf(e) : \E j \in 1 .. Len(attempts[c]) :
                  y = <<c, j>> /\ attempts[c][j].outcome = "failed"
      BY <1>1
    <3>4. PICK j \in 1 .. Len(attempts[c]) : y = <<c, j>> /\ attempts[c][j].outcome = "failed"
      BY <3>3
    <3>5. x[1] = d /\ x[2] = i /\ y[1] = c /\ y[2] = j
      BY <3>2, <3>4
    <3>6. /\ end(d, i) = 0 => i = epochStart[d] + number(d, i)
          /\ end(d, i) # 0 => i = (end(d, i) - AttemptBudget) + number(d, i)
      BY <1>5, <3>2
    <3>7. /\ end(c, j) = 0 => j = epochStart[c] + number(c, j)
          /\ end(c, j) # 0 => j = (end(c, j) - AttemptBudget) + number(c, j)
      BY <1>5, <3>4
    <3> HIDE DEF number, end
    <3>8. f[x] = <<number(d, i), <<d, end(d, i)>>>> /\ f[y] = <<number(c, j), <<c, end(c, j)>>>>
      BY <3>5
    <3> HIDE DEF f
    <3>9. number(d, i) = number(c, j) /\ d = c /\ end(d, i) = end(c, j)
      <4>1. <<number(d, i), <<d, end(d, i)>>>> = <<number(c, j), <<c, end(c, j)>>>>
        BY <2>2, <3>8
      <4>2. \A a1, a2, b1, b2, c1, c2 :
               <<a1, <<b1, c1>>>> = <<a2, <<b2, c2>>>> => a1 = a2 /\ b1 = b2 /\ c1 = c2
        OBVIOUS
      <4> QED
        BY ONLY <4>1, <4>2
    <3>10. i = j
      BY <3>6, <3>7, <3>9
    <3> QED
      BY <3>2, <3>4, <3>9, <3>10
  <2> HIDE DEF f
  <2> QED
    BY <2>1, <2>2 DEF Injection, IsInjective
<1> HIDE DEF f
<1>13. Cardinality(S) <= Cardinality(N \X (Z \cup D))
  BY <1>11, <1>12, FS_Injection
<1> QED
  BY <1>11, <1>13 DEF S, D

(* The four statuses share out an endpoint's rows.                         *)
LEMMA StatusesShareRows ==
  ASSUME IsFiniteSet(Deliveries), TypeOK, NEW e
  PROVE  Cardinality(RowsOf(e)) =
            StatusCount(e, "pending") + StatusCount(e, "delivering")
              + StatusCount(e, "succeeded") + StatusCount(e, "dead_letter")
<1> DEFINE P == InStatus(e, "pending")
           G == InStatus(e, "delivering")
           U == InStatus(e, "succeeded")
           L == InStatus(e, "dead_letter")
<1>1. /\ RowsOf(e) = ((P \cup G) \cup U) \cup L
      /\ P \cap G = {} /\ (P \cup G) \cap U = {} /\ ((P \cup G) \cup U) \cap L = {}
  BY DEF RowsOf, InStatus, Live, TypeOK, Statuses
<1>2. /\ IsFiniteSet(P) /\ IsFiniteSet(G) /\ IsFiniteSet(U) /\ IsFiniteSet(L)
      /\ Cardinality(P) \in Nat /\ Cardinality(G) \in Nat
      /\ Cardinality(U) \in Nat /\ Cardinality(L) \in Nat
  BY RowsAreFinite
<1>3. /\ StatusCount(e, "pending") = Cardinality(P)
      /\ StatusCount(e, "delivering") = Cardinality(G)
      /\ StatusCount(e, "succeeded") = Cardinality(U)
      /\ StatusCount(e, "dead_letter") = Cardinality(L)
  BY DEF StatusCount
<1> HIDE DEF P, G, U, L
<1>4. \A A, B : IsFiniteSet(A) /\ IsFiniteSet(B) /\ A \cap B = {} =>
         IsFiniteSet(A \cup B) /\ Cardinality(A \cup B) = Cardinality(A) + Cardinality(B)
  <2> SUFFICES ASSUME NEW A, NEW B, IsFiniteSet(A), IsFiniteSet(B), A \cap B = {}
               PROVE  /\ IsFiniteSet(A \cup B)
                      /\ Cardinality(A \cup B) = Cardinality(A) + Cardinality(B)
    OBVIOUS
  <2>1. /\ Cardinality(A \cap B) = 0
        /\ Cardinality(A) \in Nat /\ Cardinality(B) \in Nat
    BY FS_EmptySet, FS_CardinalityType
  <2> QED
    BY <2>1, FS_Union
<1>5. IsFiniteSet(P \cup G) /\ Cardinality(P \cup G) = Cardinality(P) + Cardinality(G)
  BY <1>1, <1>2, <1>4
<1>6. /\ IsFiniteSet((P \cup G) \cup U)
      /\ Cardinality((P \cup G) \cup U) = Cardinality(P \cup G) + Cardinality(U)
  BY <1>1, <1>2, <1>4, <1>5
<1>7. Cardinality(RowsOf(e)) = Cardinality((P \cup G) \cup U) + Cardinality(L)
  BY <1>1, <1>2, <1>4, <1>6
<1> QED
  BY <1>2, <1>3, <1>5, <1>6, <1>7

LEMMA StatisticsDoAgree ==
  ASSUME IsFiniteSet(Deliveries), LogIsFinite, IInv, AuditTrail, LogIsPlaced
  PROVE  StatisticsAgree
<1> SUFFICES ASSUME NEW e \in Endpoints
             PROVE  LET stats == GetEndpointDeliveryStats(e)
                    IN  /\ stats.total = Cardinality(RowsOf(e))
                        /\ stats.hasAverage <=> stats.byStatus["succeeded"] > 0
                        /\ stats.deadLettered >= stats.byStatus["dead_letter"]
                        /\ stats.failed <= (AttemptBudget - 1) * (stats.total + stats.deadLettered)
  BY DEF StatisticsAgree
<1> DEFINE stats == GetEndpointDeliveryStats(e)
<1>1. /\ stats.failed = Cardinality(OutcomeRows(e, "failed"))
      /\ stats.deadLettered = Cardinality(OutcomeRows(e, "dead_letter"))
      /\ stats.byStatus["succeeded"] = StatusCount(e, "succeeded")
      /\ stats.byStatus["dead_letter"] = StatusCount(e, "dead_letter")
      /\ stats.total = StatusCount(e, "pending") + StatusCount(e, "delivering")
                         + StatusCount(e, "succeeded") + StatusCount(e, "dead_letter")
  BY DEF GetEndpointDeliveryStats, LiveStatuses
<1>2. stats.hasAverage <=> OutcomeRows(e, "succeeded") # {}
  BY Zenon DEF GetEndpointDeliveryStats
<1> HIDE DEF stats
<1>3. stats.total = Cardinality(RowsOf(e))
  BY <1>1, StatusesShareRows DEF IInv
<1>4. stats.hasAverage <=> stats.byStatus["succeeded"] > 0
  <2>1. /\ IsFiniteSet(InStatus(e, "succeeded"))
        /\ Cardinality(InStatus(e, "succeeded")) \in Nat
    BY RowsAreFinite
  <2>2. InStatus(e, "succeeded") # {} <=> Cardinality(InStatus(e, "succeeded")) > 0
    BY <2>1, FS_EmptySet
  <2>3. stats.byStatus["succeeded"] = Cardinality(InStatus(e, "succeeded"))
    BY <1>1 DEF StatusCount
  <2>4. stats.hasAverage <=> InStatus(e, "succeeded") # {}
    BY <1>2, SuccessesAreLogged
  <2> QED
    BY <2>2, <2>3, <2>4, Zenon
<1>5. stats.deadLettered >= stats.byStatus["dead_letter"]
  <2>1. /\ Cardinality(OutcomeRows(e, "dead_letter")) \in Nat
        /\ Cardinality(InStatus(e, "dead_letter")) \in Nat
    BY OutcomesAreFinite, RowsAreFinite
  <2> QED
    BY <1>1, <2>1, DeadLettersAreCounted DEF StatusCount
<1>6. stats.failed <= (AttemptBudget - 1) * (stats.total + stats.deadLettered)
  BY <1>1, <1>3, FailuresAreBounded
<1> QED
  BY <1>3, <1>4, <1>5, <1>6 DEF stats

-----------------------------------------------------------------------------
(* The metrics *)

(* A sum over a finite set is what adds up in the order in which the set's *)
(* members are chosen.                                                     *)
AddsUp(g, v, S) ==
    \A t \in SUBSET S :
        g[t] = IF t = {} THEN 0
               ELSE v[CHOOSE x \in t : TRUE] + g[t \ {CHOOSE x \in t : TRUE}]

LEMMA SumIsUnique ==
  ASSUME NEW S, IsFiniteSet(S), NEW v, NEW g, NEW c, AddsUp(g, v, S), AddsUp(c, v, S)
  PROVE  g[S] = c[S]
<1> DEFINE bad == {t \in SUBSET S : g[t] # c[t]}
<1> SUFFICES ASSUME g[S] # c[S] PROVE FALSE
  OBVIOUS
<1>1. \A t \in SUBSET S : IsFiniteSet(t)
  BY FS_Subset
<1>2. bad \subseteq FiniteSubsetsOf(S) /\ bad # {}
  BY <1>1 DEF FiniteSubsetsOf
<1>3. PICK t \in bad : \A u \in bad : <<u, t>> \notin StrictSubsetOrdering(S)
  BY <1>2, FS_StrictSubsetOrderingWellFounded, WFMin
<1>4. t # {}
  BY DEF AddsUp
<1>5. PICK x : x \in t /\ x = CHOOSE y \in t : TRUE
  BY <1>4
<1>6. t \ {x} \in SUBSET S /\ t \ {x} \notin bad
  <2>1. t \in SUBSET S
    BY <1>3
  <2> HIDE DEF bad
  <2>2. t \ {x} \in SUBSET S /\ t \ {x} \subseteq t /\ t \ {x} # t
    BY <2>1, <1>5
  <2>3. <<t \ {x}, t>> \in StrictSubsetOrdering(S)
    BY <2>1, <2>2 DEF StrictSubsetOrdering
  <2> QED
    BY <1>3, <2>2, <2>3
<1>7. g[t \ {x}] = c[t \ {x}]
  BY <1>6
<1>8. g[t] = v[x] + g[t \ {x}] /\ c[t] = v[x] + c[t \ {x}]
  BY <1>4, <1>5 DEF AddsUp
<1> QED
  BY <1>7, <1>8

(* What the endpoints' rows in a status add up to is how many there are.   *)
LEMMA TasksAreSummed ==
  ASSUME IsFiniteSet(Deliveries), IsFiniteSet(Endpoints), TypeOK,
         NEW s \in LiveStatuses
  PROVE  DeliveryTasks(s) = MapThenSumSet(LAMBDA e : StatusCount(e, s), Endpoints)
<1> DEFINE v == [e \in Endpoints |-> StatusCount(e, s)]
           Of(t) == {d \in Deliveries : EndpointOf[d] \in t /\ status[d] = s}
           c == [t \in SUBSET Endpoints |-> Cardinality(Of(t))]
           Sum(g) == g = [t \in SUBSET Endpoints |->
                             IF t = {} THEN 0
                             ELSE StatusCount(CHOOSE x \in t : TRUE, s)
                                     + g[t \ {CHOOSE x \in t : TRUE}]]
           iter == CHOOSE g : Sum(g)
<1>1. MapThenSumSet(LAMBDA e : StatusCount(e, s), Endpoints) = iter[Endpoints]
  BY Zenon DEF MapThenSumSet, MapThenFoldSet
<1>2. ASSUME NEW t \in SUBSET Endpoints, NEW x \in t
      PROVE  Cardinality(Of(t)) = StatusCount(x, s) + Cardinality(Of(t \ {x}))
  <2>1. /\ Of(t) = InStatus(x, s) \cup Of(t \ {x})
        /\ InStatus(x, s) \cap Of(t \ {x}) = {}
    BY DEF InStatus, RowsOf, Live, LiveStatuses
  <2>2. IsFiniteSet(InStatus(x, s)) /\ IsFiniteSet(Of(t \ {x}))
    <3>1. InStatus(x, s) \subseteq Deliveries /\ Of(t \ {x}) \subseteq Deliveries
      BY DEF InStatus, RowsOf
    <3> QED
      BY <3>1, FS_Subset
  <2> HIDE DEF Of
  <2>3. /\ Cardinality(InStatus(x, s) \cap Of(t \ {x})) = 0
        /\ Cardinality(InStatus(x, s)) \in Nat
        /\ Cardinality(Of(t \ {x})) \in Nat
    BY <2>1, <2>2, FS_EmptySet, FS_CardinalityType
  <2>4. Cardinality(InStatus(x, s) \cup Of(t \ {x}))
          = Cardinality(InStatus(x, s)) + Cardinality(Of(t \ {x}))
              - Cardinality(InStatus(x, s) \cap Of(t \ {x}))
    BY <2>2, FS_Union
  <2> QED
    BY <2>1, <2>3, <2>4 DEF StatusCount
<1>3. Cardinality(Of({})) = 0
  BY FS_EmptySet
<1>4. Sum(c)
  <2>1. ASSUME NEW t \in SUBSET Endpoints, t # {}
        PROVE  Cardinality(Of(t)) = StatusCount(CHOOSE x \in t : TRUE, s)
                                      + c[t \ {CHOOSE x \in t : TRUE}]
    <3> HIDE DEF Of
    <3>1. PICK x : x \in t /\ x = CHOOSE y \in t : TRUE
      BY <2>1
    <3>2. c[t \ {x}] = Cardinality(Of(t \ {x}))
      OBVIOUS
    <3>3. Cardinality(Of(t)) = StatusCount(x, s) + c[t \ {x}]
      BY <1>2, <3>1, <3>2
    <3> QED
      BY <3>1, <3>3
  <2> HIDE DEF Of
  <2>2. \A t \in SUBSET Endpoints :
           c[t] = IF t = {} THEN 0
                  ELSE StatusCount(CHOOSE x \in t : TRUE, s)
                          + c[t \ {CHOOSE x \in t : TRUE}]
    BY <1>3, <2>1
  <2>3. c = [t \in SUBSET Endpoints |-> c[t]]
    OBVIOUS
  <2> HIDE DEF c
  <2> QED
    BY <2>2, <2>3
<1>5. Sum(iter)
  <2> HIDE DEF Sum, c
  <2> QED
    BY <1>4
<1>6. iter[Endpoints] = c[Endpoints]
  <2>1. ASSUME NEW g, Sum(g)
        PROVE  AddsUp(g, v, Endpoints)
    <3>1. \A t \in SUBSET Endpoints : t # {} =>
             (CHOOSE x \in t : TRUE) \in Endpoints
      OBVIOUS
    <3>2. \A e \in Endpoints : v[e] = StatusCount(e, s)
      OBVIOUS
    <3> HIDE DEF v
    <3>3. \A t \in SUBSET Endpoints :
             g[t] = IF t = {} THEN 0
                    ELSE StatusCount(CHOOSE x \in t : TRUE, s)
                            + g[t \ {CHOOSE x \in t : TRUE}]
      BY <2>1
    <3> SUFFICES ASSUME NEW t \in SUBSET Endpoints
                 PROVE  g[t] = IF t = {} THEN 0
                               ELSE v[CHOOSE x \in t : TRUE] + g[t \ {CHOOSE x \in t : TRUE}]
      BY DEF AddsUp
    <3>4. CASE t = {}
      BY <3>3, <3>4
    <3>5. CASE t # {}
      BY <3>1, <3>2, <3>3, <3>5
    <3> QED
      BY <3>4, <3>5
  <2> HIDE DEF v, c, iter, Sum
  <2>2. AddsUp(iter, v, Endpoints) /\ AddsUp(c, v, Endpoints)
    BY <1>4, <1>5, <2>1
  <2> QED
    BY <2>2, SumIsUnique
<1>7. c[Endpoints] = DeliveryTasks(s)
  <2>1. Of(Endpoints) = {d \in Deliveries : status[d] = s}
    BY DEF QueueAssumption
  <2> QED
    BY <2>1 DEF DeliveryTasks
<1> QED
  BY <1>1, <1>6, <1>7

(* The meter and the log differ by the attempts that went with a row.      *)
MeterTellsDeletions ==
    (\A d \in Deliveries : status[d] # "deleted") => DeliveriesTotal = metered

LEMMA RowDeletionIsFinal ==
  ASSUME IInv, [Next]_vars, NEW d \in Deliveries, status[d] = "deleted"
  PROVE  status'[d] = "deleted"
<1>1. \A w \in Workers : ~OwnsLease(w, d)
  BY DEF OwnsLease
<1>2. CASE \E c \in Deliveries : Enqueue(c)
  BY <1>2 DEF Enqueue, IInv, TypeOK
<1>3. CASE \E w \in Workers : Claim(w)
  <2>1. ~Claimable(d)
    BY DEF Claimable
  <2>2. PICK batch \in SUBSET {c \in Deliveries : Claimable(c)} :
           status' = [c \in Deliveries |-> IF c \in batch THEN "delivering" ELSE status[c]]
    BY <1>3 DEF Claim
  <2> QED
    BY <2>1, <2>2
<1>4. CASE \E w \in Workers, c \in Deliveries : Record(w, c)
  BY <1>1, <1>4 DEF Record, RecordSuccess, RecordFailure, RecordDeadLetter, RecordStale,
     rowVars, IInv, TypeOK
<1>5. CASE \E m \in Messages : RetryMessage(m)
  BY <1>5 DEF RetryMessage, Retryable, IInv, TypeOK
<1>6. CASE \E e \in Endpoints : DeleteEndpoint(e)
  BY <1>6 DEF DeleteEndpoint, IInv, TypeOK
<1>7. CASE UNCHANGED status
  BY <1>7
<1> QED
  BY <1>2, <1>3, <1>4, <1>5, <1>6, <1>7 DEF Next, Tick, Send, ReceiverAccepts, Crash,
     SetEnabled, vars, rowVars

LEMMA MeterTellsNext ==
  ASSUME IInv, LogIsFinite, MeterTellsDeletions, [Next]_vars
  PROVE  MeterTellsDeletions'
<1>0. (\A d \in Deliveries : status'[d] # "deleted")
         => \A d \in Deliveries : status[d] # "deleted"
  BY RowDeletionIsFinal
<1>1. /\ Cardinality(LoggedAttempts) \in Nat /\ metered \in Nat
      /\ DeliveriesTotal = Cardinality(LoggedAttempts)
      /\ DeliveriesTotal' = Cardinality(LoggedAttempts')
  BY FS_CardinalityType DEF LogIsFinite, IInv, TypeOK, DeliveriesTotal
<1>2. CASE UNCHANGED <<attempts, metered>>
  <2>1. LoggedAttempts' = LoggedAttempts
    BY <1>2 DEF LoggedAttempts
  <2> QED
    BY <1>0, <1>1, <1>2, <2>1 DEF MeterTellsDeletions
<1>3. ASSUME NEW w \in Workers, NEW d \in Deliveries,
             NEW o \in {"succeeded", "failed", "dead_letter"},
             Holds(w, d), OwnsLease(w, d), InsertDeliveryAttempt(w, d, o)
      PROVE  MeterTellsDeletions'
  <2>1. metered' = metered + 1
    BY <1>3 DEF InsertDeliveryAttempt
  <2>2. Cardinality(LoggedAttempts') = Cardinality(LoggedAttempts) + 1
    BY <1>3, AttemptIsLogged
  <2> QED
    BY <1>0, <1>1, <2>1, <2>2 DEF MeterTellsDeletions
<1>4. ASSUME NEW e \in Endpoints, DeleteEndpoint(e)
      PROVE  MeterTellsDeletions'
  <2> SUFFICES ASSUME \A d \in Deliveries : status'[d] # "deleted"
               PROVE  DeliveriesTotal' = metered'
    BY DEF MeterTellsDeletions
  <2>1. \A d \in Deliveries : attempts'[d] = attempts[d]
    BY <1>4 DEF DeleteEndpoint
  <2>2. LoggedAttempts' = LoggedAttempts
    BY <2>1 DEF LoggedAttempts
  <2>3. metered' = metered
    BY <1>4 DEF DeleteEndpoint
  <2> QED
    BY <1>0, <1>1, <2>2, <2>3 DEF MeterTellsDeletions
<1> QED
  BY <1>2, <1>3, <1>4, LogAndMeter

LEMMA MetricsDoAgree ==
  ASSUME IsFiniteSet(Deliveries), IsFiniteSet(Endpoints), IInv, AttemptsAreMetered,
         MeterTellsDeletions
  PROVE  MetricsAgree
<1>1. DeliveriesTotal <= metered
  BY DEF AttemptsAreMetered, DeliveriesTotal
<1>2. \A s \in LiveStatuses :
         DeliveryTasks(s) = MapThenSumSet(LAMBDA e : StatusCount(e, s), Endpoints)
  BY TasksAreSummed DEF IInv
<1> QED
  BY <1>1, <1>2, Zenon DEF MetricsAgree, MeterTellsDeletions

-----------------------------------------------------------------------------
(* The order of the log *)

(* Requests of one delivery follow each other in time, as its rows do in   *)
(* the log: whoever may still record was sent after all that is logged.    *)
RowIsInOrder(d) ==
    /\ \A i \in 1 .. Len(attempts[d]) : attempts[d][i].at <= now
    /\ \A i, j \in 1 .. Len(attempts[d]) :
          i < j => attempts[d][i].at <= attempts[d][j].at
    /\ \A w \in Workers :
          /\ claim[w][d].at <= now
          /\ Requesting(w, d) /\ OwnsLease(w, d) =>
                \A i \in 1 .. Len(attempts[d]) : attempts[d][i].at <= claim[w][d].at

LogIsInOrder == \A d \in Deliveries : RowIsInOrder(d)

(* A row whose log is left alone or goes, and whose owner was so before or *)
(* is sent now.                                                            *)
LEMMA OrderStays ==
  ASSUME NEW d \in Deliveries, IInv, TypeOK', RowIsInOrder(d),
         attempts'[d] = attempts[d] \/ attempts'[d] = << >>, now' >= now,
         \A w \in Workers :
            \/ claim'[w][d].at <= claim[w][d].at
            \/ claim'[w][d].at = now',
         \A w \in Workers :
            Requesting(w, d)' /\ OwnsLease(w, d)' =>
               \/ /\ Requesting(w, d) /\ OwnsLease(w, d)
                  /\ claim'[w][d].at = claim[w][d].at
               \/ claim'[w][d].at = now'
  PROVE  RowIsInOrder(d)'
<1>1. /\ now \in Nat /\ now' \in Nat
      /\ attempts[d] \in Seq(AttemptRow)
      /\ \A i \in 1 .. Len(attempts[d]) : attempts[d][i].at \in Nat
      /\ \A w \in Workers : claim[w][d].at \in Nat /\ claim'[w][d].at \in Nat
  <2>1. now \in Nat /\ now' \in Nat /\ attempts[d] \in Seq(AttemptRow)
    BY DEF IInv, TypeOK
  <2>2. \A i \in 1 .. Len(attempts[d]) : attempts[d][i] \in AttemptRow
    BY <2>1
  <2>3. \A w \in Workers : claim[w][d] \in Task /\ claim'[w][d] \in Task
    BY DEF IInv, TypeOK
  <2> QED
    BY <2>1, <2>2, <2>3 DEF AttemptRow, Task
<1>2. \A i \in 1 .. Len(attempts'[d]) :
         i \in 1 .. Len(attempts[d]) /\ attempts'[d][i] = attempts[d][i]
  OBVIOUS
<1>3. \A i \in 1 .. Len(attempts'[d]) : attempts'[d][i].at <= now'
  BY <1>1, <1>2 DEF RowIsInOrder
<1>4. \A i, j \in 1 .. Len(attempts'[d]) :
         i < j => attempts'[d][i].at <= attempts'[d][j].at
  BY <1>2 DEF RowIsInOrder
<1>5. ASSUME NEW w \in Workers
      PROVE  /\ claim'[w][d].at <= now'
             /\ Requesting(w, d)' /\ OwnsLease(w, d)' =>
                   \A i \in 1 .. Len(attempts'[d]) : attempts'[d][i].at <= claim'[w][d].at
  <2>1. claim[w][d].at <= now
    BY DEF RowIsInOrder
  <2>2. claim'[w][d].at <= now'
    <3>1. CASE claim'[w][d].at <= claim[w][d].at
      BY <1>1, <2>1, <3>1
    <3>2. CASE claim'[w][d].at = now'
      BY <1>1, <3>2
    <3> QED
      BY <3>1, <3>2
  <2>3. ASSUME Requesting(w, d)', OwnsLease(w, d)', NEW i \in 1 .. Len(attempts'[d])
        PROVE  attempts'[d][i].at <= claim'[w][d].at
    BY <1>1, <1>2, <1>3, <2>3 DEF RowIsInOrder
  <2> QED
    BY <2>2, <2>3
<1> QED
  BY <1>3, <1>4, <1>5 DEF RowIsInOrder

(* What is recorded was sent after all that was logged before.             *)
LEMMA OrderRecord ==
  ASSUME NEW w \in Workers, NEW d \in Deliveries, IInv, IInv', RowIsInOrder(d),
         NEW o \in {"succeeded", "failed", "dead_letter"},
         Requesting(w, d), OwnsLease(w, d), InsertDeliveryAttempt(w, d, o),
         EndTask(w, d), UNCHANGED now, status'[d] # "delivering"
  PROVE  RowIsInOrder(d)'
<1> DEFINE row == [number |-> AttemptNumber(w, d), outcome |-> o,
                   at |-> claim[w][d].at]
<1>0. PICK n : n = Len(attempts[d])
  OBVIOUS
<1>1. /\ now \in Nat /\ n \in Nat
      /\ attempts[d] \in Seq(AttemptRow) /\ claim[w][d].at \in Nat
      /\ \A i \in 1 .. n : attempts[d][i].at \in Nat
  <2>1. now \in Nat /\ attempts[d] \in Seq(AttemptRow) /\ claim[w][d] \in Task
    BY DEF IInv, TypeOK
  <2>2. n \in Nat /\ \A i \in 1 .. n : attempts[d][i] \in AttemptRow
    BY <1>0, <2>1
  <2> QED
    BY <2>1, <2>2 DEF AttemptRow, Task
<1>2. row \in AttemptRow /\ row.at = claim[w][d].at
  BY AttemptIsInBudget DEF Holds, Requesting
<1>3. attempts'[d] = Append(attempts[d], row)
  BY DEF InsertDeliveryAttempt, LogAttempt, IInv, TypeOK
<1> HIDE DEF row
<1>4. /\ Len(attempts'[d]) = n + 1 /\ attempts'[d][n + 1] = row
      /\ \A i \in 1 .. n : attempts'[d][i] = attempts[d][i]
  BY <1>0, <1>1, <1>2, <1>3
<1>5. /\ \A i \in 1 .. n : attempts[d][i].at <= claim[w][d].at
      /\ \A i, j \in 1 .. n : i < j => attempts[d][i].at <= attempts[d][j].at
      /\ \A v \in Workers : claim[v][d].at <= now
  BY <1>0 DEF RowIsInOrder
<1>6. \A i \in 1 .. (n + 1) : i \in 1 .. n \/ i = n + 1
  BY <1>1
<1>7. \A i \in 1 .. Len(attempts'[d]) : attempts'[d][i].at <= now'
  <2> SUFFICES ASSUME NEW i \in 1 .. (n + 1) PROVE attempts'[d][i].at <= now
    BY <1>4
  <2>1. CASE i \in 1 .. n
    <3>1. /\ attempts[d][i].at <= claim[w][d].at /\ claim[w][d].at <= now
          /\ attempts[d][i].at \in Nat /\ attempts'[d][i] = attempts[d][i]
      BY <1>1, <1>4, <1>5, <2>1
    <3> QED
      BY <1>1, <3>1
  <2>2. CASE i = n + 1
    BY <1>2, <1>4, <1>5, <2>2
  <2> QED
    BY <1>6, <2>1, <2>2
<1>8. ASSUME NEW i \in 1 .. (n + 1), NEW j \in 1 .. (n + 1), i < j
      PROVE  attempts'[d][i].at <= attempts'[d][j].at
  <2>1. i \in 1 .. n
    BY <1>1, <1>8
  <2>2. CASE j \in 1 .. n
    BY <1>4, <1>5, <1>8, <2>1, <2>2
  <2>3. CASE j = n + 1
    BY <1>2, <1>4, <1>5, <2>1, <2>3
  <2> QED
    BY <1>6, <2>2, <2>3
<1>9. ASSUME NEW v \in Workers
      PROVE  claim'[v][d].at <= now' /\ ~OwnsLease(v, d)'
  <2>1. claim'[v][d] = claim[v][d] \/ claim'[v][d] = NoTask
    BY DEF EndTask, IInv, TypeOK
  <2> QED
    BY <1>1, <1>5, <2>1 DEF NoTask, OwnsLease
<1> QED
  BY <1>4, <1>7, <1>8, <1>9 DEF RowIsInOrder

LEMMA OrderInit == ASSUME Init PROVE LogIsInOrder
<1>1. \A d \in Deliveries : attempts[d] = << >> /\ now = 0
  BY DEF Init
<1>2. \A w \in Workers, d \in Deliveries : claim[w][d].at = 0 /\ ~Requesting(w, d)
  BY DEF Init, NoTask, Requesting
<1> QED
  BY <1>1, <1>2 DEF LogIsInOrder, RowIsInOrder

LEMMA OrderNext == ASSUME IInv, LogIsInOrder, [Next]_vars PROVE LogIsInOrder'
<1>0. IInv' /\ TypeOK' /\ \A d \in Deliveries : RowIsInOrder(d)
  BY NextIInv DEF IInv, LogIsInOrder
<1>t. /\ now \in Nat /\ claim \in [Workers -> [Deliveries -> Task]]
      /\ \A w \in Workers, d \in Deliveries : claim[w][d].at \in Nat
  BY DEF IInv, TypeOK, Task
<1>q. (\A d \in Deliveries : RowIsInOrder(d)') => LogIsInOrder'
  BY DEF LogIsInOrder
<1>1. CASE UNCHANGED <<status, leaseExpiresAt, attempts, claim>> /\ now' >= now
  <2>1. ASSUME NEW d \in Deliveries PROVE RowIsInOrder(d)'
    <3>1. \A w \in Workers : /\ claim'[w][d].at <= claim[w][d].at
                             /\ claim'[w][d].at = claim[w][d].at
                             /\ Requesting(w, d)' = Requesting(w, d)
                             /\ OwnsLease(w, d)' = OwnsLease(w, d)
      BY <1>1, <1>t DEF Requesting, OwnsLease
    <3> QED
      BY <1>0, <1>1, <3>1, OrderStays
  <2> QED
    BY <1>q, <2>1
<1>2. ASSUME NEW c \in Deliveries, Enqueue(c) PROVE LogIsInOrder'
  <2>1. ASSUME NEW d \in Deliveries PROVE RowIsInOrder(d)'
    <3>1. /\ status'[d] = status[d] \/ status'[d] = "pending"
          /\ UNCHANGED <<leaseExpiresAt, attempts, claim, now>>
      BY <1>2 DEF Enqueue, IInv, TypeOK
    <3>2. \A w \in Workers : /\ claim'[w][d].at <= claim[w][d].at
                             /\ claim'[w][d].at = claim[w][d].at
                             /\ Requesting(w, d)' = Requesting(w, d)
                             /\ OwnsLease(w, d)' => OwnsLease(w, d)
      BY <3>1, <1>t DEF Requesting, OwnsLease
    <3> QED
      BY <1>0, <1>t, <3>1, <3>2, OrderStays
  <2> QED
    BY <1>q, <2>1
<1>3. ASSUME NEW v \in Workers, Claim(v) PROVE LogIsInOrder'
  <2>1. PICK batch \in SUBSET {c \in Deliveries : Claimable(c)} :
          /\ status' = [d \in Deliveries |-> IF d \in batch THEN "delivering" ELSE status[d]]
          /\ leaseExpiresAt' = [d \in Deliveries |->
                               IF d \in batch THEN NewLease ELSE leaseExpiresAt[d]]
          /\ claim' = [claim EXCEPT ![v] = [d \in Deliveries |->
                               IF d \in batch
                               THEN [phase |-> "queued", count |-> attemptCount[d],
                                     lease |-> NewLease, at |-> 0]
                               ELSE NoTask]]
    BY <1>3 DEF Claim
  <2>2. UNCHANGED <<attempts, now>>
    BY <1>3 DEF Claim
  <2>3. ASSUME NEW d \in Deliveries PROVE RowIsInOrder(d)'
    <3>1. /\ claim'[v][d].at = 0 /\ ~Requesting(v, d)'
          /\ d \in batch => Holds(v, d)' /\ claim'[v][d].lease = leaseExpiresAt'[d]
      BY <1>t, <2>1 DEF NoTask, Requesting, Holds
    <3>2. \A w \in Workers : w # v => claim'[w] = claim[w]
      BY <1>t, <2>1
    <3>3. d \notin batch => status'[d] = status[d] /\ leaseExpiresAt'[d] = leaseExpiresAt[d]
      BY <2>1
    <3>4. ASSUME NEW w \in Workers, Requesting(w, d)', OwnsLease(w, d)'
          PROVE  /\ Requesting(w, d) /\ OwnsLease(w, d)
                 /\ claim'[w][d].at = claim[w][d].at
      <4>1. w # v /\ claim'[w][d] = claim[w][d]
        BY <3>1, <3>2, <3>4
      <4>2. d \notin batch
        <5>1. Holds(w, d)'
          BY <3>4 DEF Requesting, Holds
        <5>2. leaseExpiresAt'[d] = claim'[w][d].lease
          BY <3>4 DEF OwnsLease
        <5> QED
          BY <1>0, <3>1, <4>1, <5>1, <5>2 DEF IInv, FencingTokenUnique
      <4> QED
        BY <3>3, <3>4, <4>1, <4>2 DEF Requesting, OwnsLease
    <3>5. \A w \in Workers : claim'[w][d].at <= claim[w][d].at
      BY <1>t, <3>1, <3>2
    <3> QED
      BY <1>0, <1>t, <2>2, <3>4, <3>5, OrderStays
  <2> QED
    BY <1>q, <2>3
<1>4. ASSUME NEW v \in Workers, NEW c \in Deliveries, Send(v, c) PROVE LogIsInOrder'
  <2>1. /\ UNCHANGED <<status, leaseExpiresAt, attempts, now>>
        /\ claim' = [claim EXCEPT ![v][c] = [@ EXCEPT !.phase = "sending", !.at = now]]
    BY <1>4 DEF Send, rowVars
  <2>2. ASSUME NEW d \in Deliveries PROVE RowIsInOrder(d)'
    <3>1. \A w \in Workers :
             claim'[w][d] = claim[w][d] \/ claim'[w][d].at = now'
      BY <1>t, <2>1 DEF Task
    <3>2. \A w \in Workers : claim'[w][d] = claim[w][d] =>
             /\ Requesting(w, d)' = Requesting(w, d)
             /\ OwnsLease(w, d)' = OwnsLease(w, d)
      BY <2>1 DEF Requesting, OwnsLease
    <3> QED
      BY <1>0, <1>t, <2>1, <3>1, <3>2, OrderStays
  <2> QED
    BY <1>q, <2>2
<1>5. ASSUME NEW v \in Workers, NEW c \in Deliveries, ReceiverAccepts(v, c)
      PROVE  LogIsInOrder'
  <2>1. /\ UNCHANGED <<status, leaseExpiresAt, attempts, now>>
        /\ claim[v][c].phase = "sending"
        /\ claim' = [claim EXCEPT ![v][c] = [@ EXCEPT !.phase = "accepted"]]
    BY <1>5 DEF ReceiverAccepts, rowVars
  <2>2. ASSUME NEW d \in Deliveries PROVE RowIsInOrder(d)'
    <3>1. \A w \in Workers :
             /\ claim'[w][d].at = claim[w][d].at
             /\ claim'[w][d].lease = claim[w][d].lease
             /\ \/ claim'[w][d] = claim[w][d]
                \/ claim[w][d].phase = "sending"
      BY <1>t, <2>1 DEF Task
    <3>2. \A w \in Workers : Requesting(w, d)' => Requesting(w, d)
      BY <3>1 DEF Requesting
    <3>3. \A w \in Workers : OwnsLease(w, d)' = OwnsLease(w, d)
      BY <2>1, <3>1 DEF OwnsLease
    <3>4. \A w \in Workers : claim'[w][d].at <= claim[w][d].at
      BY <1>t, <3>1
    <3>5. \A w \in Workers : Requesting(w, d)' /\ OwnsLease(w, d)' =>
             /\ Requesting(w, d) /\ OwnsLease(w, d)
             /\ claim'[w][d].at = claim[w][d].at
      BY <3>1, <3>2, <3>3
    <3>6. attempts'[d] = attempts[d] /\ now' >= now
      BY <1>t, <2>1
    <3> QED
      BY <1>0, <3>4, <3>5, <3>6, OrderStays
  <2> QED
    BY <1>q, <2>2
<1>6. ASSUME NEW v \in Workers, NEW c \in Deliveries, RecordStale(v, c) \/ Crash
      PROVE  LogIsInOrder'
  <2>1. /\ UNCHANGED <<status, leaseExpiresAt, attempts, now>>
        /\ \A w \in Workers, d \in Deliveries :
              claim'[w][d] = claim[w][d] \/ claim'[w][d] = NoTask
    <3>1. CASE RecordStale(v, c)
      BY <1>t, <3>1 DEF RecordStale, EndTask, rowVars
    <3>2. CASE Crash
      BY <3>2 DEF Crash, rowVars
    <3> QED
      BY <1>6, <3>1, <3>2
  <2>2. ASSUME NEW d \in Deliveries PROVE RowIsInOrder(d)'
    <3>1. \A w \in Workers : claim'[w][d].at <= claim[w][d].at
      BY <1>t, <2>1 DEF NoTask
    <3>2. \A w \in Workers : Requesting(w, d)' /\ OwnsLease(w, d)' =>
             /\ Requesting(w, d) /\ OwnsLease(w, d)
             /\ claim'[w][d].at = claim[w][d].at
      BY <2>1 DEF NoTask, Requesting, OwnsLease
    <3> QED
      BY <1>0, <1>t, <2>1, <3>1, <3>2, OrderStays
  <2> QED
    BY <1>q, <2>2
<1>7. ASSUME NEW v \in Workers, NEW c \in Deliveries,
             RecordSuccess(v, c) \/ RecordFailure(v, c) \/ RecordDeadLetter(v, c)
      PROVE  LogIsInOrder'
  <2>1. PICK o \in {"succeeded", "failed", "dead_letter"} : InsertDeliveryAttempt(v, c, o)
    BY <1>7 DEF RecordSuccess, RecordFailure, RecordDeadLetter
  <2>2. /\ Requesting(v, c) /\ OwnsLease(v, c) /\ EndTask(v, c) /\ UNCHANGED now
        /\ \E s \in {"succeeded", "pending", "dead_letter"} :
              status' = [status EXCEPT ![c] = s]
        /\ leaseExpiresAt' = [leaseExpiresAt EXCEPT ![c] = None]
    BY <1>7 DEF RecordSuccess, RecordFailure, RecordDeadLetter, Requesting
  <2>3. status'[c] # "delivering"
    BY <2>2 DEF IInv, TypeOK
  <2>4. RowIsInOrder(c)'
    BY <1>0, <2>1, <2>2, <2>3, OrderRecord
  <2>5. ASSUME NEW d \in Deliveries, d # c PROVE RowIsInOrder(d)'
    <3>1. /\ attempts'[d] = attempts[d] /\ status'[d] = status[d]
          /\ leaseExpiresAt'[d] = leaseExpiresAt[d]
          /\ \A w \in Workers : claim'[w][d] = claim[w][d]
      BY <2>1, <2>2, <2>5 DEF EndTask, InsertDeliveryAttempt, LogAttempt, IInv, TypeOK
    <3>2. \A w \in Workers :
             /\ claim'[w][d].at <= claim[w][d].at
             /\ claim'[w][d].at = claim[w][d].at
             /\ Requesting(w, d)' = Requesting(w, d)
             /\ OwnsLease(w, d)' = OwnsLease(w, d)
      BY <1>t, <3>1 DEF Requesting, OwnsLease
    <3> QED
      BY <1>0, <1>t, <2>2, <3>1, <3>2, OrderStays
  <2> QED
    BY <1>q, <2>4, <2>5
<1>8. ASSUME \/ \E m \in Messages : RetryMessage(m)
             \/ \E e \in Endpoints : DeleteEndpoint(e)
      PROVE  LogIsInOrder'
  <2>1. ASSUME NEW d \in Deliveries PROVE RowIsInOrder(d)'
    <3>1. /\ attempts'[d] = attempts[d] \/ attempts'[d] = << >>
          /\ \/ status'[d] \in {"pending", "deleted"}
             \/ status'[d] = status[d] /\ leaseExpiresAt'[d] = leaseExpiresAt[d]
          /\ UNCHANGED <<now, claim>>
      BY <1>8 DEF RetryMessage, DeleteEndpoint
    <3>2. \A w \in Workers :
             /\ claim'[w][d].at <= claim[w][d].at
             /\ claim'[w][d].at = claim[w][d].at
             /\ Requesting(w, d)' = Requesting(w, d)
             /\ OwnsLease(w, d)' => OwnsLease(w, d)
      BY <1>t, <3>1 DEF Requesting, OwnsLease
    <3> QED
      BY <1>0, <1>t, <3>1, <3>2, OrderStays
  <2> QED
    BY <1>q, <2>1
<1>9. \/ UNCHANGED <<status, leaseExpiresAt, attempts, claim>> /\ now' >= now
      \/ \E d \in Deliveries : Enqueue(d)
      \/ \E w \in Workers : Claim(w)
      \/ \E w \in Workers, d \in Deliveries :
            Send(w, d) \/ ReceiverAccepts(w, d) \/ Record(w, d)
      \/ \E w \in Workers, d \in Deliveries : Crash
      \/ \E m \in Messages : RetryMessage(m)
      \/ \E e \in Endpoints : DeleteEndpoint(e)
  BY <1>t DEF Next, Tick, Crash, SetEnabled, vars, rowVars
<1> QED
  BY <1>1, <1>2, <1>3, <1>4, <1>5, <1>6, <1>7, <1>8, <1>9 DEF Record

(* The log of a delivery is in the order in which its requests were sent,  *)
(* so that listing its attempts by time lists the later ones first,        *)
(* whatever was recorded late (messages.ts:431-465).                       *)
THEOREM AttemptsFollowEachOther == Spec => []LogIsInOrder
<1>1. Init => LogIsInOrder
  BY OrderInit
<1>2. IInv /\ LogIsInOrder /\ [Next]_vars => LogIsInOrder'
  BY OrderNext
<1> QED
  BY <1>1, <1>2, QueueInductive, PTL DEF Spec

-----------------------------------------------------------------------------
(* The listings *)

IsOrder(B, S) ==
    /\ \A x \in S : <<x, x>> \notin B
    /\ \A x, y, z \in S : <<x, y>> \in B /\ <<y, z>> \in B => <<x, z>> \in B
    /\ \A x, y \in S : x # y => <<x, y>> \in B \/ <<y, x>> \in B

(* s is the rows of S, each once, in the order B.                          *)
Enumerates(s, S, B) ==
    /\ s \in Seq(S)
    /\ \A x \in S : \E i \in 1 .. Len(s) : s[i] = x
    /\ \A i, j \in 1 .. Len(s) : i < j => <<s[i], s[j]>> \in B

Earlier(S, before, x) == {y \in S : <<y, x>> \in before}

(* OrderBy enumerates a finite set, each of its members once, in the order *)
(* it is given, if that is a strict total order.                           *)
LEMMA OrderByEnumerates ==
  ASSUME NEW S, IsFiniteSet(S), NEW B, IsOrder(B, S)
  PROVE  Enumerates(OrderBy(S, B), S, B)
<1> USE DEF IsOrder
<1> DEFINE n == Cardinality(S)
           E(x) == Earlier(S, B, x)
           rank == [x \in S |-> Cardinality(E(x)) + 1]
<1>1. n \in Nat
  BY FS_CardinalityType
<1>2. \A x \in S : IsFiniteSet(E(x)) /\ Cardinality(E(x)) \in Nat
  <2>1. \A x \in S : E(x) \subseteq S
    BY DEF Earlier
  <2> HIDE DEF E
  <2>2. QED
    BY <2>1, FS_Subset, FS_CardinalityType
<1>3. \A x, y \in S : <<x, y>> \in B => Cardinality(E(x)) < Cardinality(E(y))
  <2> SUFFICES ASSUME NEW x \in S, NEW y \in S, <<x, y>> \in B
               PROVE  Cardinality(E(x)) < Cardinality(E(y))
    OBVIOUS
  <2>1. E(x) \cup {x} \subseteq E(y) /\ x \notin E(x)
    BY DEF Earlier
  <2> HIDE DEF E
  <2>2. IsFiniteSet(E(x) \cup {x}) /\ Cardinality(E(x) \cup {x}) = Cardinality(E(x)) + 1
    BY <1>2, <2>1, FS_AddElement
  <2>3. Cardinality(E(x) \cup {x}) <= Cardinality(E(y))
    BY <1>2, <2>1, FS_Subset
  <2> QED
    BY <1>2, <2>2, <2>3
<1>4. \A x \in S : Cardinality(E(x)) + 1 \in 1 .. n
  <2> SUFFICES ASSUME NEW x \in S PROVE Cardinality(E(x)) + 1 \in 1 .. n
    OBVIOUS
  <2>1. E(x) \cup {x} \subseteq S /\ x \notin E(x)
    BY DEF Earlier
  <2> HIDE DEF E
  <2>2. Cardinality(E(x) \cup {x}) = Cardinality(E(x)) + 1
    BY <1>2, <2>1, FS_AddElement
  <2>3. Cardinality(E(x) \cup {x}) <= n
    BY <2>1, FS_Subset
  <2> QED
    BY <1>1, <1>2, <2>2, <2>3
<1> HIDE DEF E
<1>e. \A x, y \in S : Cardinality(E(x)) = Cardinality(E(y)) => x = y
  <2> SUFFICES ASSUME NEW x \in S, NEW y \in S, x # y
               PROVE  Cardinality(E(x)) # Cardinality(E(y))
    OBVIOUS
  <2>1. CASE <<x, y>> \in B
    BY <1>2, <1>3, <2>1
  <2>2. CASE <<y, x>> \in B
    BY <1>2, <1>3, <2>2
  <2> QED
    BY <2>1, <2>2
<1>5. rank \in Injection(S, 1 .. n)
  <2>1. rank \in [S -> 1 .. n]
    BY <1>4
  <2>2. \A x, y \in S : rank[x] = rank[y] => x = y
    BY <1>2, <1>e
  <2> QED
    BY <2>1, <2>2 DEF Injection, IsInjective
<1>6. rank \in Surjection(S, 1 .. n)
  <2>1. IsFiniteSet(1 .. n) /\ Cardinality(1 .. n) = n
    BY <1>1, FS_Interval
  <2> HIDE DEF rank
  <2>2. Cardinality(S) = Cardinality(1 .. n)
    BY <2>1
  <2> QED
    BY <1>5, <2>1, <2>2, FS_Injection
<1>7. \A i \in 1 .. n : \E x \in S : Cardinality(E(x)) = i - 1
  <2> SUFFICES ASSUME NEW i \in 1 .. n PROVE \E x \in S : Cardinality(E(x)) = i - 1
    OBVIOUS
  <2>1. PICK x \in S : rank[x] = i
    BY <1>6 DEF Surjection
  <2> QED
    BY <1>2, <2>1
<1> DEFINE s == [i \in 1 .. n |-> CHOOSE x \in S : Cardinality(E(x)) = i - 1]
<1>8. OrderBy(S, B) = s
  BY DEF OrderBy, E, Earlier
<1>9. \A i \in 1 .. n : s[i] \in S /\ Cardinality(E(s[i])) = i - 1
  BY <1>7
<1>10. s \in Seq(S) /\ Len(s) = n /\ DOMAIN s = 1 .. n
  BY <1>1, <1>9
<1> HIDE DEF s
<1>11. \A x \in S : \E i \in 1 .. n : s[i] = x
  <2> SUFFICES ASSUME NEW x \in S PROVE \E i \in 1 .. n : s[i] = x
    OBVIOUS
  <2>1. Cardinality(E(x)) + 1 \in 1 .. n
    BY <1>4
  <2>2. /\ s[Cardinality(E(x)) + 1] \in S
        /\ Cardinality(E(s[Cardinality(E(x)) + 1])) = Cardinality(E(x))
    BY <1>2, <1>9, <2>1
  <2>3. s[Cardinality(E(x)) + 1] = x
    BY <1>e, <2>2
  <2> QED
    BY <2>1, <2>3
<1>12. \A i, j \in 1 .. n : i < j => <<s[i], s[j]>> \in B
  <2> SUFFICES ASSUME NEW i \in 1 .. n, NEW j \in 1 .. n, i < j
               PROVE  <<s[i], s[j]>> \in B
    OBVIOUS
  <2>1. s[i] \in S /\ s[j] \in S /\ Cardinality(E(s[i])) < Cardinality(E(s[j]))
    BY <1>9
  <2>2. s[i] # s[j] /\ ~(<<s[j], s[i]>> \in B)
    BY <1>2, <1>3, <2>1
  <2> QED
    BY <2>1, <2>2
<1> QED
  BY <1>8, <1>10, <1>11, <1>12 DEF Enumerates

(* A page: rows of S in the order B; its last row is its cursor, which has *)
(* the rest after it, and without a cursor there is no rest.               *)
IsPage(page, S, B) ==
    /\ page.data \in Seq(S)
    /\ \A i, j \in 1 .. Len(page.data) : i < j => <<page.data[i], page.data[j]>> \in B
    /\ page.nextCursor = None =>
          \A x \in S : \E i \in 1 .. Len(page.data) : page.data[i] = x
    /\ page.nextCursor # None =>
          /\ \E i \in 1 .. Len(page.data) :
                i = Len(page.data) /\ page.nextCursor = page.data[i]
          /\ \A x \in S : (\E i \in 1 .. Len(page.data) : page.data[i] = x)
                           \/ <<page.nextCursor, x>> \in B

LEMMA PagesAre ==
  ASSUME NEW S, IsFiniteSet(S), NEW B, IsOrder(B, S), None \notin S
  PROVE  IsPage(Page(OrderBy(S, B), PageLimit, None), S, B)
<1> SUFFICES ASSUME NEW page, page = Page(OrderBy(S, B), PageLimit, None)
             PROVE  IsPage(page, S, B)
  OBVIOUS
<1> USE DEF IsPage
<1> DEFINE s == OrderBy(S, B)
           L == PageLimit
<1>1. Enumerates(s, S, B)
  BY OrderByEnumerates
<1>l. L \in Nat \ {0}
  BY ReportsAssumption
<1> HIDE DEF s, L
<1>2. /\ s \in Seq(S) /\ Len(s) \in Nat
      /\ \A x \in S : \E i \in 1 .. Len(s) : s[i] = x
      /\ \A i, j \in 1 .. Len(s) : i < j => <<s[i], s[j]>> \in B
  BY <1>1 DEF Enumerates
<1>3. CASE Len(s) > L
  <2> DEFINE t == SubSeq(s, 1, L)
  <2>1. /\ L \in 1 .. Len(s) /\ t \in Seq(S) /\ Len(t) = L
        /\ \A i \in 1 .. L : t[i] = s[i] /\ i \in 1 .. Len(s)
    BY <1>2, <1>3, <1>l
  <2>2. s[L] \in S /\ s[L] # None
    BY <1>2, <2>1
  <2> HIDE DEF t
  <2>3. page.data = t /\ page.nextCursor = s[L]
    BY <1>3 DEF Page, s, t, L
  <2>4. ASSUME NEW x \in S
        PROVE  (\E i \in 1 .. L : t[i] = x) \/ <<s[L], x>> \in B
    <3>1. PICK i \in 1 .. Len(s) : s[i] = x
      BY <1>2
    <3>2. CASE i <= L
      BY <1>l, <2>1, <3>1, <3>2
    <3>3. CASE L < i
      BY <1>2, <2>1, <3>1, <3>3
    <3> QED
      BY <1>2, <1>l, <3>2, <3>3
  <2>5. L \in 1 .. Len(t) /\ t[L] = s[L]
    BY <1>l, <2>1
  <2>6. \A i, j \in 1 .. Len(t) : i < j => <<t[i], t[j]>> \in B
    BY <1>2, <2>1
  <2> QED
    BY <2>1, <2>2, <2>3, <2>4, <2>5, <2>6
<1>4. CASE ~(Len(s) > L)
  <2>1. page.data = s /\ page.nextCursor = None
    BY <1>4 DEF Page, s, L
  <2> QED
    BY <1>2, <2>1
<1> QED
  BY <1>3, <1>4

LEMMA IdsTell ==
  ASSUME NEW S, IsFiniteSet(S), NEW f \in RandomIds(S)
  PROVE  /\ \A x \in S : f[x] \in Nat
         /\ \A x, y \in S : f[x] = f[y] => x = y
<1>1. Cardinality(S) \in Nat
  BY FS_CardinalityType
<1> QED
  BY <1>1 DEF RandomIds

AttemptedAt(x) == attempts[x[1]][x[2]].at

LEMMA AttemptRowsAre ==
  ASSUME TypeOK, LogIsFinite, NEW m
  PROVE  /\ IsFiniteSet(AttemptRows(m))
         /\ None \notin AttemptRows(m)
         /\ \A x \in AttemptRows(m) :
               /\ x = <<x[1], x[2]>> /\ x[1] \in Deliveries
               /\ x[2] \in 1 .. Len(attempts[x[1]])
               /\ AttemptedAt(x) \in Nat /\ x[2] \in Nat
<1>1. \A d \in Deliveries : /\ DOMAIN attempts[d] = 1 .. Len(attempts[d])
                            /\ Len(attempts[d]) \in Nat
                            /\ \A i \in 1 .. Len(attempts[d]) : attempts[d][i].at \in Nat
  <2> SUFFICES ASSUME NEW d \in Deliveries
               PROVE  /\ DOMAIN attempts[d] = 1 .. Len(attempts[d])
                      /\ Len(attempts[d]) \in Nat
                      /\ \A i \in 1 .. Len(attempts[d]) : attempts[d][i].at \in Nat
    OBVIOUS
  <2>1. attempts[d] \in Seq(AttemptRow)
    BY DEF TypeOK
  <2>2. \A i \in 1 .. Len(attempts[d]) : attempts[d][i] \in AttemptRow
    BY <2>1
  <2> QED
    BY <2>1, <2>2 DEF AttemptRow
<1>2. AttemptRows(m) \subseteq LoggedAttempts
  BY DEF AttemptRows, LoggedAttempts
<1>3. IsFiniteSet(AttemptRows(m))
  BY <1>2, FS_Subset DEF LogIsFinite
<1>4. ASSUME NEW x \in AttemptRows(m)
      PROVE  /\ x = <<x[1], x[2]>> /\ x[1] \in Deliveries
             /\ x[2] \in 1 .. Len(attempts[x[1]])
             /\ AttemptedAt(x) \in Nat /\ x[2] \in Nat
  <2>1. PICK d \in Deliveries : x \in {d} \X DOMAIN attempts[d]
    BY DEF AttemptRows
  <2>2. x = <<x[1], x[2]>> /\ x[1] = d /\ x[2] \in 1 .. Len(attempts[d])
    BY <1>1, <2>1
  <2> QED
    BY <1>1, <2>2 DEF AttemptedAt
<1>5. AttemptRows(m) \subseteq Deliveries \X Nat
  BY <1>4
<1> QED
  BY <1>3, <1>4, <1>5, ReportsAssumption

LEMMA AttemptOrderIs ==
  ASSUME NEW id, NEW m, NEW x \in AttemptRows(m), NEW y \in AttemptRows(m)
  PROVE  <<x, y>> \in LastAttemptFirst(id, m) <=>
            \/ AttemptedAt(x) > AttemptedAt(y)
            \/ AttemptedAt(x) = AttemptedAt(y) /\ id[x] > id[y]
<1>1. <<x, y>> \in LastAttemptFirst(id, m) <=> IsNewer(id, x, y)
  BY DEF LastAttemptFirst
<1> QED
  BY <1>1 DEF IsNewer, AttemptedAt

LEMMA AttemptTimeIsAnOrder ==
  ASSUME TypeOK, LogIsFinite, NEW m, NEW id \in RandomIds(AttemptRows(m))
  PROVE  IsOrder(LastAttemptFirst(id, m), AttemptRows(m))
<1> DEFINE S == AttemptRows(m)
           B == LastAttemptFirst(id, m)
           Newer(x, y) ==
              \/ AttemptedAt(x) > AttemptedAt(y)
              \/ AttemptedAt(x) = AttemptedAt(y) /\ id[x] > id[y]
<1>1. /\ \A x \in S : AttemptedAt(x) \in Nat /\ id[x] \in Nat
      /\ \A x, y \in S : id[x] = id[y] => x = y
  BY AttemptRowsAre, IdsTell
<1>2. \A x, y \in S : <<x, y>> \in B <=> Newer(x, y)
  BY AttemptOrderIs
<1> HIDE DEF S, B
<1>3. \A x \in S : ~Newer(x, x)
  BY <1>1
<1>4. ASSUME NEW x \in S, NEW y \in S, NEW z \in S, Newer(x, y), Newer(y, z)
      PROVE  Newer(x, z)
  BY <1>1, <1>4
<1>5. ASSUME NEW x \in S, NEW y \in S, x # y
      PROVE  Newer(x, y) \/ Newer(y, x)
  <2>1. id[x] # id[y]
    BY <1>1, <1>5
  <2> QED
    BY <1>1, <2>1
<1> HIDE DEF Newer
<1>6. IsOrder(B, S)
  BY <1>2, <1>3, <1>4, <1>5 DEF IsOrder
<1> QED
  BY <1>6 DEF B, S

(* Of two attempts at one delivery the later one is listed first.          *)
LEMMA LaterIsListedFirst ==
  ASSUME TypeOK, LogIsFinite, LogIsInOrder, NEW m, NEW id,
         NEW x \in AttemptRows(m), NEW y \in AttemptRows(m), x[1] = y[1],
         <<x, y>> \in LastAttemptFirst(id, m)
  PROVE  x[2] > y[2] \/ AttemptedAt(x) = AttemptedAt(y)
<1>1. /\ x[1] \in Deliveries
      /\ x[2] \in 1 .. Len(attempts[x[1]]) /\ y[2] \in 1 .. Len(attempts[x[1]])
      /\ x[2] \in Nat /\ y[2] \in Nat
      /\ AttemptedAt(x) \in Nat /\ AttemptedAt(y) \in Nat
  BY AttemptRowsAre
<1>2. AttemptedAt(x) >= AttemptedAt(y)
  <2>1. \/ AttemptedAt(x) > AttemptedAt(y)
        \/ AttemptedAt(x) = AttemptedAt(y) /\ id[x] > id[y]
    BY AttemptOrderIs
  <2> QED
    BY <1>1, <2>1
<1>3. x[2] < y[2] => AttemptedAt(x) <= AttemptedAt(y)
  BY <1>1 DEF LogIsInOrder, RowIsInOrder, AttemptedAt
<1>4. x[2] = y[2] => AttemptedAt(x) = AttemptedAt(y)
  BY DEF AttemptedAt
<1> QED
  BY <1>1, <1>2, <1>3, <1>4

LEMMA OrderedIsLastFirst ==
  ASSUME TypeOK, LogIsFinite, LogIsInOrder, NEW m, NEW id,
         NEW s \in Seq(AttemptRows(m)),
         \A i, j \in 1 .. Len(s) : i < j => <<s[i], s[j]>> \in LastAttemptFirst(id, m)
  PROVE  IsLastFirst(s)
<1>1. ASSUME NEW i \in 1 .. Len(s), NEW j \in 1 .. Len(s), i < j, s[i][1] = s[j][1]
      PROVE  s[i][2] > s[j][2] \/ AttemptedAt(s[i]) = AttemptedAt(s[j])
  <2>1. PICK x \in AttemptRows(m) : x = s[i]
    OBVIOUS
  <2>2. PICK y \in AttemptRows(m) : y = s[j]
    OBVIOUS
  <2>3. <<x, y>> \in LastAttemptFirst(id, m) /\ x[1] = y[1]
    BY <1>1, <2>1, <2>2
  <2>4. x[2] > y[2] \/ AttemptedAt(x) = AttemptedAt(y)
    BY <2>3, LaterIsListedFirst
  <2> QED
    BY <2>1, <2>2, <2>4
<1>2. DOMAIN s = 1 .. Len(s)
  OBVIOUS
<1> QED
  BY <1>1, <1>2 DEF IsLastFirst, AttemptedAt

LEMMA AttemptPagesDoAgree ==
  ASSUME TypeOK, LogIsFinite, LogIsInOrder
  PROVE  AttemptsAreInOrder
<1> SUFFICES ASSUME NEW m \in Messages, NEW id \in RandomIds(AttemptRows(m))
             PROVE  /\ IsLastFirst(ListMessageAttempts(id, m, None).data)
                    /\ \A cursor \in AttemptRows(m) :
                          IsLastFirst(<<cursor>> \o ListMessageAttempts(id, m, cursor).data)
  BY DEF AttemptsAreInOrder
<1> DEFINE S == AttemptRows(m)
           B == LastAttemptFirst(id, m)
           Rest(c) == {x \in S : c = None \/ <<c, x>> \in B}
<1>1. IsFiniteSet(S) /\ None \notin S /\ IsOrder(B, S)
  BY AttemptRowsAre, AttemptTimeIsAnOrder
<1>2. ASSUME NEW c, NEW s, s = ListMessageAttempts(id, m, c).data
      PROVE  /\ s \in Seq(Rest(c))
             /\ \A i, j \in 1 .. Len(s) : i < j => <<s[i], s[j]>> \in B
  <2>1. ListMessageAttempts(id, m, c) = Page(OrderBy(Rest(c), B), PageLimit, None)
    BY DEF ListMessageAttempts, PageAfter
  <2> HIDE DEF S, B
  <2>2. Rest(c) \subseteq S
    OBVIOUS
  <2> HIDE DEF Rest
  <2>3. IsFiniteSet(Rest(c)) /\ None \notin Rest(c) /\ IsOrder(B, Rest(c))
    <3>1. IsFiniteSet(Rest(c))
      BY <1>1, <2>2, FS_Subset
    <3>2. IsOrder(B, Rest(c))
      BY <1>1, <2>2 DEF IsOrder
    <3> QED
      BY <1>1, <2>2, <3>1, <3>2
  <2>4. IsPage(Page(OrderBy(Rest(c), B), PageLimit, None), Rest(c), B)
    BY <2>3, PagesAre
  <2> QED
    BY <1>2, <2>1, <2>4 DEF IsPage
<1>3. \A c : Rest(c) \subseteq S
  OBVIOUS
<1>4. IsLastFirst(ListMessageAttempts(id, m, None).data)
  <2>1. PICK s : s = ListMessageAttempts(id, m, None).data
    OBVIOUS
  <2>2. s \in Seq(Rest(None)) /\ \A i, j \in 1 .. Len(s) : i < j => <<s[i], s[j]>> \in B
    BY <1>2, <2>1
  <2> HIDE DEF Rest
  <2>3. s \in Seq(S)
    BY <1>3, <2>2
  <2> QED
    BY <2>1, <2>2, <2>3, OrderedIsLastFirst
<1>5. ASSUME NEW cursor \in S
      PROVE  IsLastFirst(<<cursor>> \o ListMessageAttempts(id, m, cursor).data)
  <2>1. PICK s : s = ListMessageAttempts(id, m, cursor).data
    OBVIOUS
  <2>2. s \in Seq(Rest(cursor)) /\ \A i, j \in 1 .. Len(s) : i < j => <<s[i], s[j]>> \in B
    BY <1>2, <2>1
  <2>3. cursor # None
    BY <1>1
  <2> HIDE DEF S, B
  <2>4. \A x \in Rest(cursor) : <<cursor, x>> \in B
    BY <2>3
  <2> HIDE DEF Rest
  <2> DEFINE t == <<cursor>> \o s
  <2>5. s \in Seq(S)
    BY <1>3, <2>2
  <2>6. /\ t \in Seq(S) /\ Len(t) = Len(s) + 1 /\ Len(s) \in Nat
        /\ t[1] = cursor /\ \A i \in 2 .. Len(t) : i - 1 \in 1 .. Len(s) /\ t[i] = s[i - 1]
    BY <2>5
  <2> HIDE DEF t
  <2>7. ASSUME NEW i \in 1 .. Len(t), NEW j \in 1 .. Len(t), i < j
        PROVE  <<t[i], t[j]>> \in B
    <3>1. j \in 2 .. Len(t) /\ t[j] = s[j - 1] /\ j - 1 \in 1 .. Len(s)
      BY <2>6, <2>7
    <3>2. CASE i = 1
      <4>1. s[j - 1] \in Rest(cursor)
        BY <2>2, <3>1
      <4> QED
        BY <2>4, <2>6, <3>1, <3>2, <4>1
    <3>3. CASE i # 1
      <4>1. i \in 2 .. Len(t) /\ i - 1 \in 1 .. Len(s) /\ t[i] = s[i - 1] /\ i - 1 < j - 1
        BY <2>6, <2>7, <3>3
      <4> QED
        BY <2>2, <3>1, <4>1
    <3> QED
      BY <3>2, <3>3
  <2>8. IsLastFirst(t)
    BY <2>6, <2>7, OrderedIsLastFirst DEF S, B
  <2> QED
    BY <2>1, <2>8 DEF t
<1> QED
  BY <1>4, <1>5

(* Whatever raced, crashed and was retried before, the pages of attempts,  *)
(* the statistics and the metrics tell one story (F-0020.md:112-119).      *)
THEOREM ReportsDoAgree == Spec => []ReportsAgree
<1>1. Init => LogIsFinite /\ AttemptsAreMetered /\ MeterTellsDeletions
  <2>1. Init => LogIsFinite /\ AttemptsAreMetered
    BY MeterInit
  <2>2. Init => MeterTellsDeletions
    <3> SUFFICES ASSUME Init PROVE MeterTellsDeletions
      OBVIOUS
    <3>1. LoggedAttempts = {}
      BY DEF Init, LoggedAttempts
    <3>2. DeliveriesTotal = 0
      BY <3>1, FS_EmptySet DEF DeliveriesTotal
    <3> QED
      BY <3>2 DEF Init, MeterTellsDeletions
  <2> QED
    BY <2>1, <2>2
<1>2. IInv /\ LogIsFinite /\ AttemptsAreMetered /\ MeterTellsDeletions /\ [Next]_vars
         => LogIsFinite' /\ AttemptsAreMetered' /\ MeterTellsDeletions'
  BY MeterNext, MeterTellsNext
<1>3. IInv /\ AuditTrail /\ LogIsPlaced /\ LogIsInOrder /\ LogIsFinite
        /\ AttemptsAreMetered /\ MeterTellsDeletions => ReportsAgree
  <2> SUFFICES ASSUME IInv, AuditTrail, LogIsPlaced, LogIsInOrder, LogIsFinite,
                      AttemptsAreMetered, MeterTellsDeletions
               PROVE  ReportsAgree
    OBVIOUS
  <2>1. IsFiniteSet(Deliveries) /\ IsFiniteSet(Endpoints) /\ TypeOK
    BY ReportsAssumption DEF IInv
  <2>2. AttemptsAreInOrder
    BY <2>1, AttemptPagesDoAgree
  <2>3. StatisticsAgree
    BY <2>1, StatisticsDoAgree
  <2>4. MetricsAgree
    BY <2>1, MetricsDoAgree
  <2> QED
    BY <2>2, <2>3, <2>4 DEF ReportsAgree
<1> QED
  BY <1>1, <1>2, <1>3, QueueInductive, AuditTrailIsComplete, EveryAttemptIsPlaced,
     AttemptsFollowEachOther, PTL DEF Spec
-----------------------------------------------------------------------------
(* A client of any listing, of ListingReader                               *)

CONSTANTS Rows, Queries, Before
VARIABLES matching, walk

Reader == INSTANCE ListingReader

(* What a page is cut from, and what it is for.                            *)
Following(w) ==
    {x \in matching[w.query] : w.cursor = None \/ <<w.cursor, x>> \in Before}

Shown(w) == {w.shown[i] : i \in DOMAIN w.shown}

WalkType ==
    [query : Queries, cursor : Rows \cup {None}, shown : Seq(Rows),
     stayed : SUBSET Rows, ended : BOOLEAN]

IsInOrder(s) == \A i, j \in 1 .. Len(s) : i < j => <<s[i], s[j]>> \in Before

(* A walk that may take a page: what was shown comes before all that       *)
(* follows the cursor, and what stayed but was not shown follows it.       *)
MayTakePage(w) ==
    /\ w \in WalkType
    /\ w.stayed \subseteq matching[w.query]
    /\ IsInOrder(w.shown)
    /\ \A i \in 1 .. Len(w.shown), x \in Rows :
          w.cursor = None \/ <<w.cursor, x>> \in Before => <<w.shown[i], x>> \in Before
    /\ \A x \in w.stayed : x \in Shown(w) \/ x \in Following(w)

(* The inductive invariant.                                                *)
WalkInv ==
    /\ matching \in [Queries -> SUBSET Rows]
    /\ walk \in WalkType
    /\ walk.stayed \subseteq matching[walk.query]
    /\ IsInOrder(walk.shown)
    /\ IF walk.ended THEN walk.stayed \subseteq Shown(walk) ELSE MayTakePage(walk)

LEMMA WalkTakesPage ==
  ASSUME Reader!IsListing, matching \in [Queries -> SUBSET Rows],
         NEW w, MayTakePage(w), UNCHANGED matching, walk' = Reader!TakePage(w)
  PROVE  WalkInv'
<1> DEFINE S == Following(w)
           page == PageAfter(matching[w.query], Before, w.cursor, PageLimit, None)
           s == w.shown
           r == page.data
           c == page.nextCursor
           t == s \o r
<1>1. /\ w.query \in Queries /\ w.cursor \in Rows \cup {None} /\ s \in Seq(Rows)
      /\ w.stayed \in SUBSET Rows /\ matching[w.query] \in SUBSET Rows
  BY DEF MayTakePage, WalkType
<1>2. S \subseteq Rows /\ IsFiniteSet(S) /\ None \notin S /\ IsOrder(Before, S)
  <2>1. S \subseteq Rows
    BY <1>1 DEF Following
  <2>2. IsFiniteSet(S)
    <3>1. IsFiniteSet(Rows)
      BY Zenon DEF Reader!IsListing, Reader!IsFiniteSet, IsFiniteSet
    <3> QED
      BY <2>1, <3>1, FS_Subset
  <2> HIDE DEF S
  <2> QED
    BY <2>1, <2>2 DEF Reader!IsListing, IsOrder
<1>3. page = Page(OrderBy(S, Before), PageLimit, None)
  BY DEF PageAfter, Following
<1> HIDE DEF S, page
<1>4. /\ r \in Seq(S)
      /\ \A i, j \in 1 .. Len(r) : i < j => <<r[i], r[j]>> \in Before
      /\ c = None => \A x \in S : \E i \in 1 .. Len(r) : r[i] = x
      /\ c # None => /\ \E i \in 1 .. Len(r) : i = Len(r) /\ c = r[i]
                     /\ \A x \in S : (\E i \in 1 .. Len(r) : r[i] = x) \/ <<c, x>> \in Before
  <2>1. IsPage(page, S, Before)
    BY <1>2, <1>3, PagesAre
  <2> QED
    BY <2>1 DEF IsPage
<1>5. PICK v : v = walk'
  OBVIOUS
<1>6. v = [w EXCEPT !.shown = @ \o r, !.cursor = c, !.ended = (c = None)]
  <2>1. Reader!PageAfter(matching[w.query], Before, w.cursor, PageLimit, None) = page
    BY Zenon DEF page, Reader!PageAfter, PageAfter, Reader!Page, Page, Reader!OrderBy, OrderBy,
       Reader!Cardinality, Cardinality, Reader!IsFiniteSet, IsFiniteSet
  <2> QED
    BY <1>5, <2>1, Zenon DEF Reader!TakePage
<1>7. w \in WalkType
  BY DEF MayTakePage
<1> HIDE DEF r, c
<1>8. /\ v.query = w.query /\ v.stayed = w.stayed /\ v.cursor = c
      /\ v.shown = t /\ v.ended = (c = None)
  BY <1>6, <1>7 DEF WalkType
<1>9. /\ \A i \in 1 .. Len(r) : r[i] \in S /\ r[i] \in Rows
      /\ r \in Seq(Rows)
  BY <1>2, <1>4
<1>10. /\ t \in Seq(Rows) /\ Len(t) = Len(s) + Len(r)
       /\ Len(s) \in Nat /\ Len(r) \in Nat
       /\ \A i \in 1 .. Len(s) : t[i] = s[i] /\ i \in 1 .. Len(t)
       /\ \A i \in 1 .. Len(r) : t[Len(s) + i] = r[i] /\ Len(s) + i \in 1 .. Len(t)
       /\ \A i \in 1 .. Len(t) : i > Len(s) =>
             i - Len(s) \in 1 .. Len(r) /\ t[i] = r[i - Len(s)]
  BY <1>1, <1>9
<1> HIDE DEF s, t
<1>11. c \in Rows \cup {None}
  BY <1>4, <1>9
<1>12. v \in WalkType
  <2>1. v = [query |-> w.query, cursor |-> c, shown |-> t, stayed |-> w.stayed,
             ended |-> (c = None)]
    BY <1>6, <1>7 DEF WalkType, s, t
  <2>2. (c = None) \in BOOLEAN
    OBVIOUS
  <2> QED
    BY <1>1, <1>10, <1>11, <2>1, <2>2, Zenon DEF WalkType
<1>13. ASSUME NEW i \in 1 .. Len(s), NEW x \in S PROVE <<s[i], x>> \in Before
  <2>1. x \in Rows /\ (w.cursor = None \/ <<w.cursor, x>> \in Before)
    BY <1>2 DEF S, Following
  <2> QED
    BY <1>13, <2>1 DEF MayTakePage, s
<1>14. IsInOrder(t)
  <2> SUFFICES ASSUME NEW i \in 1 .. Len(t), NEW j \in 1 .. Len(t), i < j
               PROVE  <<t[i], t[j]>> \in Before
    BY DEF IsInOrder
  <2>1. CASE j <= Len(s)
    <3>1. i \in 1 .. Len(s) /\ j \in 1 .. Len(s)
      BY <1>10, <2>1
    <3>2. <<s[i], s[j]>> \in Before
      BY <3>1 DEF MayTakePage, IsInOrder, s
    <3> QED
      BY <1>10, <3>1, <3>2
  <2>2. CASE i <= Len(s) /\ j > Len(s)
    <3>1. i \in 1 .. Len(s) /\ t[i] = s[i] /\ t[j] \in S
      BY <1>9, <1>10, <2>2
    <3> QED
      BY <1>13, <3>1
  <2>3. CASE i > Len(s)
    <3>1. /\ i - Len(s) \in 1 .. Len(r) /\ t[i] = r[i - Len(s)]
          /\ j - Len(s) \in 1 .. Len(r) /\ t[j] = r[j - Len(s)]
          /\ i - Len(s) < j - Len(s)
      BY <1>10, <2>3
    <3> QED
      BY <1>4, <3>1
  <2> QED
    BY <1>10, <2>1, <2>2, <2>3
<1>15. /\ DOMAIN s = 1 .. Len(s) /\ DOMAIN t = 1 .. Len(t)
       /\ \A x : x \in Shown(w) => \E i \in 1 .. Len(t) : t[i] = x
       /\ \A x : (\E i \in 1 .. Len(r) : r[i] = x) => \E i \in 1 .. Len(t) : t[i] = x
  <2>1. DOMAIN s = 1 .. Len(s) /\ DOMAIN t = 1 .. Len(t)
    BY <1>1, <1>10 DEF s
  <2>2. \A x : x \in Shown(w) => \E i \in 1 .. Len(s) : s[i] = x
    BY <2>1 DEF Shown, s
  <2> QED
    BY <1>10, <2>1, <2>2
<1>16. \A x : x \in Shown(v) <=> \E i \in 1 .. Len(t) : t[i] = x
  BY <1>8, <1>15 DEF Shown
<1>17. \A x \in w.stayed : x \in Shown(w) \/ x \in S
  BY DEF MayTakePage, S
<1>18. c = None => v.stayed \subseteq Shown(v)
  BY <1>4, <1>8, <1>15, <1>16, <1>17
<1>19. c # None => MayTakePage(v)
  <2> SUFFICES ASSUME c # None PROVE MayTakePage(v)
    OBVIOUS
  <2>1. PICK n \in 1 .. Len(r) : n = Len(r) /\ c = r[n]
    BY <1>4
  <2>2. c \in S /\ c \in Rows
    BY <1>9, <2>1
  <2>3. ASSUME NEW i \in 1 .. Len(t), NEW x \in Rows, <<c, x>> \in Before
        PROVE  <<t[i], x>> \in Before
    <3>1. t[i] = c \/ <<t[i], c>> \in Before
      <4>1. CASE i <= Len(s)
        <5>1. i \in 1 .. Len(s) /\ t[i] = s[i]
          BY <1>10, <4>1
        <5> QED
          BY <1>13, <2>2, <5>1
      <4>2. CASE i > Len(s)
        <5>1. i - Len(s) \in 1 .. Len(r) /\ t[i] = r[i - Len(s)]
          BY <1>10, <4>2
        <5>2. i - Len(s) = n \/ i - Len(s) < n
          BY <1>10, <2>1, <5>1
        <5> QED
          BY <1>4, <2>1, <5>1, <5>2
      <4> QED
        BY <1>10, <4>1, <4>2
    <3>2. t[i] \in Rows
      BY <1>10
    <3> QED
      BY <2>2, <2>3, <3>1, <3>2 DEF Reader!IsListing
  <2>4. ASSUME NEW x \in v.stayed PROVE x \in Shown(v) \/ x \in Following(v)
    <3>1. x \in w.stayed /\ x \in matching[w.query]
      BY <1>8 DEF MayTakePage
    <3>2. CASE x \in Shown(w)
      BY <1>15, <1>16, <3>2
    <3>3. CASE x \in S
      <4>1. (\E i \in 1 .. Len(r) : r[i] = x) \/ <<c, x>> \in Before
        BY <1>4, <3>3
      <4>2. <<c, x>> \in Before => x \in Following(v)
        BY <1>8, <3>1 DEF Following
      <4> QED
        BY <1>15, <1>16, <4>1, <4>2
    <3> QED
      BY <1>17, <3>1, <3>2, <3>3
  <2>5. v.stayed \subseteq matching[v.query]
    BY <1>8 DEF MayTakePage
  <2>6. \A i \in 1 .. Len(v.shown), x \in Rows :
           v.cursor = None \/ <<v.cursor, x>> \in Before => <<v.shown[i], x>> \in Before
    BY <1>8, <2>3
  <2>7. IsInOrder(v.shown)
    BY <1>8, <1>14
  <2> QED
    BY <1>12, <2>4, <2>5, <2>6, <2>7 DEF MayTakePage
<1>20. /\ v.stayed \subseteq matching[v.query] /\ IsInOrder(v.shown)
       /\ IF v.ended THEN v.stayed \subseteq Shown(v) ELSE MayTakePage(v)
  BY <1>8, <1>14, <1>18, <1>19 DEF MayTakePage
<1>21. matching' = matching
  OBVIOUS
<1> QED
  BY <1>5, <1>12, <1>20, <1>21 DEF WalkInv, MayTakePage, Following

(* Rows that leave the query leave what the client is entitled to.         *)
LEMMA WalkObserves ==
  ASSUME WalkInv, matching' \in [Queries -> SUBSET Rows], Reader!Observes
  PROVE  WalkInv'
<1>1. PICK v : v = walk'
  OBVIOUS
<1>2. PICK m : m = matching'
  OBVIOUS
<1>3. v = [walk EXCEPT !.stayed = @ \cap m[walk.query]]
  BY <1>1, <1>2 DEF Reader!Observes
<1>4. /\ walk \in WalkType /\ m \in [Queries -> SUBSET Rows]
  BY <1>2 DEF WalkInv
<1>5. /\ v.query = walk.query /\ v.cursor = walk.cursor /\ v.shown = walk.shown
      /\ v.ended = walk.ended /\ v.stayed = walk.stayed \cap m[walk.query]
  BY <1>3, <1>4 DEF WalkType
<1>6. v \in WalkType
  BY <1>3, <1>4 DEF WalkType
<1>7. IsInOrder(v.shown)
  BY <1>5 DEF WalkInv
<1>8. v.ended => v.stayed \subseteq Shown(v)
  BY <1>5 DEF WalkInv, Shown
<1>9. ~v.ended =>
        /\ \A i \in 1 .. Len(v.shown), x \in Rows :
              v.cursor = None \/ <<v.cursor, x>> \in Before => <<v.shown[i], x>> \in Before
        /\ \A x \in v.stayed :
              \/ x \in Shown(v)
              \/ x \in m[v.query] /\ (v.cursor = None \/ <<v.cursor, x>> \in Before)
  BY <1>5 DEF WalkInv, MayTakePage, Shown, Following
<1> QED
  BY <1>1, <1>2, <1>4, <1>5, <1>6, <1>7, <1>8, <1>9
  DEF WalkInv, MayTakePage, Following

(* Whatever enters and leaves a query between two pages, in any listing    *)
(* whose order is fixed by created_at and id (deliveries.ts:86-124,        *)
(* endpoint-observability.ts:90-134, messages.ts:318-363, 431-475): the    *)
(* pages show the rows in order, none twice, and none is missing that      *)
(* matched throughout.                                                     *)
THEOREM PagesMissNothing ==
  ASSUME Reader!IsListing
  PROVE  Reader!WalkSpec => []Reader!WalkIsWhole
<1>1. matching \in [Queries -> SUBSET Rows] /\ Reader!WalkInit => WalkInv
  <2> SUFFICES ASSUME matching \in [Queries -> SUBSET Rows],
                      NEW q \in Queries, walk = Reader!NoWalk(q)
               PROVE  WalkInv
    BY DEF Reader!WalkInit
  <2>1. walk \in WalkType
    BY DEF WalkType, Reader!NoWalk
  <2>2. walk.stayed = {} /\ walk.ended = TRUE /\ walk.shown = << >>
    BY DEF Reader!NoWalk
  <2> QED
    BY <2>1, <2>2 DEF WalkInv, IsInOrder
<1>2. WalkInv /\ [Reader!WalkNext]_<<matching, walk>> => WalkInv'
  <2> SUFFICES ASSUME WalkInv,
                      [Reader!WalkNext]_<<matching, walk>>
               PROVE  WalkInv'
    OBVIOUS
  <2>1. CASE matching' \in [Queries -> SUBSET Rows] /\ Reader!Observes
    BY <2>1, WalkObserves
  <2>2. ASSUME UNCHANGED matching, NEW q \in Queries, Reader!FirstPage(q)
        PROVE  WalkInv'
    <3> DEFINE w == [Reader!NoWalk(q) EXCEPT !.stayed = matching[q]]
    <3>1. walk' = Reader!TakePage(w)
      BY <2>2 DEF Reader!FirstPage
    <3>2. matching[q] \in SUBSET Rows
      BY DEF WalkInv
    <3>3. /\ w.query = q /\ w.cursor = None /\ w.shown = << >>
          /\ w.stayed = matching[q] /\ w \in WalkType
      <4>1. PICK n : n = Reader!NoWalk(q)
        OBVIOUS
      <4>2. /\ n.query = q /\ n.cursor = None /\ n.shown = << >> /\ n \in WalkType
        BY <4>1 DEF Reader!NoWalk, WalkType
      <4>3. w = [n EXCEPT !.stayed = matching[q]]
        BY <4>1
      <4> HIDE DEF w
      <4> QED
        BY <3>2, <4>2, <4>3 DEF WalkType
    <3> HIDE DEF w
    <3>4. MayTakePage(w)
      BY <3>3 DEF MayTakePage, IsInOrder, Following
    <3> QED
      BY <2>2, <3>1, <3>4, WalkTakesPage DEF WalkInv
  <2>3. CASE UNCHANGED matching /\ Reader!NextPage
    <3>1. MayTakePage(walk) /\ walk' = Reader!TakePage(walk)
      BY <2>3 DEF Reader!NextPage, WalkInv
    <3> QED
      BY <2>3, <3>1, WalkTakesPage DEF WalkInv
  <2>4. CASE UNCHANGED <<matching, walk>>
    BY <2>4 DEF WalkInv, MayTakePage, Following, Shown, IsInOrder
  <2> QED
    BY <2>1, <2>2, <2>3, <2>4 DEF Reader!WalkNext, Reader!Reads
<1>3. WalkInv => Reader!WalkIsWhole
  <2> SUFFICES ASSUME WalkInv PROVE Reader!WalkIsWhole
    OBVIOUS
  <2>1. DOMAIN walk.shown = 1 .. Len(walk.shown)
    BY DEF WalkInv, WalkType
  <2> QED
    BY <2>1 DEF WalkInv, IsInOrder, Shown, Reader!WalkIsWhole, Reader!ShownRows
<1> QED
  BY <1>1, <1>2, <1>3, PTL DEF Reader!WalkSpec
=============================================================================
