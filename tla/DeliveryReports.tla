--------------------------- MODULE DeliveryReports ---------------------------
(***************************************************************************)
(* What one request reads of the delivery queue: a page of a message's     *)
(* attempts (src/messages.ts), an endpoint's statistics                    *)
(* (src/endpoint-observability.ts) and the metrics (src/metrics.ts).       *)
(*                                                                         *)
(* They only read, each in one step, so they are operators over the state  *)
(* of DeliveryQueue.  Days, the length of durations and failure reasons    *)
(* are left out, and the statistics' window is as long as the behaviour.   *)
(* Listings of deliveries, which a client reads in several requests while  *)
(* the queue goes on, are in DeliveryListings.                             *)
(***************************************************************************)
EXTENDS DeliveryQueue, Listings, FiniteSetsExt

CONSTANT PageLimit  \* rows of a page

(* Tables are finite, and NULL is no row. *)
ASSUME ReportsAssumption ==
    /\ PageLimit \in Nat \ {0}
    /\ IsFiniteSet(Deliveries) /\ IsFiniteSet(Endpoints)
    /\ None \notin Deliveries /\ None \notin Deliveries \X Nat

(* Ids are random: they order rows in any way.                            *)
RandomIds(rows) ==
    {f \in [rows -> 1 .. Cardinality(rows)] :
        \A x, y \in rows : f[x] = f[y] => x = y}

-----------------------------------------------------------------------------
(* Attempts *)

(* listMessageAttempts, by the time of the attempt; ids break ties.        *)
IsNewer(id, x, y) ==
    LET at(z) == attempts[z[1]][z[2]].at
    IN  at(x) > at(y) \/ (at(x) = at(y) /\ id[x] > id[y])

AttemptRows(m) ==
    UNION {{d} \X DOMAIN attempts[d] : d \in {c \in Deliveries : MessageOf[c] = m}}

LastAttemptFirst(id, m) ==
    {p \in AttemptRows(m) \X AttemptRows(m) : IsNewer(id, p[1], p[2])}

ListMessageAttempts(id, m, cursor) ==
    PageAfter(AttemptRows(m), LastAttemptFirst(id, m), cursor, PageLimit, None)

-----------------------------------------------------------------------------
(* Statistics and metrics *)

RowsOf(e) == {d \in Deliveries : EndpointOf[d] = e /\ Live(d)}
InStatus(e, s) == {d \in RowsOf(e) : status[d] = s}

(* readStatusCounts *)
StatusCount(e, s) == Cardinality(InStatus(e, s))

(* The rows of delivery_attempts with this outcome, of an endpoint.        *)
OutcomeRows(e, outcome) ==
    UNION {{d} \X {i \in DOMAIN attempts[d] : attempts[d][i].outcome = outcome} :
              d \in RowsOf(e)}

LiveStatuses == {"pending", "delivering", "succeeded", "dead_letter"}

(* hasAverage is whether averageDurationMs is a number; failed and         *)
(* deadLettered are those of readDailyStats, summed over the days.         *)
GetEndpointDeliveryStats(e) ==
    LET byStatus == [s \in LiveStatuses |-> StatusCount(e, s)]
    IN  [byStatus |-> byStatus,
         total |-> byStatus["pending"] + byStatus["delivering"]
                        + byStatus["succeeded"] + byStatus["dead_letter"],
         hasAverage |-> OutcomeRows(e, "succeeded") # {},
         failed |-> Cardinality(OutcomeRows(e, "failed")),
         deadLettered |-> Cardinality(OutcomeRows(e, "dead_letter"))]

(* deliveryOutcomeCounts: posthorn_deliveries_total, all outcomes taken    *)
(* together.  Before it, a variant that adds up deliveries.attempt_count.  *)
AttemptCounts == MapThenSumSet(LAMBDA d : attemptCount[d], Deliveries)
DeliveriesTotal == Cardinality(LoggedAttempts)

(* deliveryStatusCounts: posthorn_delivery_tasks *)
DeliveryTasks(s) == Cardinality({d \in Deliveries : status[d] = s})

-----------------------------------------------------------------------------
(* A delivery's attempts come in the order in which they were recorded,    *)
(* the last one first, but those that were made at one moment.             *)
IsLastFirst(rows) ==
    \A i, j \in DOMAIN rows :
        i < j /\ rows[i][1] = rows[j][1] =>
            \/ rows[i][2] > rows[j][2]
            \/ attempts[rows[i][1]][rows[i][2]].at = attempts[rows[j][1]][rows[j][2]].at

AttemptsAreInOrder ==
    \A m \in Messages : \A id \in RandomIds(AttemptRows(m)) :
        /\ IsLastFirst(ListMessageAttempts(id, m, None).data)
        /\ \A cursor \in AttemptRows(m) :
              IsLastFirst(<<cursor>> \o ListMessageAttempts(id, m, cursor).data)

StatisticsAgree ==
    \A e \in Endpoints :
        LET stats == GetEndpointDeliveryStats(e)
        IN  /\ stats.total = Cardinality(RowsOf(e))
            /\ stats.hasAverage <=> stats.byStatus["succeeded"] > 0
            /\ stats.deadLettered >= stats.byStatus["dead_letter"]
            /\ stats.failed <= (AttemptBudget - 1) * (stats.total + stats.deadLettered)

MetricsAgree ==
    /\ \A s \in LiveStatuses :
          DeliveryTasks(s) =
              MapThenSumSet(LAMBDA e : StatusCount(e, s), Endpoints)
    /\ DeliveriesTotal <= metered
    /\ (\A d \in Deliveries : status[d] # "deleted") => DeliveriesTotal = metered

(* F-0020.md:112-119: whatever raced, crashed and was retried before, what *)
(* is computed from deliveries and what is computed from their attempts    *)
(* tell one story.  A page of attempts, and the cursor it was asked with,  *)
(* have a delivery's later attempts before its earlier ones; an endpoint   *)
(* has an average duration iff a delivery to it counts as succeeded, and   *)
(* at least as many fatal attempts as dead letters; no delivery fails more *)
(* often than its budget allows before each dead letter and since the      *)
(* last; and the metrics are the sums of the endpoints' statistics and of  *)
(* what was metered.  So posthorn_deliveries_total, a counter that         *)
(* metrics.ts:41 computes from rows, is what was metered until rows are    *)
(* deleted, through every retry that starts the count of attempts over.    *)
ReportsAgree == AttemptsAreInOrder /\ StatisticsAgree /\ MetricsAgree
=============================================================================
