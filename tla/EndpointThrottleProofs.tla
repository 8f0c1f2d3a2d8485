----------------------- MODULE EndpointThrottleProofs -----------------------
(***************************************************************************)
(* The throttle and the claim order, for every number of endpoints and     *)
(* deliveries, every limit, batch size and length of the window: windows   *)
(* keep to the limits, no second has more than twice a limit less one, and *)
(* no endpoint is held back but by its own limit or a full batch.          *)
(***************************************************************************)
EXTENDS EndpointThrottle, FiniteSetTheorems, WellFoundedInduction, SequenceTheorems, TLAPS

USE ThrottleAssumption

-----------------------------------------------------------------------------
(* The first k of a finite set in an order *)

(* The intervals up to the members of a set of naturals have a smallest.    *)
LEMMA LeastNatural ==
  ASSUME NEW T, T \subseteq Nat, T # {}
  PROVE  \E x \in T : \A y \in T : x <= y
<1> DEFINE R == StrictSubsetOrdering(Nat)
           F == {0 .. n : n \in T}
<1>1. IsWellFoundedOn(R, FiniteSubsetsOf(Nat))
  BY FS_StrictSubsetOrderingWellFounded
<1>2. F # {} /\ F \subseteq FiniteSubsetsOf(Nat)
  <2>1. ASSUME NEW n \in T PROVE 0 .. n \in FiniteSubsetsOf(Nat)
    <3>1. IsFiniteSet(0 .. n)
      BY FS_Interval
    <3>2. QED
      BY <3>1 DEF FiniteSubsetsOf
  <2>2. \A A \in F : A \in FiniteSubsetsOf(Nat)
    BY <2>1
  <2>3. PICK n \in T : TRUE
    OBVIOUS
  <2>4. 0 .. n \in F
    OBVIOUS
  <2>5. QED
    BY <2>2, <2>4
<1> HIDE DEF R
<1>3. PICK A \in F : \A B \in F : ~(<<B, A>> \in R)
  <2> HIDE DEF F
  <2>1. QED
    BY <1>1, <1>2, WFMin
<1>4. PICK x \in T : A = 0 .. x
  OBVIOUS
<1>5. ASSUME NEW y \in T, y < x PROVE FALSE
  <2>1. 0 .. y \in F /\ 0 .. y \subseteq 0 .. x /\ 0 .. y \in SUBSET Nat
        /\ 0 .. x \in SUBSET Nat
    BY <1>5
  <2>2. x \in 0 .. x /\ x \notin 0 .. y
    BY <1>5
  <2>3. <<0 .. y, 0 .. x>> \in R
    BY <2>1, <2>2 DEF R, StrictSubsetOrdering
  <2>4. QED
    BY <1>3, <1>4, <2>1, <2>3
<1> QED
  BY <1>4, <1>5

(* The rank of d in S, whose members have places in a line, counts those   *)
(* that come no later; TheFirst are those of rank up to k.                 *)
UpTo(S, place, d) == {c \in S : place[c] <= place[d]}
TheFirst(S, place, k) == {d \in S : Cardinality(UpTo(S, place, d)) <= k}

LEMMA LastOfSome ==
  ASSUME NEW S, NEW L \in Nat, NEW place \in [S -> 1 .. L], NEW T, T \subseteq S, T # {}
  PROVE  \E d \in T : \A c \in T : place[c] <= place[d]
<1> DEFINE B == {n \in Nat : \A c \in T : place[c] <= n}
<1>1. L \in B
  OBVIOUS
<1>2. PICK n \in B : \A m \in B : n <= m
  <2>1. B \subseteq Nat /\ B # {}
    BY <1>1
  <2> HIDE DEF B
  <2>2. QED
    BY <2>1, LeastNatural
<1>3. ASSUME \A d \in T : place[d] # n PROVE FALSE
  <2>1. \A c \in T : place[c] \in Nat /\ place[c] >= 1 /\ place[c] <= n /\ place[c] # n
    BY <1>2, <1>3
  <2>2. PICK c \in T : TRUE
    OBVIOUS
  <2>3. n \in Nat /\ n - 1 \in Nat
    BY <1>2, <2>1, <2>2
  <2>4. n - 1 \in B
    BY <2>1, <2>3
  <2>5. n <= n - 1
    BY <1>2, <2>4
  <2>6. QED
    BY <2>3, <2>5
<1> QED
  BY <1>2, <1>3

LEMMA FirstOfSome ==
  ASSUME NEW S, NEW place \in [S -> Nat], NEW T, T \subseteq S, T # {}
  PROVE  \E d \in T : \A c \in T : place[d] <= place[c]
<1> DEFINE N == {place[d] : d \in T}
<1>1. N \subseteq Nat /\ N # {}
  OBVIOUS
<1>2. PICK n \in N : \A m \in N : n <= m
  <2> HIDE DEF N
  <2>1. QED
    BY <1>1, LeastNatural
<1> QED
  BY <1>2

(* They are at most k, and exactly k if any are left out. *)
LEMMA TheFirstAreEnough ==
  ASSUME NEW S, IsFiniteSet(S), NEW L \in Nat, NEW place \in [S -> 1 .. L],
         \A c, d \in S : place[c] = place[d] => c = d,
         NEW k \in Nat
  PROVE  /\ IsFiniteSet(TheFirst(S, place, k))
         /\ Cardinality(TheFirst(S, place, k)) <= k
         /\ TheFirst(S, place, k) # S => Cardinality(TheFirst(S, place, k)) = k
<1> DEFINE T == TheFirst(S, place, k)
<1>0. T \subseteq S
  BY DEF TheFirst
<1>1. IsFiniteSet(T) /\ Cardinality(T) \in Nat
  BY <1>0, FS_Subset, FS_CardinalityType
<1>2. \A d \in S : /\ IsFiniteSet(UpTo(S, place, d))
                    /\ Cardinality(UpTo(S, place, d)) \in Nat
  <2>1. \A d \in S : UpTo(S, place, d) \subseteq S
    BY DEF UpTo
  <2>2. QED
    BY <2>1, FS_Subset, FS_CardinalityType
<1>3. Cardinality(T) <= k
  <2>1. CASE T = {}
    <3>1. Cardinality({}) = 0
      BY FS_EmptySet
    <3>2. QED
      BY <2>1, <3>1
  <2>2. CASE T # {}
    <3> HIDE DEF T
    <3>0. T \subseteq S /\ T # {} /\ place \in [S -> 1 .. L] /\ L \in Nat
      BY <1>0, <2>2
    <3>1. PICK d \in T : \A c \in T : place[c] <= place[d]
      BY ONLY <3>0, LastOfSome
    <3>2. T \subseteq UpTo(S, place, d)
      BY <1>0, <3>1 DEF UpTo
    <3>3. Cardinality(T) <= Cardinality(UpTo(S, place, d))
      BY <1>0, <1>2, <3>2, FS_Subset
    <3>4. Cardinality(UpTo(S, place, d)) <= k
      BY <3>1 DEF T, TheFirst
    <3>5. QED
      BY <1>0, <1>1, <1>2, <3>3, <3>4
  <2>3. QED
    BY <2>1, <2>2
<1>4. ASSUME T # S PROVE Cardinality(T) = k
  <2>1. S \ T # {} /\ S \ T \subseteq S
    BY <1>0, <1>4
  <2>2. place \in [S -> Nat]
    OBVIOUS
  <2>3. PICK d \in S \ T : \A c \in S \ T : place[d] <= place[c]
    <3> HIDE DEF T
    <3>1. QED
      BY <2>1, <2>2, FirstOfSome
  <2>4. \A c \in S : place[c] \in Nat
    OBVIOUS
  <2>5. UpTo(S, place, d) \subseteq T \cup {d}
    <3> SUFFICES ASSUME NEW c \in UpTo(S, place, d), c \notin T PROVE c = d
      OBVIOUS
    <3>1. c \in S /\ d \in S /\ place[c] <= place[d]
      BY <2>3 DEF UpTo
    <3>2. place[d] <= place[c]
      BY <2>3, <3>1
    <3>3. QED
      BY <2>4, <3>1, <3>2
  <2>6. d \notin T
    BY <2>3
  <2>7. /\ IsFiniteSet(T \cup {d})
        /\ Cardinality(T \cup {d}) = Cardinality(T) + 1
    <3> HIDE DEF T
    <3>1. QED
      BY <1>1, <2>6, FS_AddElement
  <2>8. Cardinality(UpTo(S, place, d)) <= Cardinality(T \cup {d})
    <3> HIDE DEF T
    <3>1. QED
      BY <2>5, <2>7, FS_Subset
  <2>9. Cardinality(UpTo(S, place, d)) \in Nat /\ ~(Cardinality(UpTo(S, place, d)) <= k)
    BY <1>2, <2>3 DEF TheFirst
  <2>10. QED
    BY <1>1, <1>3, <2>7, <2>8, <2>9
<1> QED
  BY <1>1, <1>3, <1>4

-----------------------------------------------------------------------------
(* The line *)

LEMMA RowRemoved ==
  ASSUME NEW D, NEW s \in Seq(D), NEW i \in DOMAIN s
  PROVE  /\ RemoveAt(s, i) \in Seq(D)
         /\ Len(RemoveAt(s, i)) = Len(s) - 1
         /\ \A j \in 1 .. Len(s) - 1 : RemoveAt(s, i)[j] = IF j < i THEN s[j] ELSE s[j + 1]
<1> DEFINE a == SubSeq(s, 1, i - 1)
           b == SubSeq(s, i + 1, Len(s))
<1>1. i \in 1 .. Len(s) /\ Len(s) \in Nat
  OBVIOUS
<1>2. a \in Seq(D) /\ Len(a) = i - 1 /\ \A j \in 1 .. i - 1 : a[j] = s[j]
  BY <1>1
<1>3. b \in Seq(D) /\ Len(b) = Len(s) - i /\ \A j \in 1 .. Len(s) - i : b[j] = s[i + j]
  BY <1>1
<1>4. RemoveAt(s, i) = a \o b
  BY DEF RemoveAt
<1> HIDE DEF a, b
<1>5. /\ a \o b \in Seq(D) /\ Len(a \o b) = Len(a) + Len(b)
      /\ \A j \in 1 .. Len(a) + Len(b) :
            (a \o b)[j] = IF j <= Len(a) THEN a[j] ELSE b[j - Len(a)]
  <2>1. a \in Seq(D) /\ b \in Seq(D)
    BY <1>2, <1>3
  <2>2. QED
    BY <2>1, ConcatProperties
<1>6. ASSUME NEW j \in 1 .. Len(s) - 1
      PROVE  (a \o b)[j] = IF j < i THEN s[j] ELSE s[j + 1]
  <2>1. j \in 1 .. Len(a) + Len(b) /\ (j <= Len(a) <=> j < i)
    BY <1>1, <1>2, <1>3
  <2>2. CASE j < i
    BY <1>1, <1>2, <1>5, <2>1, <2>2
  <2>3. CASE ~(j < i)
    <3> DEFINE n == j - (i - 1)
    <3>1. n \in 1 .. Len(s) - i /\ n = j - Len(a) /\ i + n = j + 1
      BY <1>1, <1>2, <2>3
    <3> HIDE DEF n
    <3>2. QED
      BY <1>3, <1>5, <2>1, <2>3, <3>1
  <2>4. QED
    BY <2>2, <2>3
<1>7. Len(a \o b) = Len(s) - 1
  BY <1>1, <1>2, <1>3, <1>5
<1> QED
  BY <1>4, <1>5, <1>6, <1>7

(* A line without one of its rows *)
LEMMA LineWithout ==
  ASSUME NEW D, NEW s \in Seq(D), NEW i \in DOMAIN s, IsInjective(s)
  PROVE  /\ RemoveAt(s, i) \in Seq(D) /\ IsInjective(RemoveAt(s, i))
         /\ ToSet(RemoveAt(s, i)) = ToSet(s) \ {s[i]}
<1> DEFINE t == RemoveAt(s, i)
<1>1. /\ i \in 1 .. Len(s) /\ Len(s) \in Nat /\ DOMAIN s = 1 .. Len(s)
      /\ \A j, k \in 1 .. Len(s) : s[j] = s[k] => j = k
  BY DEF IsInjective
<1>2. /\ t \in Seq(D) /\ Len(t) = Len(s) - 1
      /\ \A j \in 1 .. Len(s) - 1 : t[j] = IF j < i THEN s[j] ELSE s[j + 1]
  BY RowRemoved
<1> HIDE DEF t
<1>3. DOMAIN t = 1 .. Len(s) - 1
  BY <1>2
<1> DEFINE up(j) == IF j < i THEN j ELSE j + 1
<1>4. \A j \in DOMAIN t : up(j) \in 1 .. Len(s) /\ up(j) # i /\ t[j] = s[up(j)]
  BY <1>1, <1>2, <1>3
<1>5. IsInjective(t)
  <2> SUFFICES ASSUME NEW j \in DOMAIN t, NEW k \in DOMAIN t, t[j] = t[k] PROVE j = k
    BY DEF IsInjective
  <2>1. up(j) = up(k)
    BY <1>1, <1>4
  <2>2. QED
    BY <1>1, <1>3, <2>1
<1>6. ToSet(t) \subseteq ToSet(s) \ {s[i]}
  BY <1>1, <1>4 DEF ToSet
<1>7. ASSUME NEW k \in 1 .. Len(s), k # i PROVE \E j \in DOMAIN t : t[j] = s[k]
  <2> DEFINE j == IF k < i THEN k ELSE k - 1
  <2>1. j \in 1 .. Len(s) - 1 /\ up(j) = k
    BY <1>1, <1>7
  <2>2. QED
    BY <1>3, <1>4, <2>1
<1>8. ToSet(s) \ {s[i]} \subseteq ToSet(t)
  BY <1>1, <1>7 DEF ToSet
<1> QED
  BY <1>2, <1>5, <1>6, <1>8 DEF t

(* A line with one row more *)
LEMMA LineWith ==
  ASSUME NEW D, NEW s \in Seq(D), NEW d \in D, IsInjective(s), d \notin ToSet(s)
  PROVE  /\ Append(s, d) \in Seq(D) /\ IsInjective(Append(s, d))
         /\ ToSet(Append(s, d)) = ToSet(s) \cup {d}
<1> DEFINE t == Append(s, d)
           n == Len(s)
<1>1. n \in Nat /\ DOMAIN s = 1 .. n /\ DOMAIN t = 1 .. n + 1
  OBVIOUS
<1>2. t \in Seq(D) /\ t[n + 1] = d /\ \A j \in 1 .. n : t[j] = s[j]
  OBVIOUS
<1> HIDE DEF t, n
<1>3. \A j \in 1 .. n : s[j] # d
  BY <1>1 DEF ToSet
<1>4. \A j \in 1 .. n + 1 : j \in 1 .. n \/ j = n + 1
  BY <1>1
<1>5. \A j \in 1 .. n : j \in 1 .. n + 1
  BY <1>1
<1>6. n + 1 \in 1 .. n + 1
  BY <1>1
<1>7. IsInjective(t)
  BY <1>1, <1>2, <1>3, <1>4 DEF IsInjective
<1>8. ToSet(t) = ToSet(s) \cup {d}
  BY <1>1, <1>2, <1>4, <1>5, <1>6 DEF ToSet
<1> QED
  BY <1>2, <1>7, <1>8 DEF t

(* A line without a row that may be in it *)
LEMMA LineIsWithout ==
  ASSUME NEW D, NEW s \in Seq(D), IsInjective(s), NEW m
  PROVE  /\ Without(s, m) \in Seq(D) /\ IsInjective(Without(s, m))
         /\ ToSet(Without(s, m)) = ToSet(s) \ {m}
<1>1. CASE m \in ToSet(s)
  <2> DEFINE i == CHOOSE n \in DOMAIN s : s[n] = m
  <2>1. \E n \in DOMAIN s : s[n] = m
    BY <1>1 DEF ToSet
  <2>2. i \in DOMAIN s /\ s[i] = m
    BY <2>1
  <2>3. Without(s, m) = RemoveAt(s, i)
    BY <2>1 DEF Without
  <2> HIDE DEF i
  <2>4. QED
    BY <2>2, <2>3, LineWithout
<1>2. CASE m \notin ToSet(s)
  <2>1. ~ \E n \in DOMAIN s : s[n] = m
    BY <1>2 DEF ToSet
  <2>2. Without(s, m) = s
    BY <2>1 DEF Without
  <2>3. QED
    BY <1>2, <2>2
<1> QED
  BY <1>1, <1>2

(* The deliveries whose due time is on the timeline, one place each *)
InLine == {d \in Deliveries : DueAt(d) \in ToSet(timeline)}

LEMMA MomentsAreDistinct ==
  ASSUME NEW c \in Deliveries, NEW d \in Deliveries
  PROVE  /\ Created(d) \in Moments /\ Retried(d) \in Moments /\ Created(c) # Retried(d)
         /\ Created(c) = Created(d) => c = d
         /\ Retried(c) = Retried(d) => c = d
         /\ DueAt(c) = DueAt(d) => c = d
BY DEF Created, Retried, Moments, DueAt

LEMMA PlacesInLine ==
  ASSUME timeline \in Seq(Moments), IsInjective(timeline)
  PROVE  /\ Len(timeline) \in Nat
         /\ \A d \in InLine : /\ Place(d) \in 1 .. Len(timeline)
                              /\ timeline[Place(d)] = DueAt(d)
         /\ \A c, d \in InLine : Place(c) = Place(d) => c = d
         /\ IsFiniteSet(InLine)
<1>1. Len(timeline) \in Nat /\ DOMAIN timeline = 1 .. Len(timeline)
  OBVIOUS
<1>2. ASSUME NEW d \in InLine
      PROVE  Place(d) \in DOMAIN timeline /\ timeline[Place(d)] = DueAt(d)
  <2>1. \E i \in DOMAIN timeline : timeline[i] = DueAt(d)
    BY <1>2 DEF InLine, ToSet
  <2>2. Place(d) = CHOOSE i \in DOMAIN timeline : timeline[i] = DueAt(d)
    BY DEF Place, InDueOrder
  <2>3. QED
    BY <2>1, <2>2
<1>3. ASSUME NEW c \in InLine, NEW d \in InLine, Place(c) = Place(d) PROVE c = d
  <2>1. DueAt(c) = DueAt(d)
    BY <1>2, <1>3
  <2>2. QED
    BY <2>1, MomentsAreDistinct DEF InLine
<1>4. IsFiniteSet(InLine)
  <2> DEFINE place == [d \in InLine |-> Place(d)]
  <2>1. place \in Injection(InLine, 1 .. Len(timeline))
    BY <1>1, <1>2, <1>3 DEF Injection, IsInjective
  <2>2. IsFiniteSet(1 .. Len(timeline))
    BY <1>1, FS_Interval
  <2> HIDE DEF place
  <2>3. QED
    BY <2>1, <2>2, FS_Injection
<1> QED
  BY <1>1, <1>2, <1>3, <1>4

(* Those of S that are among its first k in the line *)
Leading(S, k) == {d \in S : Cardinality({c \in S : Precedes(c, d)}) <= k}

LEMMA LeadingAreEnough ==
  ASSUME timeline \in Seq(Moments), IsInjective(timeline),
         NEW S, S \subseteq InLine, NEW k \in Nat
  PROVE  /\ IsFiniteSet(S)
         /\ IsFiniteSet(Leading(S, k))
         /\ Cardinality(Leading(S, k)) <= k
         /\ Leading(S, k) # S => Cardinality(Leading(S, k)) = k
<1> DEFINE place == [d \in S |-> Place(d)]
<1>1. IsFiniteSet(S)
  BY PlacesInLine, FS_Subset
<1>2. /\ place \in [S -> 1 .. Len(timeline)] /\ Len(timeline) \in Nat
      /\ \A c, d \in S : place[c] = place[d] => c = d
  BY PlacesInLine
<1>3. ASSUME NEW d \in S PROVE UpTo(S, place, d) = {c \in S : Precedes(c, d)}
  BY <1>3 DEF UpTo, Precedes
<1> HIDE DEF place
<1>4. TheFirst(S, place, k) = Leading(S, k)
  BY <1>3 DEF TheFirst, Leading
<1> QED
  BY <1>1, <1>2, <1>4, TheFirstAreEnough

-----------------------------------------------------------------------------
(* What a claim takes *)

Waiting(e) == {c \in Deliveries : Eligible(c) /\ EndpointOf[c] = e}
Candidates == {d \in Deliveries : IsCandidate(d)}
CandidatesOf(e) == {d \in Candidates : EndpointOf[d] = e}
Share(e) ==
    IF AvailableCapacity(e) <= BatchSize THEN AvailableCapacity(e) ELSE BatchSize
Taken(e) == {d \in Batch : EndpointOf[d] = e}

LEMMA CapacityType ==
  ASSUME TypeOK, NEW e \in Endpoints
  PROVE  /\ AvailableCapacity(e) \in Nat /\ Share(e) \in Nat
         /\ WindowCount(e) \in Nat
         /\ limit[e] # None =>
               /\ limit[e] \in Nat /\ limit[e] >= 1
               /\ AvailableCapacity(e) = limit[e] - WindowCount(e)
<1>1. limit[e] \in (Nat \ {0}) \cup {None}
  BY DEF TypeOK
<1>2. /\ window[e].age \in 0 .. Second /\ window[e].count \in Nat
      /\ limit[e] # None => window[e].count <= limit[e]
  BY DEF TypeOK
<1>3. WindowCount(e) \in Nat /\ (limit[e] # None => WindowCount(e) <= limit[e])
  BY <1>1, <1>2 DEF WindowCount
<1>4. limit[e] # None => AvailableCapacity(e) = limit[e] - WindowCount(e)
  BY <1>1, <1>3 DEF AvailableCapacity
<1>5. AvailableCapacity(e) \in Nat
  BY <1>1, <1>3 DEF AvailableCapacity
<1> QED
  BY <1>1, <1>3, <1>4, <1>5 DEF Share

LEMMA EligibleInLine ==
  ASSUME TypeOK
  PROVE  /\ \A d \in Deliveries : Eligible(d) => d \in InLine
         /\ \A e : Waiting(e) \subseteq InLine
         /\ Candidates \subseteq InLine
<1>1. ASSUME NEW d \in Deliveries, Eligible(d) PROVE d \in InLine
  <2>1. Created(d) \in ToSet(timeline)
    BY <1>1 DEF TypeOK, Eligible
  <2>2. QED
    BY <2>1 DEF InLine, DueAt
<1> QED
  BY <1>1 DEF Waiting, Candidates, IsCandidate

LEMMA CandidatesLead ==
  ASSUME TypeOK, NEW e \in Endpoints
  PROVE  CandidatesOf(e) = Leading(Waiting(e), Share(e))
<1>1. ASSUME NEW d \in Waiting(e)
      PROVE  {c \in Deliveries : /\ Eligible(c) /\ EndpointOf[c] = EndpointOf[d]
                                 /\ Precedes(c, d)}
                = {c \in Waiting(e) : Precedes(c, d)}
  BY <1>1 DEF Waiting
<1>2. ASSUME NEW d \in Waiting(e)
      PROVE  EndpointRank(d) = Cardinality({c \in Waiting(e) : Precedes(c, d)})
  BY <1>1, <1>2 DEF EndpointRank
<1>3. ASSUME NEW d \in Waiting(e)
      PROVE  EndpointRank(d) \in Nat
  <2>1. IsFiniteSet(Waiting(e))
    BY EligibleInLine, PlacesInLine, FS_Subset DEF TypeOK
  <2>2. {c \in Waiting(e) : Precedes(c, d)} \subseteq Waiting(e)
    OBVIOUS
  <2>3. IsFiniteSet({c \in Waiting(e) : Precedes(c, d)})
    BY <2>1, <2>2, FS_Subset
  <2>4. Cardinality({c \in Waiting(e) : Precedes(c, d)}) \in Nat
    BY <2>3, FS_CardinalityType
  <2>5. QED
    BY <1>2, <1>3, <2>4
<1>4. AvailableCapacity(e) \in Nat /\ BatchSize \in Nat
  BY CapacityType
<1>5. ASSUME NEW d \in Waiting(e)
      PROVE  (EndpointRank(d) <= AvailableCapacity(e) /\ EndpointRank(d) <= BatchSize)
                <=> EndpointRank(d) <= Share(e)
  BY <1>3, <1>4 DEF Share
<1>6. \A d : d \in CandidatesOf(e) <=>
             /\ d \in Waiting(e)
             /\ EndpointRank(d) <= AvailableCapacity(e) /\ EndpointRank(d) <= BatchSize
  BY DEF CandidatesOf, Candidates, IsCandidate, Waiting
<1>7. \A d : d \in Leading(Waiting(e), Share(e)) <=>
             d \in Waiting(e) /\ EndpointRank(d) <= Share(e)
  BY <1>2 DEF Leading
<1> QED
  BY <1>5, <1>6, <1>7

LEMMA BatchLeads == Batch = Leading(Candidates, BatchSize)
BY DEF Batch, Leading, Candidates

(* A claim takes no more of an endpoint than it has capacity for; a        *)
(* candidate that it leaves fills the batch, and one of an endpoint that   *)
(* is no candidate leaves that endpoint its share.                         *)
LEMMA ClaimIsMeasured ==
  ASSUME TypeOK
  PROVE  /\ IsFiniteSet(Batch) /\ Batch \subseteq Candidates
         /\ Cardinality(Batch) \in Nat /\ Cardinality(Batch) <= BatchSize
         /\ Batch # Candidates => Cardinality(Batch) = BatchSize
         /\ \A e \in Endpoints :
               /\ IsFiniteSet(CandidatesOf(e))
               /\ Cardinality(CandidatesOf(e)) \in Nat
               /\ Cardinality(CandidatesOf(e)) <= Share(e)
               /\ CandidatesOf(e) # Waiting(e) => Cardinality(CandidatesOf(e)) = Share(e)
               /\ Taken(e) \subseteq CandidatesOf(e)
               /\ Cardinality(Taken(e)) \in Nat
               /\ Cardinality(Taken(e)) <= Cardinality(CandidatesOf(e))
<1>0. timeline \in Seq(Moments) /\ IsInjective(timeline)
  BY DEF TypeOK
<1>1. /\ IsFiniteSet(Batch) /\ Cardinality(Batch) <= BatchSize
      /\ Batch # Candidates => Cardinality(Batch) = BatchSize
  BY <1>0, BatchLeads, EligibleInLine, LeadingAreEnough
<1>2. Batch \subseteq Candidates
  BY DEF Batch, Candidates
<1>3. Cardinality(Batch) \in Nat
  BY <1>1, FS_CardinalityType
<1>4. ASSUME NEW e \in Endpoints
      PROVE  /\ IsFiniteSet(CandidatesOf(e))
             /\ Cardinality(CandidatesOf(e)) <= Share(e)
             /\ CandidatesOf(e) # Waiting(e) => Cardinality(CandidatesOf(e)) = Share(e)
  <2>1. Waiting(e) \subseteq InLine /\ Share(e) \in Nat
    BY CapacityType, EligibleInLine
  <2>2. CandidatesOf(e) = Leading(Waiting(e), Share(e))
    BY CandidatesLead
  <2> DEFINE S == Waiting(e)
             k == Share(e)
  <2>3. S \subseteq InLine /\ k \in Nat
    BY <2>1
  <2> HIDE DEF S, k
  <2>4. /\ IsFiniteSet(Leading(S, k))
        /\ Cardinality(Leading(S, k)) <= k
        /\ Leading(S, k) # S => Cardinality(Leading(S, k)) = k
    BY <1>0, <2>3, LeadingAreEnough
  <2> USE DEF S, k
  <2>5. QED
    BY <2>2, <2>4
<1>5. \A e : Taken(e) \subseteq CandidatesOf(e)
  BY <1>2 DEF Taken, CandidatesOf
<1>6. ASSUME NEW e \in Endpoints
      PROVE  /\ Cardinality(CandidatesOf(e)) \in Nat
             /\ Cardinality(Taken(e)) \in Nat
             /\ Cardinality(Taken(e)) <= Cardinality(CandidatesOf(e))
  BY <1>4, <1>5, FS_Subset, FS_CardinalityType
<1> QED
  BY <1>1, <1>2, <1>3, <1>4, <1>5, <1>6

(* What the claim of the deliveries S does to the windows and the history. *)
ClaimedWindow(S) ==
    [e \in Endpoints |->
        IF limit[e] # None /\ Cardinality({d \in S : EndpointOf[d] = e}) > 0
        THEN [age |-> IF HasActiveWindow(e) THEN window[e].age ELSE 0,
              count |-> WindowCount(e) + Cardinality({d \in S : EndpointOf[d] = e})]
        ELSE window[e]]
ClaimedRecent(S) ==
    [e \in Endpoints |->
        IF limit[e] # None /\ Cardinality({d \in S : EndpointOf[d] = e}) > 0
        THEN [a \in Ages |->
                recent[e][a] + (IF a = 0 THEN Cardinality({d \in S : EndpointOf[d] = e})
                                ELSE 0)]
        ELSE recent[e]]

LEMMA ClaimSteps ==
  ASSUME Claim
  PROVE  /\ Batch # {}
         /\ state' = [d \in Deliveries |-> IF d \in Batch THEN "leased" ELSE state[d]]
         /\ window' = [e \in Endpoints |->
                          IF limit[e] # None /\ Cardinality(Taken(e)) > 0
                          THEN [age |-> IF HasActiveWindow(e) THEN window[e].age ELSE 0,
                                count |-> WindowCount(e) + Cardinality(Taken(e))]
                          ELSE window[e]]
         /\ recent' = [e \in Endpoints |->
                          IF limit[e] # None /\ Cardinality(Taken(e)) > 0
                          THEN [a \in Ages |->
                                  recent[e][a] + (IF a = 0 THEN Cardinality(Taken(e)) ELSE 0)]
                          ELSE recent[e]]
         /\ UNCHANGED <<limit, enabled, attemptCount, timeline, upsets>>
<1>1. PICK claimed \in {Batch} :
        /\ claimed # {}
        /\ state' = [d \in Deliveries |-> IF d \in claimed THEN "leased" ELSE state[d]]
        /\ window' = ClaimedWindow(claimed)
        /\ recent' = ClaimedRecent(claimed)
        /\ UNCHANGED <<limit, enabled, attemptCount, timeline, upsets>>
  BY Zenon DEF Claim, ClaimedWindow, ClaimedRecent
<1>2. state' = [d \in Deliveries |-> IF d \in Batch THEN "leased" ELSE state[d]]
  BY <1>1
<1>3. window' = ClaimedWindow(Batch) /\ recent' = ClaimedRecent(Batch)
  BY <1>1
<1>4. window' = [e \in Endpoints |->
                    IF limit[e] # None /\ Cardinality(Taken(e)) > 0
                    THEN [age |-> IF HasActiveWindow(e) THEN window[e].age ELSE 0,
                          count |-> WindowCount(e) + Cardinality(Taken(e))]
                    ELSE window[e]]
  BY <1>3, Zenon DEF ClaimedWindow, Taken
<1>5. recent' = [e \in Endpoints |->
                    IF limit[e] # None /\ Cardinality(Taken(e)) > 0
                    THEN [a \in Ages |->
                            recent[e][a] + (IF a = 0 THEN Cardinality(Taken(e)) ELSE 0)]
                    ELSE recent[e]]
  BY <1>3, Zenon DEF ClaimedRecent, Taken
<1> QED
  BY <1>1, <1>2, <1>4, <1>5, Zenon

-----------------------------------------------------------------------------
(* Types *)

LimitOK == DOMAIN limit = Endpoints /\ \A e \in Endpoints : limit[e] \in Limits[e]
WindowOK ==
    /\ window \in [Endpoints -> [age : 0 .. Second, count : Nat]]
    /\ \A e \in Endpoints : limit[e] # None => window[e].count <= limit[e]
StateOK ==
    /\ state \in [Deliveries -> States]
    /\ attemptCount \in [Deliveries -> 0 .. AttemptBudget]
LineIsOnce == timeline \in Seq(Moments) /\ IsInjective(timeline)
LineOf(d) ==
    /\ Created(d) \in ToSet(timeline) <=> state[d] # "absent"
    /\ Retried(d) \in ToSet(timeline) => state[d] \in {"waiting", "leased"}
    /\ state[d] # "dead_letter" => attemptCount[d] < AttemptBudget
LineOK == LineIsOnce /\ \A d \in Deliveries : LineOf(d)
RecentOK == recent \in [Endpoints -> [Ages -> Nat]]

LEMMA TypeParts ==
  TypeOK <=> /\ LimitOK /\ WindowOK /\ LineOK /\ StateOK /\ RecentOK
             /\ enabled \in [Endpoints -> BOOLEAN]
             /\ upsets \in Nat
BY DEF TypeOK, LimitOK, WindowOK, LineOK, LineIsOnce, LineOf, StateOK, RecentOK

LEMMA TypePartsNext ==
  ASSUME LimitOK', WindowOK', LineOK', StateOK', RecentOK',
         (enabled \in [Endpoints -> BOOLEAN])', (upsets \in Nat)'
  PROVE  TypeOK'
BY DEF TypeOK, LimitOK, WindowOK, LineOK, LineIsOnce, LineOf, StateOK, RecentOK

LEMMA NothingYet ==
  /\ NoWindow \in [age : 0 .. Second, count : Nat] /\ NoWindow.count = 0
  /\ NoWindow.age = Second
  /\ NoClaims \in [Ages -> Nat] /\ \A a \in Ages : NoClaims[a] = 0
BY DEF NoWindow, NoClaims

LEMMA InitTypes == Init => TypeOK
<1> SUFFICES ASSUME Init PROVE TypeOK
  OBVIOUS
<1>1. LimitOK /\ StateOK
  BY DEF Init, LimitOK, StateOK, States
<1>2. WindowOK
  <2>1. \A e \in Endpoints : limit[e] \in (Nat \ {0}) \cup {None}
    BY <1>1 DEF LimitOK
  <2>2. \A e \in Endpoints : window[e] = NoWindow
    BY DEF Init
  <2>3. window \in [Endpoints -> [age : 0 .. Second, count : Nat]]
    BY NothingYet DEF Init
  <2>4. QED
    BY <2>1, <2>2, <2>3, NothingYet DEF WindowOK
<1>3. RecentOK
  BY NothingYet DEF Init, RecentOK
<1>4. LineOK
  <2>1. timeline = << >> /\ DOMAIN timeline = {}
    BY DEF Init
  <2>2. ToSet(timeline) = {} /\ IsInjective(timeline) /\ timeline \in Seq(Moments)
    BY <2>1 DEF ToSet, IsInjective
  <2>3. \A d \in Deliveries : state[d] = "absent" /\ attemptCount[d] = 0
    BY DEF Init
  <2>4. QED
    BY <2>2, <2>3 DEF LineOK, LineIsOnce, LineOf
<1>5. enabled \in [Endpoints -> BOOLEAN] /\ upsets \in Nat
  BY DEF Init
<1> QED
  BY <1>1, <1>2, <1>3, <1>4, <1>5, TypeParts

LEMMA TickTypes == ASSUME TypeOK, Tick PROVE TypeOK'
<1> USE TypeParts
<1>1. WindowOK'
  <2>1. \A e \in Endpoints : /\ window[e].age \in 0 .. Second /\ window[e].count \in Nat
                              /\ window[e] \in [age : 0 .. Second, count : Nat]
    BY DEF WindowOK
  <2>2. \A e \in Endpoints :
           /\ window'[e] \in [age : 0 .. Second, count : Nat]
           /\ window'[e].count = window[e].count
    BY <2>1 DEF Tick
  <2>3. window' \in [Endpoints -> [age : 0 .. Second, count : Nat]]
    BY <2>2 DEF Tick
  <2>4. QED
    BY <2>2, <2>3 DEF WindowOK, Tick
<1>2. RecentOK'
  <2>1. \A a \in Ages : a # 0 => a - 1 \in Ages
    BY DEF Ages
  <2>2. QED
    BY <2>1 DEF RecentOK, Tick
<1>3. LimitOK' /\ LineOK' /\ StateOK'
  BY DEF LimitOK, LineOK, LineIsOnce, LineOf, StateOK, Tick
<1>9. /\ enabled' \in [Endpoints -> BOOLEAN]
      /\ upsets' \in Nat
  BY DEF Tick
<1> QED
  BY <1>1, <1>2, <1>3, <1>9, TypePartsNext

(* A step that leaves the endpoints alone and moves deliveries. *)
Queueing ==
    \/ \E d \in Deliveries : Create(d) \/ Succeed(d) \/ Fail(d) \/ BackoffEnds(d)
    \/ \E S \in SUBSET Deliveries : RetryMessage(S)

LEMMA QueueingTypes ==
  ASSUME TypeOK, Queueing, StateOK', LineOK' PROVE TypeOK'
<1> USE TypeParts
<1>1. UNCHANGED <<limit, window, enabled, recent, upsets>>
  BY DEF Queueing, Create, Succeed, Fail, BackoffEnds, RetryMessage
<1>2. LimitOK' /\ WindowOK' /\ RecentOK'
  BY <1>1 DEF LimitOK, WindowOK, RecentOK
<1>3. enabled' \in [Endpoints -> BOOLEAN] /\ upsets' \in Nat
  BY <1>1
<1> QED
  BY <1>2, <1>3, TypePartsNext

LEMMA CreateTypes ==
  ASSUME TypeOK, NEW d \in Deliveries, Create(d) PROVE TypeOK'
<1> USE TypeParts
<1>1. StateOK'
  BY DEF StateOK, States, Create
<1>2. /\ state[d] = "absent" /\ Created(d) \notin ToSet(timeline)
      /\ timeline' = Append(timeline, Created(d)) /\ attemptCount' = attemptCount
      /\ \A c \in Deliveries : state'[c] = IF c = d THEN "waiting" ELSE state[c]
  BY DEF Create, LineOK, LineOf, StateOK
<1>3. LineIsOnce' /\ ToSet(timeline') = ToSet(timeline) \cup {Created(d)}
  BY <1>2, LineWith, MomentsAreDistinct DEF LineOK, LineIsOnce
<1>4. ASSUME NEW c \in Deliveries PROVE LineOf(c)'
  <2>1. /\ Created(c) \in ToSet(timeline') <=> Created(c) \in ToSet(timeline) \/ c = d
        /\ Retried(c) \in ToSet(timeline') <=> Retried(c) \in ToSet(timeline)
    BY <1>3, MomentsAreDistinct
  <2>2. QED
    BY <1>2, <2>1 DEF LineOK, LineOf
<1> QED
  BY <1>1, <1>3, <1>4, QueueingTypes DEF LineOK, Queueing

LEMMA SucceedTypes ==
  ASSUME TypeOK, NEW d \in Deliveries, Succeed(d) PROVE TypeOK'
<1> USE TypeParts
<1>1. StateOK'
  BY DEF StateOK, States, Succeed
<1>2. /\ timeline' = Without(Without(timeline, Retried(d)), Created(d))
      /\ \A c \in Deliveries : state'[c] = IF c = d THEN "absent" ELSE state[c]
      /\ \A c \in Deliveries : attemptCount'[c] = IF c = d THEN 0 ELSE attemptCount[c]
  BY DEF Succeed, StateOK
<1>3. LineIsOnce' /\ ToSet(timeline') = (ToSet(timeline) \ {Retried(d)}) \ {Created(d)}
  <2> DEFINE s == Without(timeline, Retried(d))
  <2>1. s \in Seq(Moments) /\ IsInjective(s) /\ ToSet(s) = ToSet(timeline) \ {Retried(d)}
    BY LineIsWithout DEF LineOK, LineIsOnce
  <2>2. timeline' = Without(s, Created(d))
    BY <1>2
  <2> HIDE DEF s
  <2>3. QED
    BY <2>1, <2>2, LineIsWithout DEF LineIsOnce
<1>4. ASSUME NEW c \in Deliveries PROVE LineOf(c)'
  <2>1. /\ Created(c) \in ToSet(timeline') <=> Created(c) \in ToSet(timeline) /\ c # d
        /\ Retried(c) \in ToSet(timeline') <=> Retried(c) \in ToSet(timeline) /\ c # d
    BY <1>3, MomentsAreDistinct
  <2>2. QED
    BY <1>2, <2>1 DEF LineOK, LineOf
<1> QED
  BY <1>1, <1>3, <1>4, QueueingTypes DEF LineOK, Queueing

LEMMA FailTypes ==
  ASSUME TypeOK, NEW d \in Deliveries, Fail(d) PROVE TypeOK'
<1> USE TypeParts
<1>1. /\ state[d] = "leased" /\ timeline' = Without(timeline, Retried(d))
      /\ \A c \in Deliveries :
            attemptCount'[c] = IF c = d THEN attemptCount[d] + 1 ELSE attemptCount[c]
      /\ attemptCount' = [attemptCount EXCEPT ![d] = @ + 1]
      /\ state' = [state EXCEPT ![d] = IF attemptCount'[d] >= AttemptBudget
                                       THEN "dead_letter" ELSE "backing_off"]
  BY DEF Fail, StateOK
<1>2. attemptCount[d] \in Nat /\ attemptCount[d] < AttemptBudget
  BY <1>1 DEF LineOK, LineOf, StateOK
<1>3. StateOK'
  BY <1>1, <1>2 DEF StateOK, States
<1>4. \A c \in Deliveries :
         state'[c] = IF c # d THEN state[c]
                     ELSE IF attemptCount'[d] >= AttemptBudget THEN "dead_letter"
                     ELSE "backing_off"
  BY <1>1 DEF StateOK
<1>5. LineIsOnce' /\ ToSet(timeline') = ToSet(timeline) \ {Retried(d)}
  BY <1>1, LineIsWithout DEF LineOK, LineIsOnce
<1>6. ASSUME NEW c \in Deliveries PROVE LineOf(c)'
  <2>1. /\ Created(c) \in ToSet(timeline') <=> Created(c) \in ToSet(timeline)
        /\ Retried(c) \in ToSet(timeline') <=> Retried(c) \in ToSet(timeline) /\ c # d
    BY <1>5, MomentsAreDistinct
  <2>2. CASE c = d
    BY <1>1, <1>2, <1>4, <2>1, <2>2 DEF LineOK, LineOf
  <2>3. CASE c # d
    BY <1>1, <1>4, <2>1, <2>3 DEF LineOK, LineOf
  <2>4. QED
    BY <2>2, <2>3
<1> QED
  BY <1>3, <1>5, <1>6, QueueingTypes DEF LineOK, Queueing

LEMMA BackoffEndsTypes ==
  ASSUME TypeOK, NEW d \in Deliveries, BackoffEnds(d) PROVE TypeOK'
<1> USE TypeParts
<1>1. StateOK'
  BY DEF StateOK, States, BackoffEnds
<1>2. /\ state[d] = "backing_off" /\ Retried(d) \notin ToSet(timeline)
      /\ timeline' = Append(timeline, Retried(d)) /\ attemptCount' = attemptCount
      /\ \A c \in Deliveries : state'[c] = IF c = d THEN "waiting" ELSE state[c]
  BY DEF BackoffEnds, LineOK, LineOf, StateOK
<1>3. LineIsOnce' /\ ToSet(timeline') = ToSet(timeline) \cup {Retried(d)}
  BY <1>2, LineWith, MomentsAreDistinct DEF LineOK, LineIsOnce
<1>4. ASSUME NEW c \in Deliveries PROVE LineOf(c)'
  <2>1. /\ Created(c) \in ToSet(timeline') <=> Created(c) \in ToSet(timeline)
        /\ Retried(c) \in ToSet(timeline') <=> Retried(c) \in ToSet(timeline) \/ c = d
    BY <1>3, MomentsAreDistinct
  <2>2. QED
    BY <1>2, <2>1 DEF LineOK, LineOf
<1> QED
  BY <1>1, <1>3, <1>4, QueueingTypes DEF LineOK, Queueing

(* A dead letter has kept its creation's place on the timeline. *)
LEMMA RetryMessageTypes ==
  ASSUME TypeOK, NEW S \in SUBSET Deliveries, RetryMessage(S) PROVE TypeOK'
<1> USE TypeParts
<1>1. /\ timeline' = timeline
      /\ \A d \in S : state[d] = "dead_letter"
      /\ \A c \in Deliveries : state'[c] = IF c \in S THEN "waiting" ELSE state[c]
      /\ \A c \in Deliveries :
            attemptCount'[c] = IF c \in S THEN 0 ELSE attemptCount[c]
  BY DEF RetryMessage
<1>2. StateOK'
  BY DEF StateOK, States, RetryMessage
<1>3. LineOK'
  BY <1>1 DEF LineOK, LineIsOnce, LineOf
<1> QED
  BY <1>2, <1>3, QueueingTypes DEF Queueing

LEMMA LeaseExpiresTypes ==
  ASSUME TypeOK, NEW d \in Deliveries, LeaseExpires(d) PROVE TypeOK'
<1> USE TypeParts
<1>1. /\ UNCHANGED <<attemptCount, timeline>> /\ state[d] = "leased"
      /\ \A c \in Deliveries : state'[c] = IF c = d THEN "waiting" ELSE state[c]
  BY DEF StateOK, LeaseExpires
<1>2. LineOK'
  BY <1>1 DEF LineOK, LineIsOnce, LineOf
<1>3. LimitOK' /\ WindowOK' /\ StateOK' /\ RecentOK'
  BY DEF LimitOK, WindowOK, StateOK, States, RecentOK, LeaseExpires
<1>9. /\ enabled' \in [Endpoints -> BOOLEAN]
      /\ upsets' \in Nat
  BY DEF LeaseExpires
<1> QED
  BY <1>2, <1>3, <1>9, TypePartsNext

(* A window counts what its endpoint had capacity for. *)
LEMMA ClaimTypes == ASSUME TypeOK, Claim PROVE TypeOK'
<1> USE TypeParts, ClaimSteps
<1>1. ASSUME NEW e \in Endpoints
      PROVE  /\ window'[e] \in [age : 0 .. Second, count : Nat]
             /\ limit'[e] # None => window'[e].count <= limit'[e]
             /\ recent'[e] \in [Ages -> Nat]
  <2>0. /\ window[e] \in [age : 0 .. Second, count : Nat]
        /\ limit[e] # None => window[e].count <= limit[e]
        /\ recent[e] \in [Ages -> Nat]
    BY DEF WindowOK, RecentOK
  <2> DEFINE n == Cardinality(Taken(e))
  <2>1. n \in Nat /\ n <= AvailableCapacity(e)
    <3>1. /\ n \in Nat /\ Cardinality(CandidatesOf(e)) \in Nat
          /\ n <= Cardinality(CandidatesOf(e))
          /\ Cardinality(CandidatesOf(e)) <= Share(e)
      BY ClaimIsMeasured
    <3>2. AvailableCapacity(e) \in Nat /\ Share(e) \in Nat
          /\ Share(e) <= AvailableCapacity(e)
      BY CapacityType DEF Share
    <3> HIDE DEF n
    <3>3. QED
      BY <3>1, <3>2
  <2>2. CASE limit[e] # None /\ n > 0
    <3>1. window'[e] = [age |-> IF HasActiveWindow(e) THEN window[e].age ELSE 0,
                        count |-> WindowCount(e) + n]
      BY <2>2
    <3>2. recent'[e] = [a \in Ages |-> recent[e][a] + (IF a = 0 THEN n ELSE 0)]
      BY <2>2
    <3> HIDE DEF n
    <3>3. /\ limit[e] \in Nat /\ WindowCount(e) \in Nat
          /\ AvailableCapacity(e) = limit[e] - WindowCount(e)
      BY <2>2, CapacityType
    <3>4. WindowCount(e) + n \in Nat /\ WindowCount(e) + n <= limit[e]
      BY <2>1, <3>3
    <3>5. (IF HasActiveWindow(e) THEN window[e].age ELSE 0) \in 0 .. Second
      BY <2>0
    <3>6. recent'[e] \in [Ages -> Nat]
      BY <2>0, <2>1, <3>2
    <3>7. limit'[e] = limit[e]
      OBVIOUS
    <3>8. QED
      BY <3>1, <3>4, <3>5, <3>6, <3>7
  <2>3. CASE ~(limit[e] # None /\ n > 0)
    BY <2>0, <2>3
  <2>4. QED
    BY <2>2, <2>3
<1>2. WindowOK' /\ RecentOK'
  <2>1. window' = [e \in Endpoints |-> window'[e]] /\ recent' = [e \in Endpoints |-> recent'[e]]
    OBVIOUS
  <2>2. QED
    BY <1>1, <2>1 DEF WindowOK, RecentOK
<1>3. StateOK'
  BY DEF StateOK, States
<1>4. LineOK'
  <2>1. \A d \in Batch : d \in Deliveries /\ state[d] = "waiting"
    BY DEF Batch, IsCandidate, Eligible
  <2>2. \A d \in Deliveries : state'[d] = IF d \in Batch THEN "leased" ELSE state[d]
    OBVIOUS
  <2>3. QED
    BY <2>1, <2>2 DEF LineOK, LineIsOnce, LineOf
<1>5. LimitOK'
  BY DEF LimitOK
<1>6. enabled' \in [Endpoints -> BOOLEAN] /\ upsets' \in Nat
  OBVIOUS
<1> QED
  BY <1>2, <1>3, <1>4, <1>5, <1>6, TypePartsNext

LEMMA PatchTypes ==
  ASSUME TypeOK, NEW e \in Endpoints,
         \/ \E n \in Limits[e] : SetRateLimit(e, n)
         \/ \E on \in BOOLEAN : SetEnabled(e, on)
  PROVE  TypeOK'
<1> USE TypeParts
<1>1. LineOK' /\ StateOK' /\ upsets' \in Nat
  BY DEF LineOK, LineIsOnce, LineOf, StateOK, SetRateLimit, SetEnabled, Patch
<1>2. ASSUME NEW n \in Limits[e], SetRateLimit(e, n) PROVE TypeOK'
  <2>1. n \in (Nat \ {0}) \cup {None}
    OBVIOUS
  <2>2. \A f \in Endpoints : limit'[f] = IF f = e THEN n ELSE limit[f]
    BY <1>2 DEF SetRateLimit, LimitOK
  <2>3. \A f \in Endpoints : window'[f] = IF f = e THEN NoWindow ELSE window[f]
    BY <1>2 DEF SetRateLimit, WindowOK
  <2>4. LimitOK'
    BY <1>2, <2>2 DEF SetRateLimit, LimitOK
  <2>5. RecentOK'
    BY <1>2, NothingYet DEF SetRateLimit, RecentOK
  <2>6. window' \in [Endpoints -> [age : 0 .. Second, count : Nat]]
    BY <1>2, NothingYet DEF SetRateLimit, WindowOK
  <2>7. ASSUME NEW f \in Endpoints, limit'[f] # None PROVE window'[f].count <= limit'[f]
    <3>1. CASE f = e
      BY <2>1, <2>2, <2>3, <2>7, <3>1, NothingYet
    <3>2. CASE f # e
      BY <2>2, <2>3, <2>7, <3>2 DEF WindowOK
    <3>3. QED
      BY <3>1, <3>2
  <2>8. WindowOK'
    BY <2>6, <2>7 DEF WindowOK
  <2>9. enabled' \in [Endpoints -> BOOLEAN]
    BY <1>2 DEF SetRateLimit
  <2>10. QED
    BY <1>1, <2>4, <2>5, <2>8, <2>9, TypePartsNext
<1>3. ASSUME NEW on \in BOOLEAN, SetEnabled(e, on) PROVE TypeOK'
  <2>1. LimitOK' /\ WindowOK' /\ RecentOK'
    BY <1>3 DEF SetEnabled, LimitOK, WindowOK, RecentOK
  <2>2. enabled' \in [Endpoints -> BOOLEAN]
    BY <1>3 DEF SetEnabled
  <2>3. QED
    BY <1>1, <2>1, <2>2, TypePartsNext
<1> QED
  BY <1>2, <1>3

LEMMA NextTypes == TypeOK /\ [Next]_vars => TypeOK'
<1> SUFFICES ASSUME TypeOK, [Next]_vars PROVE TypeOK'
  OBVIOUS
<1>1. CASE UNCHANGED vars
  BY <1>1 DEF vars, TypeOK
<1> QED
  BY <1>1, TickTypes, CreateTypes, SucceedTypes, FailTypes, BackoffEndsTypes,
     RetryMessageTypes, LeaseExpiresTypes, ClaimTypes, PatchTypes DEF Next

-----------------------------------------------------------------------------
(* What a claim leaves behind *)

FairStep == OnlyOwnLimitHoldsBack /\ OldestFirst

(* Only a claim leases deliveries, and it leases its batch. *)
LEMMA ClaimedAreTheBatch ==
  ASSUME TypeOK, Claim
  PROVE  \A d \in Deliveries : Claimed(d) <=> d \in Batch
<1>1. \A d \in Batch : state[d] = "waiting"
  BY DEF Batch, IsCandidate, Eligible
<1>2. \A d \in Deliveries : state'[d] = IF d \in Batch THEN "leased" ELSE state[d]
  BY ClaimSteps
<1> QED
  BY <1>1, <1>2 DEF Claimed

LEMMA OnlyClaimLeases ==
  ASSUME TypeOK, [Next]_vars, NEW d \in Deliveries, Claimed(d)
  PROVE  Claim
<1>1. CASE UNCHANGED state
  BY <1>1 DEF Claimed
<1>2. ASSUME Queueing \/ \E c \in Deliveries : LeaseExpires(c) PROVE FALSE
  <2>1. state'[d] \in {"absent", "waiting", "backing_off", "dead_letter", state[d]}
    BY <1>2 DEF Queueing, Create, Succeed, Fail, BackoffEnds, RetryMessage, LeaseExpires,
                TypeOK
  <2>2. QED
    BY <2>1 DEF Claimed
<1>3. UNCHANGED state \/ Claim \/ Queueing \/ \E c \in Deliveries : LeaseExpires(c)
  BY DEF Next, Queueing, Tick, SetRateLimit, SetEnabled, Patch, vars
<1> QED
  BY <1>1, <1>2, <1>3

(* If a candidate is left, the batch is full. *)
LEMMA FullBatch ==
  ASSUME TypeOK, NEW c \in Candidates, c \notin Batch
  PROVE  Cardinality(Batch) = BatchSize
BY ClaimIsMeasured

(* What is left of an endpoint whose candidates are all taken was beyond   *)
(* its capacity, or the batch is its own alone.                            *)
LEMMA LeftIsBeyondTheLimit ==
  ASSUME TypeOK, Claim, NEW d \in Deliveries, Eligible(d), d \notin Batch,
         CandidatesOf(EndpointOf[d]) \subseteq Batch
  PROVE  \/ Cardinality(Batch) = BatchSize
         \/ /\ limit[EndpointOf[d]] # None
            /\ window'[EndpointOf[d]].age < Second
            /\ window'[EndpointOf[d]].count = limit[EndpointOf[d]]
<1> DEFINE e == EndpointOf[d]
           n == Cardinality(Taken(e))
<1>1. e \in Endpoints
  OBVIOUS
<1>2. d \in Waiting(e) /\ d \notin CandidatesOf(e)
  BY DEF Waiting
<1>3. Taken(e) = CandidatesOf(e)
  BY ClaimIsMeasured DEF Taken, CandidatesOf
<1>4. n = Share(e)
  BY <1>1, <1>2, <1>3, ClaimIsMeasured
<1>5. n <= Cardinality(Batch)
  <2>1. Taken(e) \subseteq Batch
    BY DEF Taken
  <2>2. QED
    BY <2>1, ClaimIsMeasured, FS_Subset
<1>6. Cardinality(Batch) \in Nat /\ Cardinality(Batch) <= BatchSize
  BY ClaimIsMeasured
<1>7. AvailableCapacity(e) \in Nat
  BY <1>1, CapacityType
<1> HIDE DEF n
<1>8. CASE ~(AvailableCapacity(e) < BatchSize)
  <2>1. n = BatchSize
    BY <1>4, <1>7, <1>8 DEF Share
  <2>2. QED
    BY <1>5, <1>6, <2>1
<1>9. CASE AvailableCapacity(e) < BatchSize
  <2>1. limit[e] # None
    BY <1>9 DEF AvailableCapacity
  <2>2. /\ limit[e] \in Nat /\ limit[e] >= 1 /\ WindowCount(e) \in Nat
        /\ n = limit[e] - WindowCount(e) /\ n \in Nat
    BY <1>1, <1>4, <1>7, <1>9, <2>1, CapacityType DEF Share
  <2>3. window[e].age \in 0 .. Second /\ window[e].count \in Nat
    BY <1>1 DEF TypeOK
  <2>4. CASE n > 0
    <3>1. window'[e] = [age |-> IF HasActiveWindow(e) THEN window[e].age ELSE 0,
                        count |-> WindowCount(e) + n]
      BY <1>1, <2>1, <2>4, ClaimSteps DEF n
    <3>2. window'[e].count = limit[e]
      BY <2>2, <3>1
    <3>3. window'[e].age < Second
      BY <2>3, <3>1 DEF HasActiveWindow
    <3>4. QED
      BY <2>1, <3>2, <3>3
  <2>5. CASE ~(n > 0)
    <3>1. window'[e] = window[e]
      BY <1>1, <2>5, ClaimSteps DEF n
    <3>2. n = 0 /\ WindowCount(e) = limit[e]
      BY <2>2, <2>5
    <3>3. HasActiveWindow(e) /\ window[e].count = limit[e]
      BY <2>2, <3>2 DEF WindowCount
    <3>4. QED
      BY <2>1, <3>1, <3>3 DEF HasActiveWindow
  <2>6. QED
    BY <2>4, <2>5
<1> QED
  BY <1>8, <1>9

LEMMA OwnLimitStep == ASSUME TypeOK, [Next]_vars PROVE OnlyOwnLimitHoldsBack
<1> SUFFICES ASSUME NEW x \in Deliveries, Claimed(x), NEW d \in Deliveries, LeftWaiting(d)
             PROVE  \/ Cardinality({c \in Deliveries : Claimed(c)}) = BatchSize
                    \/ /\ limit[EndpointOf[d]] # None
                       /\ window'[EndpointOf[d]].age < Second
                       /\ window'[EndpointOf[d]].count = limit[EndpointOf[d]]
  BY DEF OnlyOwnLimitHoldsBack
<1>1. Claim
  BY OnlyClaimLeases
<1>2. {c \in Deliveries : Claimed(c)} = Batch
  BY <1>1, ClaimedAreTheBatch DEF Batch
<1>3. Eligible(d)
  BY DEF LeftWaiting, Eligible
<1>4. d \notin Batch
  BY <1>1, ClaimedAreTheBatch DEF LeftWaiting, Claimed
<1>5. CASE CandidatesOf(EndpointOf[d]) \subseteq Batch
  BY <1>1, <1>2, <1>3, <1>4, <1>5, LeftIsBeyondTheLimit
<1>6. CASE ~(CandidatesOf(EndpointOf[d]) \subseteq Batch)
  <2>1. PICK c \in Candidates : c \notin Batch
    BY <1>6 DEF CandidatesOf
  <2>2. QED
    BY <1>2, <2>1, FullBatch
<1> QED
  BY <1>5, <1>6

(* Whoever of S stands before one of the first k of S is one of them.      *)
LEMMA LeadingHasNoGap ==
  ASSUME TypeOK, NEW S, S \subseteq InLine, NEW k \in Nat,
         NEW c \in S, NEW d \in Leading(S, k), Precedes(c, d)
  PROVE  c \in Leading(S, k)
<1> DEFINE A == {x \in S : Precedes(x, c)}
           B == {x \in S : Precedes(x, d)}
<1>0. timeline \in Seq(Moments) /\ IsInjective(timeline)
  BY DEF TypeOK
<1>1. IsFiniteSet(S)
  BY <1>0, PlacesInLine, FS_Subset
<1>2. /\ \A x \in InLine : Place(x) \in Nat
      /\ \A x, y : Precedes(x, y) <=> Place(x) <= Place(y)
  <2>1. Len(timeline) \in Nat
    BY <1>0
  <2>2. QED
    BY <1>0, <2>1, PlacesInLine DEF Precedes
<1>3. A \subseteq B /\ B \subseteq S
  BY <1>2 DEF Leading
<1> HIDE DEF A, B
<1>4. IsFiniteSet(B)
  BY <1>1, <1>3, FS_Subset
<1>5. IsFiniteSet(A) /\ Cardinality(A) <= Cardinality(B)
  BY <1>3, <1>4, FS_Subset
<1>6. Cardinality(A) \in Nat /\ Cardinality(B) \in Nat
  BY <1>4, <1>5, FS_CardinalityType
<1>7. Cardinality(B) <= k
  BY DEF Leading, B
<1>8. Cardinality(A) <= k
  BY <1>5, <1>6, <1>7
<1> QED
  BY <1>8 DEF A, Leading

LEMMA OldestStep == ASSUME TypeOK, [Next]_vars PROVE OldestFirst
<1> SUFFICES ASSUME NEW c \in Deliveries, NEW d \in Deliveries, EndpointOf[c] = EndpointOf[d],
                    LeftWaiting(c), Claimed(d), DueBefore(c, d)
             PROVE  FALSE
  BY DEF OldestFirst
<1> DEFINE e == EndpointOf[d]
<1>0. timeline \in Seq(Moments) /\ IsInjective(timeline)
  BY DEF TypeOK
<1>1. c \in InLine /\ d \in InLine
  BY DEF DueBefore, InLine, ToSet
<1>2. Precedes(c, d)
  <2>1. PICK i, j \in DOMAIN timeline :
           timeline[i] = DueAt(c) /\ timeline[j] = DueAt(d) /\ i < j
    BY DEF DueBefore
  <2>2. Place(c) = i /\ Place(d) = j
    BY <1>0, <1>1, <2>1, PlacesInLine DEF IsInjective
  <2>3. i \in Nat /\ j \in Nat
    BY <1>0
  <2>4. QED
    BY <2>1, <2>2, <2>3 DEF Precedes
<1>3. Claim
  BY OnlyClaimLeases
<1>4. d \in Batch /\ c \notin Batch
  BY <1>3, ClaimedAreTheBatch DEF LeftWaiting, Claimed
<1>5. Eligible(c)
  BY DEF LeftWaiting, Eligible
<1>6. e \in Endpoints /\ EndpointOf[c] = e
  OBVIOUS
<1> HIDE DEF e
<1>7. d \in Candidates /\ d \in CandidatesOf(e)
  BY <1>4 DEF Batch, Candidates, CandidatesOf, e
<1>8. c \in CandidatesOf(e)
  <2>1. d \in Leading(Waiting(e), Share(e)) /\ Share(e) \in Nat
    BY <1>6, <1>7, CandidatesLead, CapacityType
  <2>2. c \in Waiting(e) /\ Waiting(e) \subseteq InLine
    BY <1>1, <1>5, <1>6, EligibleInLine DEF Waiting
  <2>3. c \in Leading(Waiting(e), Share(e))
    BY <1>2, <2>1, <2>2, LeadingHasNoGap
  <2>4. QED
    BY <1>6, <2>3, CandidatesLead
<1>9. c \in Batch
  <2>1. d \in Leading(Candidates, BatchSize)
    BY <1>4, BatchLeads
  <2>2. c \in Candidates /\ Candidates \subseteq InLine
    BY <1>8, EligibleInLine DEF CandidatesOf
  <2>3. c \in Leading(Candidates, BatchSize)
    BY <1>2, <2>1, <2>2, LeadingHasNoGap
  <2>4. QED
    BY <2>3, BatchLeads
<1> QED
  BY <1>4, <1>9

-----------------------------------------------------------------------------
(* Bursts *)

(* Of the claims of the last second, those that the window counts and the  *)
(* older ones.                                                             *)
Young(e) == {x \in LastSecond(e) : x[1] <= window[e].age}
Older(e) == {x \in LastSecond(e) : x[1] > window[e].age}

(* An open window began with a claim, when the claims of the second before *)
(* were fewer than the limit: one of them had ended the window they filled *)
(* by growing older than a second.                                         *)
OpenWindow(e) ==
    /\ recent[e][window[e].age] >= 1
    /\ Cardinality(Young(e)) = window[e].count
    /\ Cardinality(Older(e)) <= limit[e] - 1
ClosedWindow(e) ==
    /\ recent[e][0] = 0
    /\ Cardinality(LastSecond(e)) <= limit[e] - 1
BurstsOf(e) ==
    /\ IsFiniteSet(LastSecond(e))
    /\ HasActiveWindow(e) => OpenWindow(e)
    /\ ~HasActiveWindow(e) => ClosedWindow(e)
Bursts == \A e \in Endpoints : limit[e] # None => BurstsOf(e)

LEMMA ClaimsOfAge ==
  ASSUME RecentOK, NEW e \in Endpoints
  PROVE  \A x : x \in LastSecond(e) <=>
               \E a \in Ages, k \in Nat : x = <<a, k>> /\ 1 <= k /\ k <= recent[e][a]
<1>1. \A a \in Ages : recent[e][a] \in Nat
  BY DEF RecentOK
<1>2. \A x : x \in LastSecond(e) <=> \E a \in Ages : x \in {a} \X (1 .. recent[e][a])
  BY DEF LastSecond
<1>3. \A x, a : a \in Ages =>
         (x \in {a} \X (1 .. recent[e][a]) <=>
             \E k \in Nat : x = <<a, k>> /\ 1 <= k /\ k <= recent[e][a])
  BY <1>1
<1> QED
  BY <1>2, <1>3

(* A second has as many claims as its window counts and the older ones.    *)
LEMMA SecondIsSplit ==
  ASSUME NEW e, IsFiniteSet(LastSecond(e)), NEW g \in Nat, window[e].age = g,
         \A x \in LastSecond(e) : x[1] \in Nat
  PROVE  /\ Cardinality(Young(e)) \in Nat /\ Cardinality(Older(e)) \in Nat
         /\ Cardinality(LastSecond(e)) = Cardinality(Young(e)) + Cardinality(Older(e))
<1>1. /\ Young(e) \subseteq LastSecond(e) /\ Older(e) \subseteq LastSecond(e)
      /\ LastSecond(e) = Young(e) \cup Older(e) /\ Young(e) \cap Older(e) = {}
  BY DEF Young, Older
<1>2. IsFiniteSet(Young(e)) /\ IsFiniteSet(Older(e))
  BY <1>1, FS_Subset
<1>3. Cardinality(Young(e)) \in Nat /\ Cardinality(Older(e)) \in Nat
  BY <1>2, FS_CardinalityType
<1>4. Cardinality({}) = 0
  BY FS_EmptySet
<1>5. Cardinality(Young(e) \cup Older(e))
         = Cardinality(Young(e)) + Cardinality(Older(e)) - Cardinality(Young(e) \cap Older(e))
  BY <1>2, FS_Union
<1>6. Cardinality(Young(e) \cap Older(e)) = 0
  BY <1>1, <1>4
<1>7. Cardinality(LastSecond(e)) = Cardinality(Young(e) \cup Older(e))
  BY <1>1
<1> QED
  BY <1>3, <1>5, <1>6, <1>7

LEMMA BurstsAreBounded == ASSUME TypeOK, Bursts PROVE BurstIsBounded
<1> SUFFICES ASSUME NEW e \in Endpoints, limit[e] # None
             PROVE  Cardinality(LastSecond(e)) <= 2 * limit[e] - 1
  BY DEF BurstIsBounded, ClaimsOfTheLastSecond
<1>1. /\ limit[e] \in Nat /\ limit[e] >= 1
      /\ window[e].count \in Nat /\ window[e].count <= limit[e]
      /\ window[e].age \in Nat
  BY CapacityType DEF TypeOK
<1>2. BurstsOf(e)
  BY DEF Bursts
<1>3. \A x \in LastSecond(e) : x[1] \in Nat
  BY ClaimsOfAge, TypeParts DEF Ages
<1>4. Cardinality(LastSecond(e)) \in Nat
  BY <1>2, FS_CardinalityType DEF BurstsOf
<1>5. CASE HasActiveWindow(e)
  <2>1. /\ Cardinality(Young(e)) = window[e].count
        /\ Cardinality(Older(e)) <= limit[e] - 1
    BY <1>2, <1>5 DEF BurstsOf, OpenWindow
  <2>2. /\ Cardinality(Older(e)) \in Nat
        /\ Cardinality(LastSecond(e)) = Cardinality(Young(e)) + Cardinality(Older(e))
    BY <1>1, <1>2, <1>3, SecondIsSplit DEF BurstsOf
  <2>3. QED
    BY <1>1, <2>1, <2>2
<1>6. CASE ~HasActiveWindow(e)
  <2>1. Cardinality(LastSecond(e)) <= limit[e] - 1
    BY <1>2, <1>6 DEF BurstsOf, ClosedWindow
  <2>2. QED
    BY <1>1, <1>4, <2>1
<1> QED
  BY <1>5, <1>6

(* Claims that grow a tick older are as many as before. *)
Aged(S) == {<<x[1] + 1, x[2]>> : x \in S}

LEMMA AgedAreAsMany ==
  ASSUME NEW S, S \subseteq Nat \X Nat, IsFiniteSet(S)
  PROVE  IsFiniteSet(Aged(S)) /\ Cardinality(Aged(S)) = Cardinality(S)
<1> DEFINE f == [x \in S |-> <<x[1] + 1, x[2]>>]
<1>1. \A x \in S : x[1] \in Nat /\ x[2] \in Nat /\ x = <<x[1], x[2]>>
  OBVIOUS
<1>2. \A x, y \in S : f[x] = f[y] => x = y
  <2> SUFFICES ASSUME NEW x \in S, NEW y \in S, f[x] = f[y] PROVE x = y
    OBVIOUS
  <2>1. x[1] + 1 = y[1] + 1 /\ x[2] = y[2]
    OBVIOUS
  <2>2. x[1] = y[1]
    BY <1>1, <2>1
  <2>3. QED
    BY <1>1, <2>1, <2>2
<1>3. f \in [S -> Aged(S)] /\ \A y \in Aged(S) : \E x \in S : f[x] = y
  BY DEF Aged
<1> HIDE DEF f
<1>4. f \in Bijection(S, Aged(S))
  BY <1>2, <1>3 DEF Bijection, Injection, Surjection, IsInjective
<1> QED
  BY <1>4, FS_Bijection DEF ExistsBijection

(* Those that stay within a second when it passes *)
Staying(S) == {x \in S : x[1] + 1 \in Ages}

LEMMA StayingAreFewer ==
  ASSUME NEW S, S \subseteq Nat \X Nat, IsFiniteSet(S)
  PROVE  /\ Staying(S) \subseteq Nat \X Nat /\ IsFiniteSet(Staying(S))
         /\ IsFiniteSet(Aged(Staying(S)))
         /\ Cardinality(Aged(Staying(S))) \in Nat /\ Cardinality(S) \in Nat
         /\ Cardinality(Aged(Staying(S))) = Cardinality(Staying(S))
         /\ Cardinality(Staying(S)) <= Cardinality(S)
<1>1. Staying(S) \subseteq S
  BY DEF Staying
<1>2. IsFiniteSet(Staying(S)) /\ Cardinality(Staying(S)) <= Cardinality(S)
  BY <1>1, FS_Subset
<1>3. /\ IsFiniteSet(Aged(Staying(S)))
      /\ Cardinality(Aged(Staying(S))) = Cardinality(Staying(S))
  BY <1>1, <1>2, AgedAreAsMany
<1>4. Cardinality(S) \in Nat /\ Cardinality(Staying(S)) \in Nat
  BY <1>2, FS_CardinalityType
<1> QED
  BY <1>1, <1>2, <1>3, <1>4

LEMMA TickAges ==
  ASSUME TypeOK, Tick, NEW e \in Endpoints
  PROVE  /\ LastSecond(e) \subseteq Ages \X Nat
         /\ LastSecond(e)' = Aged(Staying(LastSecond(e)))
         /\ window'[e].count = window[e].count
         /\ window'[e].age = IF window[e].age < Second THEN window[e].age + 1
                             ELSE window[e].age
         /\ \A a \in Ages : recent'[e][a] = IF a = 0 THEN 0 ELSE recent[e][a - 1]
<1>1. RecentOK /\ RecentOK'
  <2>1. TypeOK'
    BY TickTypes
  <2>2. TypeOK' => RecentOK'
    BY DEF TypeOK, RecentOK
  <2>3. QED
    BY <2>1, <2>2, TypeParts
<1>2. \A a \in Ages : recent'[e][a] = IF a = 0 THEN 0 ELSE recent[e][a - 1]
  BY DEF Tick
<1>3. \A x : x \in LastSecond(e) <=>
               \E a \in Ages, k \in Nat : x = <<a, k>> /\ 1 <= k /\ k <= recent[e][a]
  BY <1>1, ClaimsOfAge
<1>4. \A x : x \in LastSecond(e)' <=>
               \E a \in Ages, k \in Nat : x = <<a, k>> /\ 1 <= k /\ k <= recent'[e][a]
  <2>1. \A a \in Ages : recent'[e][a] \in Nat
    BY <1>1 DEF RecentOK
  <2>2. \A x : x \in LastSecond(e)' <=> \E a \in Ages : x \in {a} \X (1 .. recent'[e][a])
    BY DEF LastSecond
  <2>3. \A x, a : a \in Ages =>
           (x \in {a} \X (1 .. recent'[e][a]) <=>
               \E k \in Nat : x = <<a, k>> /\ 1 <= k /\ k <= recent'[e][a])
    BY <2>1
  <2>4. QED
    BY <2>2, <2>3
<1>5. ASSUME NEW x \in LastSecond(e)' PROVE x \in Aged(Staying(LastSecond(e)))
  <2>1. PICK a \in Ages, k \in Nat : x = <<a, k>> /\ 1 <= k /\ k <= recent'[e][a]
    BY <1>4, <1>5
  <2>2. a # 0 /\ k <= recent[e][a - 1]
    BY <1>2, <2>1
  <2>3. a - 1 \in Ages /\ (a - 1) + 1 = a
    BY <2>2 DEF Ages
  <2>4. <<a - 1, k>> \in LastSecond(e)
    BY <1>3, <2>1, <2>2, <2>3
  <2>5. <<a - 1, k>> \in Staying(LastSecond(e))
    BY <2>3, <2>4 DEF Staying
  <2>6. QED
    BY <2>1, <2>3, <2>5 DEF Aged
<1>6. ASSUME NEW x \in Aged(Staying(LastSecond(e))) PROVE x \in LastSecond(e)'
  <2>1. PICK y \in LastSecond(e) : y[1] + 1 \in Ages /\ x = <<y[1] + 1, y[2]>>
    BY <1>6 DEF Aged, Staying
  <2>2. PICK a \in Ages, k \in Nat : y = <<a, k>> /\ 1 <= k /\ k <= recent[e][a]
    BY <1>3, <2>1
  <2>3. x = <<a + 1, k>> /\ a + 1 \in Ages /\ a + 1 # 0 /\ (a + 1) - 1 = a
    BY <2>1, <2>2 DEF Ages
  <2>4. recent'[e][a + 1] = recent[e][a]
    BY <1>2, <2>3
  <2>5. QED
    BY <1>4, <2>2, <2>3, <2>4
<1>7. /\ window'[e].count = window[e].count
      /\ window'[e].age = IF window[e].age < Second THEN window[e].age + 1
                          ELSE window[e].age
  BY DEF Tick
<1>8. LastSecond(e) \subseteq Ages \X Nat
  BY <1>3
<1> QED
  BY <1>2, <1>5, <1>6, <1>7, <1>8

LEMMA TickBursts ==
  ASSUME TypeOK, Tick, NEW e \in Endpoints, limit[e] # None, BurstsOf(e)
  PROVE  BurstsOf(e)'
<1> DEFINE S == LastSecond(e)
           g == window[e].age
<1>1. /\ S \subseteq Ages \X Nat /\ S \subseteq Nat \X Nat /\ IsFiniteSet(S)
      /\ LastSecond(e)' = Aged(Staying(S))
  <2>1. Ages \subseteq Nat
    BY DEF Ages
  <2>2. QED
    BY <2>1, TickAges DEF BurstsOf
<1>2. /\ IsFiniteSet(LastSecond(e)') /\ Cardinality(LastSecond(e)') \in Nat
      /\ Cardinality(S) \in Nat /\ IsFiniteSet(Staying(S))
      /\ Cardinality(LastSecond(e)') = Cardinality(Staying(S))
      /\ Cardinality(LastSecond(e)') <= Cardinality(S)
  <2> HIDE DEF S
  <2>1. QED
    BY <1>1, StayingAreFewer
<1>3. /\ limit'[e] = limit[e] /\ limit[e] \in Nat /\ limit[e] >= 1
      /\ window[e].count \in Nat /\ window[e].count <= limit[e]
      /\ g \in 0 .. Second /\ g \in Nat
  BY CapacityType DEF Tick, TypeOK
<1>4. /\ window'[e].count = window[e].count
      /\ window'[e].age = IF g < Second THEN g + 1 ELSE g
      /\ \A a \in Ages : recent'[e][a] = IF a = 0 THEN 0 ELSE recent[e][a - 1]
  BY TickAges
<1>5. 0 \in Ages /\ recent'[e][0] = 0
  BY <1>4 DEF Ages
<1> HIDE DEF S, g
<1>6. CASE g + 1 < Second
  <2>1. HasActiveWindow(e) /\ HasActiveWindow(e)'
    BY <1>3, <1>4, <1>6 DEF HasActiveWindow, g
  <2>2. OpenWindow(e)
    BY <2>1 DEF BurstsOf
  <2>3. recent'[e][window'[e].age] >= 1
    <3>1. g + 1 \in Ages /\ g + 1 # 0 /\ (g + 1) - 1 = g /\ window'[e].age = g + 1
      BY <1>3, <1>4, <1>6 DEF Ages
    <3>2. QED
      BY <1>4, <2>2, <3>1 DEF OpenWindow, g
  <2>4. Young(e) \subseteq S /\ Older(e) \subseteq S
    BY DEF Young, Older, S
  <2>5. /\ Young(e) \subseteq Nat \X Nat /\ IsFiniteSet(Young(e))
        /\ Older(e) \subseteq Nat \X Nat /\ IsFiniteSet(Older(e))
    BY <1>1, <2>4, FS_Subset
  <2>6. \A x \in S : x[1] \in Ages /\ x[1] \in Nat
    BY <1>1
  <2>7. \A x \in S : x[1] <= g => x[1] + 1 \in Ages
    BY <1>3, <1>6, <2>6 DEF Ages
  <2>8. \A x \in S : (x[1] + 1 <= g + 1 <=> x[1] <= g) /\ (x[1] + 1 > g + 1 <=> x[1] > g)
    BY <1>3, <2>6
  <2>9. Young(e)' = Aged(Young(e)) /\ Older(e)' = Aged(Staying(Older(e)))
    <3>1. window'[e].age = g + 1
      BY <1>3, <1>4, <1>6
    <3>2. Young(e)' = {y \in Aged(Staying(S)) : y[1] <= g + 1}
      BY <1>1, <3>1 DEF Young
    <3>3. Older(e)' = {y \in Aged(Staying(S)) : y[1] > g + 1}
      BY <1>1, <3>1 DEF Older
    <3>4. Young(e) = {x \in S : x[1] <= g} /\ Older(e) = {x \in S : x[1] > g}
      BY DEF Young, Older, S, g
    <3>5. {y \in Aged(Staying(S)) : y[1] <= g + 1} = Aged({x \in S : x[1] <= g})
      BY <2>7, <2>8 DEF Aged, Staying
    <3>6. {y \in Aged(Staying(S)) : y[1] > g + 1} = Aged(Staying({x \in S : x[1] > g}))
      BY <2>8 DEF Aged, Staying
    <3>7. QED
      BY <3>2, <3>3, <3>4, <3>5, <3>6
  <2>10. Cardinality(Young(e)') = Cardinality(Young(e))
    BY <2>5, <2>9, AgedAreAsMany
  <2>11. Cardinality(Older(e)') <= limit[e] - 1
    <3>1. /\ Cardinality(Aged(Staying(Older(e)))) \in Nat /\ Cardinality(Older(e)) \in Nat
          /\ Cardinality(Aged(Staying(Older(e)))) = Cardinality(Staying(Older(e)))
          /\ Cardinality(Staying(Older(e))) <= Cardinality(Older(e))
      BY <2>5, StayingAreFewer
    <3>2. Cardinality(Older(e)) <= limit[e] - 1
      BY <2>2 DEF OpenWindow
    <3>3. QED
      BY <1>3, <2>9, <3>1, <3>2
  <2>12. OpenWindow(e)'
    BY <1>3, <1>4, <2>2, <2>3, <2>10, <2>11 DEF OpenWindow
  <2>13. QED
    BY <1>2, <2>1, <2>12 DEF BurstsOf
<1>7. CASE g + 1 = Second
  <2>1. HasActiveWindow(e) /\ ~HasActiveWindow(e)'
    BY <1>3, <1>4, <1>7 DEF HasActiveWindow, g
  <2>2. OpenWindow(e)
    BY <2>1 DEF BurstsOf
  <2>3. Older(e) = {}
    <3>1. \A x \in S : x[1] \in 0 .. Second - 1
      BY <1>1 DEF Ages
    <3>2. \A x \in S : ~(x[1] > g)
      BY <1>3, <1>7, <3>1
    <3>3. QED
      BY <3>2 DEF Older, S, g
  <2>4. Cardinality(S) <= limit[e]
    <3>1. Cardinality({}) = 0
      BY FS_EmptySet
    <3>2. /\ Cardinality(Young(e)) \in Nat
          /\ Cardinality(S) = Cardinality(Young(e)) + Cardinality(Older(e))
      BY <1>1, <1>3, SecondIsSplit DEF S, g
    <3>3. QED
      BY <1>3, <2>2, <2>3, <3>1, <3>2 DEF OpenWindow
  <2>5. <<g, 1>> \in S
    <3>1. g \in Ages /\ recent[e][g] >= 1
      BY <1>3, <1>7, <2>2 DEF OpenWindow, Ages, g
    <3>2. QED
      BY <3>1, ClaimsOfAge, TypeParts DEF S
  <2>6. Staying(S) \subseteq S \ {<<g, 1>>}
    BY <1>3, <1>7 DEF Staying, Ages
  <2>7. IsFiniteSet(S \ {<<g, 1>>}) /\ Cardinality(S \ {<<g, 1>>}) = Cardinality(S) - 1
    BY <1>1, <2>5, FS_RemoveElement
  <2>8. Cardinality(Staying(S)) <= Cardinality(S) - 1
    BY <2>6, <2>7, FS_Subset
  <2>9. Cardinality(LastSecond(e)') <= limit'[e] - 1
    BY <1>2, <1>3, <2>4, <2>8
  <2>10. QED
    BY <1>2, <1>5, <2>1, <2>9 DEF BurstsOf, ClosedWindow
<1>8. CASE g = Second
  <2>1. ~HasActiveWindow(e) /\ ~HasActiveWindow(e)'
    BY <1>3, <1>4, <1>8 DEF HasActiveWindow, g
  <2>2. Cardinality(S) <= limit[e] - 1
    BY <2>1 DEF BurstsOf, ClosedWindow, S
  <2>3. Cardinality(LastSecond(e)') <= limit'[e] - 1
    BY <1>2, <1>3, <2>2
  <2>4. QED
    BY <1>2, <1>5, <2>1, <2>3 DEF BurstsOf, ClosedWindow
<1>9. g + 1 < Second \/ g + 1 = Second \/ g = Second
  BY <1>3
<1> QED
  BY <1>6, <1>7, <1>8, <1>9

(* A claim adds its own, of age 0.                                         *)
NewClaims(r, n) == {0} \X (r + 1 .. r + n)

LEMMA ClaimsAdd ==
  ASSUME NEW S, IsFiniteSet(S), NEW r \in Nat, NEW n \in Nat, S \cap NewClaims(r, n) = {}
  PROVE  /\ IsFiniteSet(S \cup NewClaims(r, n))
         /\ Cardinality(S \cup NewClaims(r, n)) = Cardinality(S) + n
<1> DEFINE I == r + 1 .. r + n
           N == NewClaims(r, n)
<1>1. IsFiniteSet(I) /\ Cardinality(I) = n
  BY FS_Interval
<1> DEFINE f == [i \in I |-> <<0, i>>]
<1>2. f \in Bijection(I, N)
  <2>1. N = {0} \X I
    BY DEF NewClaims
  <2> HIDE DEF I, N
  <2>2. f \in [I -> N] /\ \A i \in I : f[i] = <<0, i>>
    BY <2>1
  <2>3. \A y \in N : \E i \in I : f[i] = y
    BY <2>1, <2>2
  <2> HIDE DEF f
  <2>4. QED
    BY <2>2, <2>3 DEF Bijection, Injection, Surjection, IsInjective
<1> HIDE DEF f, I
<1>3. IsFiniteSet(N) /\ Cardinality(N) = n
  BY <1>1, <1>2, FS_Bijection DEF ExistsBijection
<1> HIDE DEF N
<1>4. Cardinality(S) \in Nat
  BY FS_CardinalityType
<1>5. S \cap N = {} /\ Cardinality({}) = 0
  BY FS_EmptySet DEF N
<1>6. Cardinality(S \cap N) = 0
  BY <1>5
<1>7. /\ IsFiniteSet(S \cup N)
      /\ Cardinality(S \cup N) = Cardinality(S) + Cardinality(N) - Cardinality(S \cap N)
  BY <1>3, FS_Union
<1>8. IsFiniteSet(S \cup N) /\ Cardinality(S \cup N) = Cardinality(S) + n
  BY <1>3, <1>4, <1>6, <1>7
<1> QED
  BY <1>8 DEF N

LEMMA ClaimBursts ==
  ASSUME TypeOK, Claim, NEW e \in Endpoints, limit[e] # None, BurstsOf(e)
  PROVE  BurstsOf(e)'
<1> DEFINE S == LastSecond(e)
           n == Cardinality(Taken(e))
           r == recent[e][0]
<1>1. n \in Nat /\ 0 \in Ages /\ r \in Nat /\ \A a \in Ages : recent[e][a] \in Nat
  BY ClaimIsMeasured, TypeParts DEF RecentOK, Ages
<1>2. limit'[e] = limit[e] /\ limit[e] \in Nat /\ limit[e] >= 1
  BY CapacityType, ClaimSteps
<1>3. CASE n = 0
  <2>1. window'[e] = window[e] /\ recent'[e] = recent[e]
    BY <1>3, ClaimSteps
  <2>2. /\ LastSecond(e)' = LastSecond(e) /\ Young(e)' = Young(e) /\ Older(e)' = Older(e)
        /\ HasActiveWindow(e)' = HasActiveWindow(e)
    BY <2>1 DEF LastSecond, Young, Older, HasActiveWindow
  <2>3. QED
    BY <1>2, <2>1, <2>2 DEF BurstsOf, OpenWindow, ClosedWindow
<1>4. CASE n > 0
  <2>1. /\ window'[e] = [age |-> IF HasActiveWindow(e) THEN window[e].age ELSE 0,
                         count |-> WindowCount(e) + n]
        /\ recent'[e] = [a \in Ages |-> recent[e][a] + (IF a = 0 THEN n ELSE 0)]
    BY <1>4, ClaimSteps
  <2> DEFINE N == NewClaims(r, n)
             g == IF HasActiveWindow(e) THEN window[e].age ELSE 0
  <2> HIDE DEF n, r
  <2>2. /\ \A a \in Ages : recent'[e][a] = recent[e][a] + (IF a = 0 THEN n ELSE 0)
        /\ window'[e].age = g /\ window'[e].count = WindowCount(e) + n
    BY <2>1
  <2>3. window[e].age \in 0 .. Second /\ g \in 0 .. Second - 1 /\ HasActiveWindow(e)'
    BY <2>2 DEF TypeOK, HasActiveWindow
  <2>4. \A x : x \in S <=>
               \E a \in Ages, k \in Nat : x = <<a, k>> /\ 1 <= k /\ k <= recent[e][a]
    BY ClaimsOfAge, TypeParts
  <2>5. \A x : x \in N <=> \E k \in Nat : x = <<0, k>> /\ r + 1 <= k /\ k <= r + n
    BY <1>1 DEF NewClaims
  <2>6. \A x : x \in LastSecond(e)' <=>
               \E a \in Ages, k \in Nat : x = <<a, k>> /\ 1 <= k /\ k <= recent'[e][a]
    <3>1. \A a \in Ages : recent'[e][a] \in Nat
      BY <1>1, <2>2
    <3>2. \A x : x \in LastSecond(e)' <=> \E a \in Ages : x \in {a} \X (1 .. recent'[e][a])
      BY DEF LastSecond
    <3>3. \A x, a : a \in Ages =>
             (x \in {a} \X (1 .. recent'[e][a]) <=>
                 \E k \in Nat : x = <<a, k>> /\ 1 <= k /\ k <= recent'[e][a])
      BY <3>1
    <3>4. QED
      BY <3>2, <3>3
  <2>7. LastSecond(e)' = S \cup N
    <3>1. ASSUME NEW x, x \in LastSecond(e)' PROVE x \in S \/ x \in N
      <4>1. PICK a \in Ages, k \in Nat : x = <<a, k>> /\ 1 <= k /\ k <= recent'[e][a]
        BY <2>6, <3>1
      <4>2. CASE k <= recent[e][a]
        BY <2>4, <4>1, <4>2
      <4>3. CASE ~(k <= recent[e][a])
        <5>1. a = 0 /\ k <= r + n /\ r + 1 <= k
          BY <1>1, <2>2, <4>1, <4>3 DEF r
        <5>2. QED
          BY <2>5, <4>1, <5>1
      <4>4. QED
        BY <4>2, <4>3
    <3>2. ASSUME NEW x, x \in S PROVE x \in LastSecond(e)'
      <4>1. PICK a \in Ages, k \in Nat : x = <<a, k>> /\ 1 <= k /\ k <= recent[e][a]
        BY <2>4, <3>2
      <4>2. recent'[e][a] >= recent[e][a] /\ recent'[e][a] \in Nat /\ recent[e][a] \in Nat
        BY <1>1, <2>2
      <4>3. QED
        BY <2>6, <4>1, <4>2
    <3>3. ASSUME NEW x, x \in N PROVE x \in LastSecond(e)'
      <4>1. PICK k \in Nat : x = <<0, k>> /\ r + 1 <= k /\ k <= r + n
        BY <2>5, <3>3
      <4>2. recent'[e][0] = r + n /\ 1 <= k
        BY <1>1, <2>2, <4>1 DEF r
      <4>3. QED
        BY <1>1, <2>6, <4>1, <4>2
    <3>4. QED
      BY <3>1, <3>2, <3>3
  <2>8. S \cap N = {} /\ \A x \in N : x[1] = 0
    <3>1. ASSUME NEW x \in S, x \in N PROVE FALSE
      <4>1. PICK k \in Nat : x = <<0, k>> /\ r + 1 <= k
        BY <2>5, <3>1
      <4>2. k <= r
        BY <2>4, <3>1, <4>1 DEF r
      <4>3. QED
        BY <1>1, <4>1, <4>2
    <3>2. QED
      BY <2>5, <3>1
  <2>9. \A x \in S : x[1] \in Ages /\ x[1] \in Nat
    BY <2>4 DEF Ages
  <2> HIDE DEF S, N, g
  <2>10. IsFiniteSet(S)
    BY DEF BurstsOf, S
  <2>11. IsFiniteSet(LastSecond(e)')
    BY <1>1, <2>7, <2>8, <2>10, ClaimsAdd DEF N
  <2>12. /\ Young(e)' = {x \in S \cup N : x[1] <= g}
         /\ Older(e)' = {x \in S \cup N : x[1] > g}
    BY <2>2, <2>7 DEF Young, Older
  <2>13. 0 <= g /\ g \in Nat /\ ~(0 > g)
    BY <2>3
  <2>14. CASE HasActiveWindow(e)
    <3>1. OpenWindow(e) /\ g = window[e].age /\ WindowCount(e) = window[e].count
      BY <2>14 DEF BurstsOf, g, WindowCount
    <3>2. Young(e) = {x \in S : x[1] <= g} /\ Older(e) = {x \in S : x[1] > g}
      BY <3>1 DEF Young, Older, S
    <3>3. Young(e)' = Young(e) \cup N /\ Older(e)' = Older(e)
      BY <2>8, <2>12, <2>13, <3>2
    <3>4. IsFiniteSet(Young(e)) /\ Young(e) \cap N = {}
      <4>1. Young(e) \subseteq S
        BY <3>2
      <4>2. QED
        BY <2>8, <2>10, <4>1, FS_Subset
    <3>5. Cardinality(Young(e)') = Cardinality(Young(e)) + n
      BY <1>1, <3>3, <3>4, ClaimsAdd DEF N
    <3>6. recent'[e][window'[e].age] >= 1
      <4>1. g \in Ages /\ recent[e][g] >= 1
        BY <2>3, <3>1 DEF OpenWindow, Ages
      <4>2. QED
        BY <1>1, <2>2, <4>1
    <3>7. Cardinality(Young(e)') = window'[e].count
      BY <2>2, <3>1, <3>5 DEF OpenWindow
    <3>8. OpenWindow(e)'
      BY <1>2, <3>1, <3>3, <3>6, <3>7 DEF OpenWindow
    <3>9. QED
      BY <2>3, <2>11, <3>8 DEF BurstsOf
  <2>15. CASE ~HasActiveWindow(e)
    <3>1. ClosedWindow(e) /\ g = 0 /\ WindowCount(e) = 0
      BY <2>15 DEF BurstsOf, g, WindowCount
    <3>2. r = 0
      BY <3>1 DEF ClosedWindow, r
    <3>3. \A x \in S : x[1] > 0
      <4>1. ASSUME NEW x \in S PROVE x[1] # 0
        <5>1. PICK a \in Ages, k \in Nat : x = <<a, k>> /\ 1 <= k /\ k <= recent[e][a]
          BY <2>4
        <5>2. a # 0
          BY <3>2, <5>1 DEF r
        <5>3. QED
          BY <5>1, <5>2
      <4>2. QED
        BY <2>9, <4>1
    <3>4. Young(e)' = N /\ Older(e)' = S
      BY <2>8, <2>9, <2>12, <3>1, <3>3
    <3>5. Cardinality(N) = n
      <4>1. IsFiniteSet({}) /\ Cardinality({}) = 0
        BY FS_EmptySet
      <4>2. {} \cap NewClaims(r, n) = {} /\ {} \cup NewClaims(r, n) = NewClaims(r, n)
        OBVIOUS
      <4>3. Cardinality({} \cup NewClaims(r, n)) = Cardinality({}) + n
        BY <1>1, <4>1, <4>2, ClaimsAdd
      <4>4. QED
        BY <1>1, <4>1, <4>2, <4>3 DEF N
    <3>6. recent'[e][window'[e].age] >= 1
      BY <1>1, <1>4, <2>2, <3>1, <3>2 DEF r
    <3>7. Cardinality(Young(e)') = window'[e].count
      BY <1>1, <2>2, <3>1, <3>4, <3>5
    <3>8. Cardinality(Older(e)') <= limit'[e] - 1
      BY <1>2, <3>1, <3>4 DEF ClosedWindow, S
    <3>9. OpenWindow(e)'
      BY <3>6, <3>7, <3>8 DEF OpenWindow
    <3>10. QED
      BY <2>3, <2>11, <3>9 DEF BurstsOf
  <2>16. QED
    BY <2>14, <2>15
<1> QED
  BY <1>1, <1>3, <1>4

LEMMA NoClaimsNoBursts ==
  ASSUME NEW e, NEW lim \in Nat, lim >= 1, recent[e] = NoClaims, window[e] = NoWindow,
         limit[e] = lim
  PROVE  BurstsOf(e)
<1>1. LastSecond(e) = {}
  BY NothingYet DEF LastSecond
<1>2. IsFiniteSet(LastSecond(e)) /\ Cardinality(LastSecond(e)) = 0
  BY <1>1, FS_EmptySet
<1>3. 0 \in Ages /\ ~HasActiveWindow(e)
  BY NothingYet DEF Ages, HasActiveWindow
<1> QED
  BY <1>2, <1>3, NothingYet DEF BurstsOf, ClosedWindow

FreshIsQuiet ==
    \A e \in Endpoints :
        /\ limit[e] \in Nat \ {0} /\ recent[e] = NoClaims /\ window[e] = NoWindow
        => BurstsOf(e)

LEMMA FreshStaysQuiet == FreshIsQuiet'
<1>1. FreshIsQuiet
  <2>1. \A n \in Nat \ {0} : n >= 1
    OBVIOUS
  <2>2. QED
    BY <2>1, NoClaimsNoBursts DEF FreshIsQuiet
<1> QED
  BY <1>1, PTL

LEMMA SameBursts ==
  ASSUME NEW e, BurstsOf(e), limit'[e] = limit[e], window'[e] = window[e],
         recent'[e] = recent[e]
  PROVE  BurstsOf(e)'
<1>1. /\ LastSecond(e)' = LastSecond(e) /\ Young(e)' = Young(e) /\ Older(e)' = Older(e)
      /\ HasActiveWindow(e)' = HasActiveWindow(e)
  BY DEF LastSecond, Young, Older, HasActiveWindow
<1> QED
  BY <1>1 DEF BurstsOf, OpenWindow, ClosedWindow

LEMMA InitBursts == Init => Bursts
<1> SUFFICES ASSUME Init, NEW e \in Endpoints, limit[e] # None PROVE BurstsOf(e)
  BY DEF Bursts
<1>1. limit[e] \in Nat /\ limit[e] >= 1
  BY InitTypes, CapacityType
<1>2. recent[e] = NoClaims /\ window[e] = NoWindow
  BY DEF Init
<1> QED
  BY <1>1, <1>2, NoClaimsNoBursts

LEMMA NextBursts == TypeOK /\ Bursts /\ [Next]_vars => Bursts'
<1> SUFFICES ASSUME TypeOK, Bursts, [Next]_vars, NEW e \in Endpoints, limit'[e] # None
             PROVE  BurstsOf(e)'
  BY DEF Bursts
<1>1. CASE UNCHANGED <<limit, window, recent>>
  BY <1>1, SameBursts DEF Bursts
<1>2. CASE Tick
  <2>1. limit[e] # None
    BY <1>2 DEF Tick
  <2>2. QED
    BY <1>2, <2>1, TickBursts DEF Bursts
<1>3. CASE Claim
  <2>1. limit[e] # None
    BY <1>3, ClaimSteps
  <2>2. QED
    BY <1>3, <2>1, ClaimBursts DEF Bursts
<1>4. ASSUME NEW f \in Endpoints, NEW n \in Limits[f], SetRateLimit(f, n)
      PROVE  BurstsOf(e)'
  <2>1. /\ limit'[e] = IF e = f THEN n ELSE limit[e]
        /\ window'[e] = IF e = f THEN NoWindow ELSE window[e]
        /\ recent'[e] = IF e = f THEN NoClaims ELSE recent[e]
    BY <1>4, TypeParts DEF SetRateLimit, LimitOK, WindowOK, RecentOK
  <2>2. CASE e = f
    <3>1. n \in Nat /\ n >= 1
      <4>1. n \in (Nat \ {0}) \cup {None}
        OBVIOUS
      <4>2. QED
        BY <2>1, <2>2, <4>1
    <3>2. QED
      BY <2>1, <2>2, <3>1, FreshStaysQuiet DEF FreshIsQuiet
  <2>3. CASE e # f
    BY <2>1, <2>3, SameBursts DEF Bursts
  <2>4. QED
    BY <2>2, <2>3
<1> QED
  BY <1>1, <1>2, <1>3, <1>4 DEF Next, Create, Succeed, Fail, BackoffEnds, RetryMessage,
                               LeaseExpires, SetEnabled, vars

-----------------------------------------------------------------------------
(* What holds of every behaviour *)

IInv == TypeOK /\ Bursts

(* Every window counts what it began with and since, and what is older in  *)
(* the last second leaves room for a claim.                                *)
THEOREM ThrottleInvariant == Spec => []IInv
<1>1. Init => IInv
  BY InitTypes, InitBursts DEF IInv
<1>2. IInv /\ [Next]_vars => IInv'
  BY NextTypes, NextBursts DEF IInv
<1> QED
  BY <1>1, <1>2, PTL DEF Spec

(* Every delivery that is due or leased has one place in the line, a dead  *)
(* letter keeps that of its creation, and no window counts more claims     *)
(* than its endpoint's limit (worker.ts:323).                              *)
THEOREM ThrottleTypes == Spec => []TypeOK
<1>1. IInv => TypeOK
  BY DEF IInv
<1> QED
  BY <1>1, ThrottleInvariant, PTL

(* F-0030.md:15, F-0030.md:61: an endpoint with limit N gets at most       *)
(* 2N - 1 claims in any second since the limit was last set.               *)
THEOREM BurstsStayBounded == Spec => []BurstIsBounded
<1>1. IInv => BurstIsBounded
  BY BurstsAreBounded DEF IInv
<1> QED
  BY <1>1, ThrottleInvariant, PTL

(* F-0030.md:38-39: no endpoint is held back by another's throttle, and    *)
(* the deliveries of an endpoint are claimed in the order they are due.    *)
THEOREM ClaimsStayFair == Spec => ClaimsAreFair
<1>1. IInv /\ [Next]_vars => [FairStep]_vars
  BY OwnLimitStep, OldestStep DEF IInv, FairStep
<1> QED
  BY <1>1, ThrottleInvariant, PTL DEF Spec, ClaimsAreFair, FairStep
=============================================================================
