------------------------ MODULE SecretRotationProofs ------------------------
(***************************************************************************)
(* Which secrets a request to an endpoint is signed with, for every number *)
(* of rotations and deliveries, every overlap and every clock: no secret   *)
(* signs after the time its overlap was promised to end, and, when the     *)
(* operator lets an overlap end before the next rotation, none is missing  *)
(* before.                                                                 *)
(***************************************************************************)
EXTENDS SecretRotation, TLAPS

(* What was promised for a secret is known once it has been replaced.      *)
Promises == \A s \in Secret : promised[s] # None <=> s < secrets.current

(* A row of the endpoint, however long ago it was read, says of the secret *)
(* before its current one what the operator was told of that secret.       *)
Truthful(row) ==
    /\ row \in Row
    /\ row.current <= secrets.current
    /\ row.previous = IF row.current = 0 THEN None ELSE row.current - 1
    /\ row.expiresAt = IF row.current = 0 THEN None ELSE promised[row.current - 1]

(* The overlaps of the secrets that a row has forgotten were over.         *)
Forgets(row, time) == \A s \in Secret : s + 1 < row.current => promised[s] < time

SignersAt(row, time) ==
    IF row.expiresAt # None /\ row.expiresAt >= time
    THEN {row.current, row.previous} ELSE {row.current}

RowsAreTruthful ==
    /\ Truthful(secrets)
    /\ \A t \in Tasks : task[t] # None => Truthful(task[t])
    /\ \A x \in sent : Truthful(x.read) /\ x.signers = SignersAt(x.read, x.at)

OverlapsWereOver ==
    /\ Forgets(secrets, now)
    /\ \A t \in Tasks : task[t] # None => Forgets(task[t], now)
    /\ \A x \in sent : Forgets(x.read, x.at)

IInv == TypeOK /\ Promises /\ RowsAreTruthful

USE RotationAssumption

-----------------------------------------------------------------------------
LEMMA RowType ==
  ASSUME NEW row \in Row
  PROVE  /\ row.current \in Secret /\ row.previous \in Secret \cup {None}
         /\ row.expiresAt \in Nat \cup {None}
BY DEF Row

LEMMA AfterRotation ==
  ASSUME IInv, NEW overlap \in Overlaps, Rotate(overlap)
  PROVE  /\ secrets.current \in Secret /\ secrets.current + 1 \in Secret
         /\ secrets' \in Row /\ secrets'.current = secrets.current + 1
         /\ secrets'.previous = secrets.current /\ secrets'.expiresAt = now + overlap
         /\ promised' \in [Secret -> Nat \cup {None}]
         /\ \A s \in Secret : promised'[s] = IF s = secrets.current THEN now + overlap
                                            ELSE promised[s]
         /\ UNCHANGED <<now, task, sent>>
<1>1. secrets \in Row /\ secrets.current \in Secret /\ secrets.current + 1 \in Secret
      /\ now \in Nat /\ now + overlap \in Nat
  BY RowType DEF IInv, TypeOK, Rotate, Secret, Time
<1> DEFINE r == [current |-> secrets.current + 1, previous |-> secrets.current,
                 expiresAt |-> now + overlap]
<1>2. r \in Row /\ r.current = secrets.current + 1 /\ r.previous = secrets.current
      /\ r.expiresAt = now + overlap
  BY <1>1 DEF Row
<1>3. /\ secrets' = r /\ promised' = [promised EXCEPT ![secrets.current] = now + overlap]
      /\ UNCHANGED <<now, task, sent>>
  BY DEF Rotate, ReplacedSecret
<1> HIDE DEF r
<1>4. promised \in [Secret -> Nat \cup {None}]
  BY DEF IInv, TypeOK
<1> QED
  BY <1>1, <1>2, <1>3, <1>4

(* Rotation promises something of the current secret only, so that what a  *)
(* row says of those before it stays true, and what it forgets stays over. *)
LEMMA RotationKeepsTruth ==
  ASSUME IInv, NEW overlap \in Overlaps, Rotate(overlap), NEW row, Truthful(row)
  PROVE  /\ Truthful(row)'
         /\ \A time : Forgets(row, time) => Forgets(row, time)'
<1>1. row \in Row /\ row.current \in Secret /\ row.current <= secrets.current
      /\ secrets.current \in Secret
  BY RowType DEF Truthful, IInv, TypeOK
<1>2. row.current # 0 => row.current - 1 \in Secret /\ row.current - 1 # secrets.current
  BY <1>1 DEF Secret
<1>3. Truthful(row)'
  BY <1>1, <1>2, AfterRotation DEF Truthful, Secret
<1>4. \A s \in Secret : s + 1 < row.current => promised'[s] = promised[s]
  BY <1>1, AfterRotation DEF Secret
<1> QED
  BY <1>3, <1>4 DEF Forgets

LEMMA SameTruth ==
  ASSUME UNCHANGED <<secrets, promised>>
  PROVE  /\ \A row : Truthful(row) => Truthful(row)'
         /\ \A row, time : Forgets(row, time) => Forgets(row, time)'
         /\ \A row, time : SignersAt(row, time)' = SignersAt(row, time)
BY DEF Truthful, Forgets, SignersAt

(* A request is signed with secrets that exist.                            *)
LEMMA SentRequest ==
  ASSUME IInv, NEW row, Truthful(row), Send(row)
  PROVE  /\ sent' \subseteq Request
         /\ \A x \in sent' : \/ x \in sent
                             \/ /\ x.read = row /\ x.at = now
                                /\ x.signers = SignersAt(row, now)
<1> DEFINE x == [signers |-> SigningSecrets(row), at |-> now, read |-> row, row |-> secrets]
<1>1. /\ row \in Row /\ row.current \in Secret /\ row.previous \in Secret \cup {None}
      /\ row.expiresAt # None => row.previous \in Secret
  <2>1. row \in Row /\ row.current \in Secret /\ row.previous \in Secret \cup {None}
    BY RowType DEF Truthful
  <2>2. row.expiresAt # None => row.current # 0 /\ row.previous = row.current - 1
    BY DEF Truthful
  <2>3. QED
    BY <2>1, <2>2 DEF Secret
<1>2. SigningSecrets(row) = SignersAt(row, now) /\ SigningSecrets(row) \subseteq Secret
  <2>1. SigningSecrets(row) = SignersAt(row, now)
    BY Zenon DEF SigningSecrets, SignersAt, IsPreviousActive
  <2>2. CASE row.expiresAt # None /\ row.expiresAt >= now
    BY <1>1, <2>1, <2>2 DEF SignersAt
  <2>3. CASE ~(row.expiresAt # None /\ row.expiresAt >= now)
    BY <1>1, <2>1, <2>3 DEF SignersAt
  <2>4. QED
    BY <2>2, <2>3
<1>3. x \in Request /\ x.read = row /\ x.at = now /\ x.signers = SignersAt(row, now)
  <2>1. SigningSecrets(row) \in SUBSET Secret /\ now \in Time /\ secrets \in Row
    BY <1>2 DEF IInv, TypeOK
  <2>2. x \in Request
    BY <1>1, <2>1, Zenon DEF Request
  <2>3. QED
    BY <1>2, <2>2
<1>4. sent' = sent \cup {x}
  BY DEF Send
<1> HIDE DEF x
<1> QED
  BY <1>3, <1>4 DEF IInv, TypeOK

-----------------------------------------------------------------------------
LEMMA InitIInv == Init => IInv /\ OverlapsWereOver
<1> SUFFICES ASSUME Init PROVE IInv /\ OverlapsWereOver
  OBVIOUS
<1> DEFINE r == [current |-> 0, previous |-> None, expiresAt |-> None]
<1>1. r \in Row /\ r.current = 0 /\ r.previous = None /\ r.expiresAt = None
  BY DEF Row, Secret
<1>2. secrets = r
  BY DEF Init
<1> HIDE DEF r
<1>3. TypeOK
  BY <1>1, <1>2 DEF Init, TypeOK, Time
<1>4. Promises
  BY <1>1, <1>2 DEF Init, Promises, Secret
<1>5. RowsAreTruthful
  BY <1>1, <1>2 DEF Init, RowsAreTruthful, Truthful
<1>6. OverlapsWereOver
  BY <1>1, <1>2 DEF Init, OverlapsWereOver, Forgets, Secret
<1> QED
  BY <1>3, <1>4, <1>5, <1>6 DEF IInv

(* Every step keeps the rows truthful, however early the operator rotates. *)
LEMMA NextIInv == IInv /\ [Next]_vars => IInv'
<1> SUFFICES ASSUME IInv, [Next]_vars PROVE IInv'
  OBVIOUS
<1>1. CASE UNCHANGED vars \/ Tick
  <2>1. UNCHANGED <<secrets, task, promised, sent>> /\ now' \in Time
    BY <1>1 DEF vars, Tick, IInv, TypeOK, Time
  <2>2. TypeOK' /\ Promises'
    BY <2>1 DEF IInv, TypeOK, Promises
  <2>3. RowsAreTruthful'
    BY <2>1, SameTruth DEF IInv, RowsAreTruthful
  <2>4. QED
    BY <2>2, <2>3 DEF IInv
<1>2. ASSUME NEW overlap \in Overlaps, Rotate(overlap) PROVE IInv'
  <2>1. TypeOK'
    BY <1>2, AfterRotation DEF IInv, TypeOK, Secret
  <2>2. Promises'
    <3>1. \A s \in Secret : promised[s] # None <=> s < secrets.current
      BY DEF IInv, Promises
    <3>2. /\ secrets.current \in Nat /\ secrets'.current = secrets.current + 1
          /\ now + overlap \in Nat
          /\ \A s \in Secret : promised'[s] = IF s = secrets.current THEN now + overlap
                                               ELSE promised[s]
      BY <1>2, AfterRotation DEF IInv, TypeOK, Secret, Time
    <3>3. QED
      BY <3>1, <3>2 DEF Promises, Secret
  <2>3. Truthful(secrets)'
    BY <1>2, AfterRotation DEF Truthful, Secret
  <2>4. RowsAreTruthful'
    BY <1>2, <2>3, AfterRotation, RotationKeepsTruth DEF IInv, RowsAreTruthful, SignersAt
  <2>5. QED
    BY <2>1, <2>2, <2>4 DEF IInv
<1>3. ASSUME NEW t \in Tasks, Claim(t) PROVE IInv'
  <2>1. /\ UNCHANGED <<now, secrets, promised, sent>>
        /\ task' = [task EXCEPT ![t] = secrets]
    BY <1>3 DEF Claim
  <2>2. TypeOK' /\ Promises'
    BY <2>1 DEF IInv, TypeOK, Promises
  <2>3. \A u \in Tasks : task'[u] = IF u = t THEN secrets ELSE task[u]
    BY <2>1 DEF IInv, TypeOK
  <2>4. RowsAreTruthful'
    BY <2>1, <2>3, SameTruth DEF IInv, RowsAreTruthful
  <2>5. QED
    BY <2>2, <2>4 DEF IInv
<1>4. ASSUME NEW t \in Tasks, Attempt(t) PROVE IInv'
  <2>1. /\ UNCHANGED <<now, secrets, promised>> /\ task[t] # None
        /\ task' = [task EXCEPT ![t] = None] /\ Send(task[t])
    BY <1>4 DEF Attempt
  <2>2. /\ sent' \subseteq Request
        /\ \A x \in sent' : \/ x \in sent
                            \/ /\ x.read = task[t] /\ x.at = now
                               /\ x.signers = SignersAt(task[t], now)
    <3>1. Truthful(task[t])
      BY <2>1 DEF IInv, RowsAreTruthful
    <3>2. QED
      BY <2>1, <3>1, SentRequest
  <2>3. TypeOK' /\ Promises'
    BY <2>1, <2>2 DEF IInv, TypeOK, Promises
  <2>4. \A u \in Tasks : task'[u] = IF u = t THEN None ELSE task[u]
    BY <2>1 DEF IInv, TypeOK
  <2>5. RowsAreTruthful'
    BY <2>1, <2>2, <2>4, SameTruth DEF IInv, RowsAreTruthful
  <2>6. QED
    BY <2>3, <2>5 DEF IInv
<1>5. CASE TestEndpoint
  <2>1. UNCHANGED <<now, secrets, task, promised>> /\ Send(secrets)
    BY <1>5 DEF TestEndpoint
  <2>2. /\ sent' \subseteq Request
        /\ \A x \in sent' : \/ x \in sent
                            \/ /\ x.read = secrets /\ x.at = now
                               /\ x.signers = SignersAt(secrets, now)
    <3>1. Truthful(secrets)
      BY DEF IInv, RowsAreTruthful
    <3>2. QED
      BY <2>1, <3>1, SentRequest
  <2>3. TypeOK' /\ Promises'
    BY <2>1, <2>2 DEF IInv, TypeOK, Promises
  <2>4. RowsAreTruthful'
    BY <2>1, <2>2, SameTruth DEF IInv, RowsAreTruthful
  <2>5. QED
    BY <2>3, <2>4 DEF IInv
<1> QED
  BY <1>1, <1>2, <1>3, <1>4, <1>5 DEF Next

(* An operator who waits for the overlap to end forgets only secrets that  *)
(* are no longer promised, and a row read before then forgets no more.     *)
LEMMA NextOverlaps ==
  ASSUME RotatesEarly = FALSE
  PROVE  IInv /\ OverlapsWereOver /\ [Next]_vars => OverlapsWereOver'
<1> SUFFICES ASSUME IInv, OverlapsWereOver, [Next]_vars PROVE OverlapsWereOver'
  OBVIOUS
<1>1. CASE UNCHANGED vars \/ Tick
  <2>1. UNCHANGED <<secrets, task, promised, sent>> /\ now' \in Nat /\ now \in Nat
        /\ now <= now'
    BY <1>1 DEF vars, Tick, IInv, TypeOK, Time
  <2>2. ASSUME NEW row, Truthful(row), Forgets(row, now) PROVE Forgets(row, now)'
    <3>1. \A s \in Secret : s + 1 < row.current => promised[s] \in Nat
      BY <2>2, RowType DEF IInv, Promises, Truthful, TypeOK, Secret
    <3>2. QED
      BY <2>1, <2>2, <3>1 DEF Forgets
  <2>3. QED
    BY <2>1, <2>2, SameTruth DEF IInv, RowsAreTruthful, OverlapsWereOver
<1>2. ASSUME NEW overlap \in Overlaps, Rotate(overlap) PROVE OverlapsWereOver'
  <2>1. secrets.current > 0 => promised[secrets.current - 1] < now
    <3>1. secrets.expiresAt = IF secrets.current = 0 THEN None
                              ELSE promised[secrets.current - 1]
      BY DEF IInv, RowsAreTruthful, Truthful
    <3>2. secrets.current \in Secret /\ secrets.expiresAt \in Nat \cup {None} /\ now \in Nat
      BY RowType DEF IInv, TypeOK, Time
    <3>3. secrets.current > 0 => promised[secrets.current - 1] # None
      BY <3>2 DEF IInv, Promises, Secret
    <3>4. secrets.expiresAt # None => ~(secrets.expiresAt >= now)
      BY <1>2 DEF Rotate
    <3>5. QED
      BY <3>1, <3>2, <3>3, <3>4 DEF Secret
  <2>2. Forgets(secrets, now)'
    <3> SUFFICES ASSUME NEW s \in Secret, s + 1 < secrets.current + 1
                 PROVE  promised'[s] < now
      BY <1>2, AfterRotation DEF Forgets
    <3>1. promised'[s] = promised[s] /\ secrets.current \in Secret
      BY <1>2, AfterRotation DEF Secret
    <3>2. CASE s + 1 < secrets.current
      BY <3>1, <3>2 DEF OverlapsWereOver, Forgets
    <3>3. CASE s = secrets.current - 1
      BY <2>1, <3>1, <3>3 DEF Secret
    <3>4. QED
      BY <3>1, <3>2, <3>3 DEF Secret
  <2>3. QED
    BY <1>2, <2>2, AfterRotation, RotationKeepsTruth
       DEF IInv, RowsAreTruthful, OverlapsWereOver
<1>3. ASSUME NEW t \in Tasks, Claim(t) PROVE OverlapsWereOver'
  <2>1. /\ UNCHANGED <<now, secrets, promised, sent>>
        /\ task' = [task EXCEPT ![t] = secrets]
    BY <1>3 DEF Claim
  <2>2. \A u \in Tasks : task'[u] = IF u = t THEN secrets ELSE task[u]
    BY <2>1 DEF IInv, TypeOK
  <2>3. QED
    BY <2>1, <2>2, SameTruth DEF OverlapsWereOver
<1>4. ASSUME NEW t \in Tasks, Attempt(t) PROVE OverlapsWereOver'
  <2>1. /\ UNCHANGED <<now, secrets, promised>> /\ task[t] # None
        /\ task' = [task EXCEPT ![t] = None] /\ Send(task[t])
    BY <1>4 DEF Attempt
  <2>2. \A x \in sent' : x \in sent \/ (x.read = task[t] /\ x.at = now)
    BY <2>1, SentRequest DEF IInv, RowsAreTruthful
  <2>3. \A u \in Tasks : task'[u] = IF u = t THEN None ELSE task[u]
    BY <2>1 DEF IInv, TypeOK
  <2>4. QED
    BY <2>1, <2>2, <2>3, SameTruth DEF OverlapsWereOver
<1>5. CASE TestEndpoint
  <2>1. UNCHANGED <<now, secrets, task, promised>> /\ Send(secrets)
    BY <1>5 DEF TestEndpoint
  <2>2. \A x \in sent' : x \in sent \/ (x.read = secrets /\ x.at = now)
    BY <2>1, SentRequest DEF IInv, RowsAreTruthful
  <2>3. QED
    BY <2>1, <2>2, SameTruth DEF OverlapsWereOver
<1> QED
  BY <1>1, <1>2, <1>3, <1>4, <1>5 DEF Next

-----------------------------------------------------------------------------
LEMMA TruthIsDead == IInv => ExpiredSecretIsDead
<1> SUFFICES ASSUME IInv, NEW x \in sent, NEW s \in x.signers, s # x.read.current
             PROVE  promised[s] # None /\ promised[s] >= x.at
  BY DEF ExpiredSecretIsDead
<1>1. Truthful(x.read) /\ x.signers = SignersAt(x.read, x.at)
  BY DEF IInv, RowsAreTruthful
<1>2. /\ x.read.expiresAt # None /\ x.read.expiresAt >= x.at
      /\ s = x.read.previous
  BY <1>1 DEF SignersAt
<1> QED
  BY <1>1, <1>2 DEF Truthful

LEMMA ForgottenIsOver == IInv /\ OverlapsWereOver => OldSecretWorksUntilPromised
<1> SUFFICES ASSUME IInv, OverlapsWereOver, NEW x \in sent, NEW s \in Secret,
                    promised[s] # None, promised[s] >= x.at, s <= x.read.current
             PROVE  s \in x.signers
  BY DEF OldSecretWorksUntilPromised
<1>1. Truthful(x.read) /\ x.signers = SignersAt(x.read, x.at) /\ Forgets(x.read, x.at)
  BY DEF IInv, RowsAreTruthful, OverlapsWereOver
<1>2. x.read.current \in Secret /\ x.at \in Nat /\ promised[s] \in Nat
  BY <1>1, RowType DEF Truthful, IInv, TypeOK, Request, Time
<1>3. ~(s + 1 < x.read.current)
  BY <1>1, <1>2 DEF Forgets
<1>4. CASE s = x.read.current
  BY <1>1, <1>4 DEF SignersAt
<1>5. CASE s = x.read.current - 1 /\ x.read.current # 0
  BY <1>1, <1>2, <1>5 DEF SignersAt, Truthful
<1> QED
  BY <1>2, <1>3, <1>4, <1>5 DEF Secret

-----------------------------------------------------------------------------
(* What holds of every behaviour *)

(* Every row that is used to sign says of the previous secret what the     *)
(* operator was told of it, and every request is signed by what it says.   *)
THEOREM RotationInvariant == Spec => []IInv
<1>1. Init => IInv
  BY InitIInv
<1>2. IInv /\ [Next]_vars => IInv'
  BY NextIInv
<1> QED
  BY <1>1, <1>2, PTL DEF Spec

(* The variables keep their types.                                         *)
THEOREM RotationTypes == Spec => []TypeOK
<1>1. IInv => TypeOK
  BY DEF IInv
<1> QED
  BY <1>1, RotationInvariant, PTL

(* F-0019.md:17: no request is signed with another than the current secret *)
(* after the end of that secret's overlap, not even one whose delivery was *)
(* claimed before.                                                         *)
THEOREM ExpiredSecretsAreDead == Spec => []ExpiredSecretIsDead
BY TruthIsDead, RotationInvariant, PTL

(* F-0019.md:35, README.md:90: every request attempted while a secret is   *)
(* promised to be good is signed with it, if the operator rotates only     *)
(* when the last overlap is over.                                          *)
THEOREM PromisedSecretsWork ==
  ASSUME RotatesEarly = FALSE PROVE Spec => []OldSecretWorksUntilPromised
<1>1. Init => OverlapsWereOver
  BY InitIInv
<1>2. IInv /\ OverlapsWereOver /\ [Next]_vars => OverlapsWereOver'
  BY NextOverlaps
<1> QED
  BY <1>1, <1>2, ForgottenIsOver, RotationInvariant, PTL DEF Spec
=============================================================================
