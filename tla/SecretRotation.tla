--------------------------- MODULE SecretRotation ---------------------------
(***************************************************************************)
(* The rotation of an endpoint's signing secret (rotateEndpointSecret of   *)
(* src/endpoints.ts), and who signs with what: a worker tick, which read   *)
(* the endpoint's secrets when it claimed a delivery (src/worker.ts), and  *)
(* a test request, which reads them when it signs (src/endpoint-tests.ts). *)
(*                                                                         *)
(* Secrets are numbered in the order they are created.  Their encryption   *)
(* at rest and the signature itself are left out: a request carries the    *)
(* set of secrets it is signed with.  The endpoint exists and is enabled.  *)
(***************************************************************************)
EXTENDS Naturals, FiniteSets

CONSTANTS
    Tasks,         \* deliveries to the endpoint
    Overlaps,      \* the overlaps an operator asks for
    None,          \* SQL NULL
    RotatesEarly,  \* the operator may rotate while an overlap is open
    MaxTime,       \* bound: the clock stops here
    MaxRotations   \* bound: rotations

ASSUME RotationAssumption ==
    /\ Overlaps \subseteq Nat \ {0}
    /\ None \notin Nat
    /\ RotatesEarly \in BOOLEAN
    /\ MaxTime \in Nat /\ MaxRotations \in Nat

VARIABLES
    now,        \* the clock the program reads
    secrets,    \* the endpoint's row: current, previous and its expiry
    task,       \* the row a tick remembers for each delivery it claimed
    promised,   \* history: previousSecretExpiresAt, as told to the operator
    sent        \* history: the requests sent

vars == <<now, secrets, task, promised, sent>>

Secret == 0 .. MaxRotations
Time == 0 .. MaxTime
Row == [current : Secret, previous : Secret \cup {None}, expiresAt : Nat \cup {None}]
Request == [signers : SUBSET Secret, at : Time, read : Row, row : Row]

TypeOK ==
    /\ now \in Time
    /\ secrets \in Row
    /\ secrets.previous = IF secrets.current = 0 THEN None ELSE secrets.current - 1
    /\ task \in [Tasks -> Row \cup {None}]
    /\ promised \in [Secret -> Nat \cup {None}]
    /\ sent \subseteq Request

Init ==
    /\ now = 0
    /\ secrets = [current |-> 0, previous |-> None, expiresAt |-> None]
    /\ task = [t \in Tasks |-> None]
    /\ promised = [s \in Secret |-> None]
    /\ sent = {}

Tick ==
    /\ now < MaxTime
    /\ now' = now + 1
    /\ UNCHANGED <<secrets, task, promised, sent>>

-----------------------------------------------------------------------------
(* isPreviousSigningSecretActive, of a row read before, at the attempt.    *)
(* Before it, variants that leave out the last moment, or that check that  *)
(* there is a previous secret and not when it expires.                     *)
ExpiresLater(row) == row.expiresAt # None /\ row.expiresAt > now
IsThere(row) == row.expiresAt # None
IsPreviousActive(row) == row.expiresAt # None /\ row.expiresAt >= now

(* resolveSigningSecrets *)
SigningSecrets(row) ==
    IF IsPreviousActive(row) THEN {row.current, row.previous} ELSE {row.current}

Send(row) ==
    sent' = sent \cup {[signers |-> SigningSecrets(row), at |-> now,
                        read |-> row, row |-> secrets]}

(* The current secret becomes the previous one; before it, a variant that  *)
(* keeps the previous secret there is.                                     *)
OldestSecret(row) == IF row.previous = None THEN row.current ELSE row.previous
ReplacedSecret(row) == row.current

(* rotateEndpointSecret: whatever previous secret there was is forgotten.  *)
Rotate(overlap) ==
    /\ secrets.current < MaxRotations
    /\ RotatesEarly \/ ~(secrets.expiresAt # None /\ secrets.expiresAt >= now)
    /\ secrets' = [current |-> secrets.current + 1,
                   previous |-> ReplacedSecret(secrets),
                   expiresAt |-> now + overlap]
    /\ promised' = [promised EXCEPT ![secrets.current] = now + overlap]
    /\ UNCHANGED <<now, task, sent>>

(* claimDeliveries reads the endpoint's secrets with the delivery. *)
Claim(t) ==
    /\ task[t] = None
    /\ task' = [task EXCEPT ![t] = secrets]
    /\ UNCHANGED <<now, secrets, promised, sent>>

(* sendDelivery, when the tick has a free slot. *)
Attempt(t) ==
    /\ task[t] # None
    /\ Send(task[t])
    /\ task' = [task EXCEPT ![t] = None]
    /\ UNCHANGED <<now, secrets, promised>>

(* sendEndpointTest reads and signs in one go. *)
TestEndpoint ==
    /\ Send(secrets)
    /\ UNCHANGED <<now, secrets, task, promised>>

Next ==
    \/ Tick
    \/ \E overlap \in Overlaps : Rotate(overlap)
    \/ \E t \in Tasks : Claim(t)
    \/ \E t \in Tasks : Attempt(t)
    \/ TestEndpoint

Spec == Init /\ [][Next]_vars

-----------------------------------------------------------------------------
(* F-0019.md:35, README.md:90: a receiver that still has only the secret   *)
(* it was told would be good until a certain time can verify every request *)
(* attempted until then, that time included.                               *)
OldSecretWorksUntilPromised ==
    \A x \in sent, s \in Secret :
        promised[s] # None /\ promised[s] >= x.at /\ s <= x.read.current
            => s \in x.signers

(* F-0019.md:17: once the overlap is over only the current secret signs,   *)
(* also what was claimed before it was over.                               *)
ExpiredSecretIsDead ==
    \A x \in sent : \A s \in x.signers :
        s # x.read.current => promised[s] # None /\ promised[s] >= x.at
=============================================================================
