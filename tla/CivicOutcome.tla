---------------------------- MODULE CivicOutcome ----------------------------
(***************************************************************************)
(* One civic process from a decided mandate to the archive.  Every write   *)
(* is two actions: the route reads the process and refuses early, then a   *)
(* later statement inserts the row under the guard of its table.  Anything *)
(* may be committed in between, by other members, by the same member on    *)
(* another device, or by an operator.                                      *)
(***************************************************************************)
EXTENDS CivicLedger, FiniteSets

CONSTANTS
    Actors,             \* the civic actors of the process's community
    Volatile,           \* the actors whose access may change during a run
    OutcomeThreshold,   \* CIVIC_VERIFICATION_THRESHOLD
    Cycles,             \* the ballot cycles in which the mandate may have been decided
    MaxRequests,        \* bound on the writes in flight at once
    None                \* SQL NULL, or no row

VARIABLES
    stage, cycle,          \* the civic_processes row
    transitions, events,   \* the two ledgers
    access,                \* what each actor may do at the moment
    requests,              \* writes that have passed their route's checks
    updates,               \* civic_action_updates: <<author, kind>>
    evidence,              \* authors of civic_verification_evidence
    confirmation,          \* each actor's civic_verification_confirmations row
    verification,          \* the civic_verifications row
    resolution             \* the civic_verification_dispute_resolutions row

process == <<stage, cycle, transitions, events>>
records == <<updates, evidence, confirmation, verification, resolution>>
vars == <<process, access, requests, records>>

AccessLevels == {"participant", "lapsed", "inactive"}
\* The five kinds of an update differ in their text, but only one is a claim.
Kinds == {"take_step", "status_update"}
Outcomes == {"delivered", "not_delivered"}
Writes == Kinds \cup {"evidence"} \cup Outcomes
Requests == [actor : Actors, write : Writes]

\* Rows of civic_action_updates, civic_verification_confirmations and
\* civic_verifications.
UpdateRows == Actors \X Kinds
ConfirmationRows == [Actors -> Outcomes \cup {None}]
VerificationRows == [outcome : Outcomes, count : [Outcomes -> Nat]]

ASSUME OutcomeAssumption ==
    /\ IsFiniteSet(Actors) /\ Volatile \subseteq Actors
    /\ OutcomeThreshold \in Nat \ {0} /\ Cycles \subseteq Nat \ {0}
    /\ MaxRequests \in Nat
    /\ None \notin Actors \cup Outcomes \cup VerificationRows

StageOf(w) == IF w \in Kinds THEN "action" ELSE "verification"

Responsible == {u \in updates : u[2] = "take_step"}
Confirmed(o) == {a \in Actors : confirmation[a] = o}

\* The ledger of a process whose mandate was decided in cycle c.
PathTo(c) ==
    {Row(ConfirmationReached, 1), Row(ProposalsReached, 1),
     Row(VotingWindowClosed, c), Row(MandateDecided, c)}
        \cup {Row(e, k) : e \in {DeliberationReached, BallotPrepared}, k \in 1..c}
        \cup {Row(QuorumNotReached, k) : k \in 1..(c - 1)}

Init ==
    /\ stage = "action" /\ cycle \in Cycles
    /\ transitions = PathTo(cycle)
    /\ events = {<<"process_created", 1>>} \cup {<<EventOf(r.edge), r.cycle>> : r \in transitions}
    /\ access = [a \in Actors |-> "participant"]
    /\ requests = {}
    /\ updates = {} /\ evidence = {}
    /\ confirmation = [a \in Actors |-> None]
    /\ verification = None /\ resolution = None

Record(e) ==
    /\ transitions' = transitions \cup {Row(e, cycle)}
    /\ events' = events \cup {Event(e, cycle)}
    /\ stage' = e.to
    /\ UNCHANGED cycle

-----------------------------------------------------------------------------
ChangeAccess(a) ==
    /\ a \in Volatile
    /\ \E level \in AccessLevels \ {access[a]} : access' = [access EXCEPT ![a] = level]
    /\ UNCHANGED <<process, requests, records>>

-----------------------------------------------------------------------------
(* The routes of action and verification.                                  *)

\* The route's own checks: stage, access, and no claim or answer already there.
PassRouteChecks(a, w) ==
    /\ access[a] = "participant"
    /\ stage = StageOf(w)
    /\ w = "take_step" => Responsible = {}
    /\ w \in Outcomes => confirmation[a] = None
    /\ Cardinality(requests) < MaxRequests
    /\ requests' = requests \cup {[actor |-> a, write |-> w]}
    /\ UNCHANGED <<process, access, records>>

\* Mutant: the guard does not look at the stage again.
GuardWithoutStage(r) == access[r.actor] # "inactive"

\* The guard triggers of the three tables: the stage now, and an active actor.
GuardAccepts(r) == stage = StageOf(r.write) /\ access[r.actor] # "inactive"

\* A unique index lets one claim of responsibility in per process.
InsertCivicActionUpdate(r) ==
    /\ r \in requests /\ r.write \in Kinds
    /\ GuardAccepts(r)
    /\ r.write = "take_step" => Responsible = {}
    /\ updates' = updates \cup {<<r.actor, r.write>>}
    /\ requests' = requests \ {r}
    /\ UNCHANGED <<process, access, evidence, confirmation, verification, resolution>>

\* Mutant: neither the stage under the lock nor the ledger's answer is looked at.
MarkReadyUnchecked(a) ==
    /\ access[a] = "participant"
    /\ stage \in {"action", "archived"}
    /\ Record(ActionMarkedReady)
    /\ UNCHANGED <<access, requests, records>>

\* The caller is checked, then the stage again under the row lock.
MarkActionReadyForVerification(a) ==
    /\ access[a] = "participant"
    /\ stage = "action"
    /\ KeyFree(transitions, ActionMarkedReady, cycle)
    /\ Record(ActionMarkedReady)
    /\ UNCHANGED <<access, requests, records>>

InsertCivicVerificationEvidence(r) ==
    /\ r \in requests /\ r.write = "evidence"
    /\ GuardAccepts(r)
    /\ evidence' = evidence \cup {r.actor}
    /\ requests' = requests \ {r}
    /\ UNCHANGED <<process, access, updates, confirmation, verification, resolution>>

\* Mutant: whichever threshold is met, the process is archived as delivered.
ArchiveAsDelivered(count) ==
    /\ verification' = [outcome |-> "delivered", count |-> count]
    /\ Record(DeliveredReached)

\* The trigger that counts the answers looks at "delivered" first.
Archive(count) ==
    LET o == IF count["delivered"] >= OutcomeThreshold THEN "delivered" ELSE "not_delivered"
        e == IF o = "delivered" THEN DeliveredReached ELSE NotDeliveredReached
    IN  /\ count[o] >= OutcomeThreshold
        /\ KeyFree(transitions, e, cycle)
        /\ Record(e)
        /\ verification' = [outcome |-> o, count |-> count]

\* Mutant: a second answer overwrites the first.
ConfirmationOverwrites(r) ==
    /\ r \in requests /\ r.write \in Outcomes
    /\ GuardAccepts(r)
    /\ confirmation' = [confirmation EXCEPT ![r.actor] = r.write]
    /\ LET count == [o \in Outcomes |-> Cardinality(Confirmed(o)')]
       IN  IF \E o \in Outcomes : count[o] >= OutcomeThreshold
           THEN Archive(count)
           ELSE UNCHANGED <<process, verification>>
    /\ requests' = requests \ {r}
    /\ UNCHANGED <<access, updates, evidence, resolution>>

\* One answer per actor (a unique key); the answer that completes a threshold
\* archives the process in the same transaction.
InsertCivicVerificationConfirmation(r) ==
    /\ r \in requests /\ r.write \in Outcomes
    /\ GuardAccepts(r)
    /\ confirmation[r.actor] = None
    /\ confirmation' = [confirmation EXCEPT ![r.actor] = r.write]
    /\ LET count == [o \in Outcomes |-> Cardinality(Confirmed(o)')]
       IN  IF \E o \in Outcomes : count[o] >= OutcomeThreshold
           THEN Archive(count)
           ELSE UNCHANGED <<process, verification>>
    /\ requests' = requests \ {r}
    /\ UNCHANGED <<access, updates, evidence, resolution>>

\* The guard raises or a unique key is taken: nothing is written.
Refuse(r) ==
    /\ r \in requests
    /\ \/ ~GuardAccepts(r)
       \/ r.write = "take_step" /\ Responsible # {}
       \/ r.write \in Outcomes /\ confirmation[r.actor] # None
    /\ requests' = requests \ {r}
    /\ UNCHANGED <<process, access, records>>

\* An operator records the outcome of a dispute: the first record stays.
ResolveCivicVerificationDispute(o) ==
    /\ resolution = None
    /\ resolution' = o
    /\ UNCHANGED <<process, access, requests, updates, evidence, confirmation, verification>>

-----------------------------------------------------------------------------
Write(r) ==
    \/ InsertCivicActionUpdate(r)
    \/ InsertCivicVerificationEvidence(r)
    \/ InsertCivicVerificationConfirmation(r)
    \/ Refuse(r)

ActorStep(a) ==
    \/ ChangeAccess(a)
    \/ MarkActionReadyForVerification(a)
    \/ \E w \in Writes : PassRouteChecks(a, w)

Next ==
    \/ \E a \in Actors : ActorStep(a)
    \/ \E r \in requests : Write(r)
    \/ \E o \in Outcomes : ResolveCivicVerificationDispute(o)

Spec == Init /\ [][Next]_vars

-----------------------------------------------------------------------------
(* What must hold.                                                         *)

\* Type invariant; at most one actor has claimed responsibility.
TypeOK ==
    /\ stage \in Stages /\ cycle \in Cycles
    /\ transitions \subseteq Rows /\ events \subseteq Events
    /\ access \in [Actors -> AccessLevels]
    /\ requests \subseteq Requests
    /\ updates \subseteq UpdateRows /\ Cardinality(Responsible) <= 1
    /\ evidence \subseteq Actors
    /\ confirmation \in ConfirmationRows
    /\ verification \in VerificationRows \cup {None}
    /\ resolution \in Outcomes \cup {None}

\* The archive, the ledger and the published outcome agree with the answers
\* that are on record, also with those that came in while others were deciding:
\* the counts are final, and the threshold of the other outcome was not met.
ArchiveAgreesWithAnswers ==
    /\ TypeOK
    /\ (stage = "archived") = (verification # None)
    /\ verification # None =>
         /\ \A o \in Outcomes : verification.count[o] = Cardinality(Confirmed(o))
         /\ \A o \in Outcomes :
               (verification.count[o] >= OutcomeThreshold) = (o = verification.outcome)
         /\ Row(DeliveredReached, cycle) \in transitions <=> verification.outcome = "delivered"
         /\ Row(NotDeliveredReached, cycle) \in transitions
                <=> verification.outcome = "not_delivered"

\* A stage that is closed takes nothing more in, however late a request that
\* passed the route's checks arrives.
ClosedIsFinal ==
    /\ stage # "action" => updates' = updates
    /\ stage = "archived" => UNCHANGED <<stage, evidence, confirmation, verification>>
ClosedStageIsFinal == [][ClosedIsFinal]_vars

\* What was answered, claimed or reviewed once is never replaced.
RecordsStay ==
    /\ \A a \in Actors : confirmation[a] # None => confirmation'[a] = confirmation[a]
    /\ Responsible \subseteq Responsible'
    /\ resolution # None => resolution' = resolution
RecordsArePermanent == [][RecordsStay]_vars

\* After the mandate the process still makes only the moves of CivicStages.
Promise == INSTANCE CivicStages
MovesAsPromised == [][Promise!Next]_Promise!vars

-----------------------------------------------------------------------------
(* What comments and documents say, and the code does not do.              *)

\* "the process stays "verification" forever" after an operator's resolution.
ResolvedStaysInVerification ==
    [][resolution # None /\ stage = "verification" => stage' = "verification"]_vars

\* "an operator records a stalled (14-day-escalated) verification dispute's
\* outcome": the process is in verification at least, and undecided.
Stalled == stage = "verification" /\ verification = None
OnlyEscalatedDisputesAreResolved == [][resolution' # resolution => Stalled]_vars
=============================================================================
