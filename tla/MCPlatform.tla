----------------------------- MODULE MCPlatform -----------------------------
(* The parts of Platform for TLC.  `part` chooses which of them runs, so that *)
(* the states are the sum and not the product of theirs.                      *)
EXTENDS Platform, TLC

CONSTANTS r1, r2, s, d, u, p, c, ev

MCAuthor == [x \in {d, u} |-> 1]
Alike == Permutations(Requests)

VARIABLE part
allVars == <<part, platformVars>>

\* One signal and one contribution; what the records say of them.
Recording == INSTANCE Moderation WITH
    Idle <- NoRequest, Submissions <- {}, Author <- [x \in {d} |-> 1],
    Proposals <- {}, Deliberations <- {}, Evidence <- {}

\* A row of every kind of handler; in which order their locks are taken.
Locking == INSTANCE Moderation WITH
    Idle <- NoRequest, Discussions <- {}, Author <- [x \in {u} |-> 1], MaxRecords <- 2

\* The bootstrap, beside one request of an operator.
Bootstrapping == INSTANCE PlatformOperators WITH
    Idle <- NoRequest, Requests <- {r1}, status <- standing, job <- tasks

\* One of the operators acknowledges.
Viewing == INSTANCE Monitoring WITH Viewers <- Requests, Operators <- {1}

MCInit ==
    /\ part \in {"recording", "locking", "bootstrapping", "granting", "watching", "logging"}
    /\ Init /\ Moderating!Init /\ Staffing!Init /\ Watching!Init

\* The parts that do not run stay as they begin.
MCNext ==
    /\ UNCHANGED part
    /\ \/ part = "recording" /\ Recording!Next /\ UNCHANGED <<vars, operatorRows, alertRows>>
       \/ part = "locking" /\ Locking!Next /\ UNCHANGED <<vars, operatorRows, alertRows>>
       \/ part = "bootstrapping" /\ Bootstrapping!Next /\ UNCHANGED <<vars, moderationRows, alertRows>>
       \/ /\ part = "granting" /\ \E r \in Requests : Staffing!Request(r)
          /\ UNCHANGED <<vars, moderationRows, alertRows>>
       \/ part = "watching" /\ Viewing!Next /\ UNCHANGED <<vars, moderationRows, operatorRows>>
       \/ part = "logging" /\ Next /\ UNCHANGED <<moderationRows, operatorRows, alertRows>>

MCSpec == MCInit /\ [][MCNext]_allVars
=============================================================================
