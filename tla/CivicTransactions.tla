------------------------- MODULE CivicTransactions -------------------------
(***************************************************************************)
(* The database transactions of one civic process at the grain of their    *)
(* row locks: guard triggers that take the process row FOR SHARE, advance   *)
(* triggers that take it FOR UPDATE, and the rows of proposals and tokens.  *)
(* A transaction reads what is committed when each statement runs (READ     *)
(* COMMITTED), its writes appear at its commit, and PostgreSQL aborts one   *)
(* transaction of a deadlock.  CivicBallot takes for granted that each of   *)
(* these transactions is one step; here it is shown what that rests on.     *)
(***************************************************************************)
EXTENDS Naturals, FiniteSets

CONSTANTS
    Sessions,               \* database connections, one transaction each
    Actors,                 \* authors and voters
    ProposalThreshold,
    DeliberationThreshold,
    BallotQuorum,
    MaxCycle,               \* bound: no quorum failure after this cycle
    Idle                    \* a connection without a transaction

VARIABLES
    stage, cycle,     \* the committed civic_processes row
    proposal,         \* each author's committed civic_proposals row
    contributors,     \* authors of committed contributions
    unspent,          \* committed tokens with no consumed_at: <<actor, cycle>>
    votes,            \* committed votes of each cycle
    mandate,          \* the total the close wrote down, 0 before
    job,              \* what each connection is doing
    held              \* row locks: <<session, row, mode>>

data == <<stage, cycle, proposal, contributors, unspent, votes, mandate>>
vars == <<data, job, held>>

Kinds == {"propose", "revise", "withdraw", "contribute", "vote", "open", "close"}
Anonymous == {"open", "close"}

\* What a connection does: its request, what it has read, and its next statement.
Jobs == [kind : Kinds, actor : Actors, cycle : Nat \ {0}, count : Nat,
         at : {"share", "row", "token", "update", "count", "freeze", "commit"}]

ASSUME TransactionsAssumption ==
    /\ IsFiniteSet(Sessions) /\ IsFiniteSet(Actors) /\ Actors # {}
    /\ {ProposalThreshold, DeliberationThreshold, BallotQuorum, MaxCycle} \subseteq Nat \ {0}
    /\ Idle \notin Jobs

\* The stage the route, and later the guard, asks for; a withdrawal asks for none.
StageOf(kind) ==
    CASE kind \in {"propose", "revise"} -> "proposals"
      [] kind = "contribute" -> "deliberation"
      [] kind \in {"vote", "close"} -> "voting"
      [] kind = "open" -> "ballot_preparation"
      [] kind = "withdraw" -> stage

\* The first lock of each transaction, and what follows the FOR SHARE read.
FirstLock(kind) ==
    CASE kind \in {"propose", "contribute"} -> "share"
      [] kind \in {"revise", "withdraw"} -> "row"
      [] kind = "vote" -> "token"
      [] kind \in Anonymous -> "update"

\* Mutant: votes get a trigger that advances the process, like the other tables.
VoteAdvances(kind) ==
    CASE kind = "propose" -> "row"
      [] kind \in {"contribute", "vote"} -> "update"
      [] OTHER -> "commit"

AfterShare(kind) ==
    CASE kind = "propose" -> "row"
      [] kind = "contribute" -> "update"
      [] OTHER -> "commit"

Live == {p \in Actors : proposal[p] \in {"published", "revised"}}
ProcessRow == <<"process">>
RowOf(a) == <<"proposal", a>>
TokenOf(a) == <<"token", a>>

\* Mutants: the count is taken without the exclusive lock; the guard of a vote
\* reads without FOR SHARE; the freeze does not wait for a row being updated.
CountsUnlocked(s) ==
    CASE job[s].at = "share" -> {<<ProcessRow, "share">>}
      [] job[s].at = "row" -> {<<RowOf(job[s].actor), "update">>}
      [] job[s].at = "token" -> {<<TokenOf(job[s].actor), "update">>}
      [] job[s].at = "freeze" -> {<<RowOf(p), "update">> : p \in Live}
      [] OTHER -> {}
GuardsUnlocked(s) ==
    CASE job[s].at = "update" -> {<<ProcessRow, "update">>}
      [] job[s].at = "row" -> {<<RowOf(job[s].actor), "update">>}
      [] job[s].at = "token" -> {<<TokenOf(job[s].actor), "update">>}
      [] job[s].at = "freeze" -> {<<RowOf(p), "update">> : p \in Live}
      [] OTHER -> {}
FreezesUnlocked(s) ==
    CASE job[s].at = "share" -> {<<ProcessRow, "share">>}
      [] job[s].at = "update" -> {<<ProcessRow, "update">>}
      [] job[s].at = "row" -> {<<RowOf(job[s].actor), "update">>}
      [] job[s].at = "token" -> {<<TokenOf(job[s].actor), "update">>}
      [] OTHER -> {}

\* The locks a transaction asks for next.
Wanted(s) ==
    CASE job[s].at = "share" -> {<<ProcessRow, "share">>}
      [] job[s].at = "update" -> {<<ProcessRow, "update">>}
      [] job[s].at = "row" -> {<<RowOf(job[s].actor), "update">>}
      [] job[s].at = "token" -> {<<TokenOf(job[s].actor), "update">>}
      [] job[s].at = "freeze" -> {<<RowOf(p), "update">> : p \in Live}
      [] OTHER -> {}

Blockers(s) ==
    {t \in Sessions \ {s} :
        \E h \in held, w \in Wanted(s) :
            h[1] = t /\ h[2] = w[1] /\ "update" \in {h[3], w[2]}}

Busy(s) == job[s] # Idle
At(s, label) == Busy(s) /\ job[s].at = label

Deadlocked(D) == D # {} /\ \A s \in D : Busy(s) /\ Blockers(s) \cap D # {}
InDeadlock(s) ==
    \E D \in SUBSET Sessions :
        /\ s \in D /\ Deadlocked(D)
        /\ \A E \in SUBSET D : E # D => ~Deadlocked(E)

Init ==
    /\ stage = "proposals" /\ cycle = 1
    /\ proposal = [a \in Actors |-> "none"]
    /\ contributors = {} /\ unspent = {}
    /\ votes = [c \in 1..(MaxCycle + 1) |-> 0] /\ mandate = 0
    /\ job = [s \in Sessions |-> Idle] /\ held = {}

-----------------------------------------------------------------------------
(* The parts transactions are made of.                                     *)

Goto(s, label) == job' = [job EXCEPT ![s].at = label]

Acquire(s) ==
    /\ Blockers(s) = {}
    /\ held' = held \cup {<<s, w[1], w[2]>> : w \in Wanted(s)}

\* Commit or rollback: the locks go.
End(s) ==
    /\ job' = [job EXCEPT ![s] = Idle]
    /\ held' = {h \in held : h[1] # s}

\* Go on with the lock if the statement finds what it asks for, or roll back.
Proceed(s, found, label) ==
    /\ Blockers(s) = {}
    /\ IF found THEN Acquire(s) /\ Goto(s, label) ELSE End(s)
    /\ UNCHANGED data

-----------------------------------------------------------------------------
(* A request, from the route's unlocked read to the commit.                *)

Begin(s, kind, a) ==
    /\ ~Busy(s)
    /\ stage = StageOf(kind)
    /\ job' = [job EXCEPT ![s] =
                 [kind |-> kind, actor |-> a, cycle |-> cycle, at |-> FirstLock(kind), count |-> 0]]
    /\ UNCHANGED <<data, held>>

\* The guard triggers: the stage, and for a vote the cycle, under FOR SHARE.
ShareProcess(s) ==
    /\ At(s, "share")
    /\ Proceed(s,
               /\ stage = StageOf(job[s].kind)
               /\ job[s].kind = "vote" => job[s].cycle = cycle,
               AfterShare(job[s].kind))

\* The row, or the unique key, of the author's proposal.
LockProposal(s) ==
    LET a == job[s].actor IN
    /\ At(s, "row")
    /\ CASE job[s].kind = "propose" -> Proceed(s, proposal[a] = "none", "update")
         [] job[s].kind = "revise" -> Proceed(s, proposal[a] = "published", "share")
         [] job[s].kind = "withdraw" ->
              Proceed(s, proposal[a] \in {"published", "revised"}, "commit")

LockToken(s) ==
    /\ At(s, "token")
    /\ Proceed(s, <<job[s].actor, job[s].cycle>> \in unspent, "share")

\* The advance triggers and the lazy open and close: FOR UPDATE.
LockProcess(s) ==
    /\ At(s, "update")
    /\ Proceed(s, stage = StageOf(job[s].kind), "count")

\* What the advance trigger or the close counts: committed rows and its own.
CountOf(s) ==
    CASE job[s].kind = "propose" ->
           Cardinality({p \in Actors : proposal[p] # "none"} \cup {job[s].actor})
      [] job[s].kind = "contribute" -> Cardinality(contributors \cup {job[s].actor})
      [] OTHER -> votes[cycle]

Count(s) ==
    /\ At(s, "count")
    /\ job' = [job EXCEPT
                 ![s].count = CountOf(s),
                 ![s].at = IF job[s].kind = "contribute" /\ CountOf(s) >= DeliberationThreshold
                           THEN "freeze" ELSE "commit"]
    /\ UNCHANGED <<data, held>>

CommitProposal(s) ==
    /\ At(s, "commit")
    /\ LET a == job[s].actor IN
       \/ /\ job[s].kind = "propose"
          /\ proposal' = [proposal EXCEPT ![a] = "published"]
          /\ stage' = IF job[s].count >= ProposalThreshold THEN "deliberation" ELSE stage
       \/ /\ job[s].kind = "revise"
          /\ proposal' = [proposal EXCEPT ![a] = "revised"]
          /\ UNCHANGED stage
       \/ /\ job[s].kind = "withdraw"
          /\ proposal' = [proposal EXCEPT ![a] = "withdrawn"]
          /\ UNCHANGED stage
    /\ End(s)
    /\ UNCHANGED <<cycle, contributors, unspent, votes, mandate>>

CommitContribution(s) ==
    /\ At(s, "commit") /\ job[s].kind = "contribute"
    /\ contributors' = contributors \cup {job[s].actor}
    /\ End(s)
    /\ UNCHANGED <<stage, cycle, proposal, unspent, votes, mandate>>

\* The freeze waits for the rows it updates and looks at them again: a row
\* withdrawn meanwhile is left out.
FreezeAndCommit(s) ==
    /\ At(s, "freeze")
    /\ Blockers(s) = {}
    /\ proposal' = [p \in Actors |-> IF p \in Live THEN "frozen" ELSE proposal[p]]
    /\ contributors' = contributors \cup {job[s].actor}
    /\ stage' = "ballot_preparation"
    /\ End(s)
    /\ UNCHANGED <<cycle, unspent, votes, mandate>>

CommitVote(s) ==
    /\ At(s, "commit") /\ job[s].kind = "vote"
    /\ unspent' = unspent \ {<<job[s].actor, job[s].cycle>>}
    /\ votes' = [votes EXCEPT ![job[s].cycle] = @ + 1]
    /\ End(s)
    /\ UNCHANGED <<stage, cycle, proposal, contributors, mandate>>

CommitOpen(s) ==
    /\ At(s, "commit") /\ job[s].kind = "open"
    /\ stage' = "voting"
    /\ unspent' = unspent \cup (Actors \X {cycle})
    /\ End(s)
    /\ UNCHANGED <<cycle, proposal, contributors, votes, mandate>>

CommitClose(s) ==
    /\ At(s, "commit") /\ job[s].kind = "close"
    /\ job[s].count < BallotQuorum => cycle <= MaxCycle
    /\ IF job[s].count < BallotQuorum
       THEN stage' = "deliberation" /\ cycle' = cycle + 1 /\ UNCHANGED mandate
       ELSE stage' = "mandate" /\ mandate' = job[s].count /\ UNCHANGED cycle
    /\ End(s)
    /\ UNCHANGED <<proposal, contributors, unspent, votes>>

\* PostgreSQL's deadlock detector.
AbortVictim(s) ==
    /\ InDeadlock(s)
    /\ End(s)
    /\ UNCHANGED data

-----------------------------------------------------------------------------
Commit(s) ==
    \/ CommitProposal(s) \/ CommitContribution(s) \/ FreezeAndCommit(s)
    \/ CommitVote(s) \/ CommitOpen(s) \/ CommitClose(s)

Step(s) ==
    \/ ShareProcess(s) \/ LockProposal(s) \/ LockToken(s) \/ LockProcess(s) \/ Count(s)
    \/ Commit(s)
    \/ AbortVictim(s)

Request(s) == \E kind \in Kinds, a \in Actors : Begin(s, kind, a)

Next == \E s \in Sessions : Request(s) \/ Step(s)

Spec == Init /\ [][Next]_vars

-----------------------------------------------------------------------------
(* What must hold.                                                         *)

Resources == {ProcessRow} \cup ({"proposal", "token"} \X Actors)

\* Type invariant; in it, an exclusive lock excludes every other one.
TypeOK ==
    /\ stage \in {"proposals", "deliberation", "ballot_preparation", "voting", "mandate"}
    /\ cycle \in 1..(MaxCycle + 1)
    /\ proposal \in [Actors -> {"none", "published", "revised", "withdrawn", "frozen"}]
    /\ contributors \subseteq Actors
    /\ unspent \subseteq Actors \X (1..(MaxCycle + 1))
    /\ votes \in [1..(MaxCycle + 1) -> Nat] /\ mandate \in Nat
    /\ job \in [Sessions -> Jobs \cup {Idle}]
    /\ held \subseteq Sessions \X Resources \X {"share", "update"}
    /\ \A g, h \in held : g[1] # h[1] /\ g[2] = h[2] => {g[3], h[3]} = {"share"}

\* A threshold that is met is never missed: two transactions that insert the
\* last rows at once do not both see one row too few.
ThresholdIsNeverMissed ==
    (\A s \in Sessions : job[s] = Idle) =>
        /\ stage = "proposals" =>
             Cardinality({p \in Actors : proposal[p] # "none"}) < ProposalThreshold
        /\ stage = "deliberation" /\ cycle = 1 =>
             Cardinality(contributors) < DeliberationThreshold

\* The mandate counts every vote that is ever committed for its cycle, and a
\* cycle that failed its quorum stays below it: a vote either comes before
\* the close or is refused.
EveryCommittedVoteIsCounted ==
    /\ mandate # 0 => mandate = votes[cycle]
    /\ \A c \in 1..(cycle - 1) : votes[c] < BallotQuorum

\* Once the ballot is frozen no transaction that was under way changes it.
FrozenMeansFrozen ==
    [][stage \notin {"proposals", "deliberation"} \/ cycle > 1 => proposal' = proposal]_vars

\* A vote, an opening or a closing is never the victim of a deadlock, and a row
\* that is locked for an update is locked by nobody else.
VotingNeverDeadlocks ==
    /\ TypeOK
    /\ \A s \in Sessions : Busy(s) /\ job[s].kind \in {"vote", "open", "close"} => ~InDeadlock(s)

-----------------------------------------------------------------------------
(* What a test says, and the code does not do.                             *)

\* "advances once when five proposals arrive concurrently": every insert is
\* awaited and none may fail.  Two of them may deadlock, each holding the
\* process FOR SHARE and wanting it FOR UPDATE.
ConcurrentProposalsAllSucceed ==
    \A s \in Sessions : Busy(s) /\ job[s].kind = "propose" => ~InDeadlock(s)
=============================================================================
