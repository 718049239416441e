---------------------- MODULE CivicTransactionsProofs ----------------------
(* What the row locks of the civic transactions guarantee, for any number of *)
(* connections, actors and cycles.                                           *)
EXTENDS CivicTransactions, Sequences, FiniteSetTheorems, TLAPS

-----------------------------------------------------------------------------
(* The locks a job has taken on its way to its next statement.               *)

\* FOR SHARE of the process: the guard has passed.
Guarded(j) ==
    \/ j.kind \in {"propose", "contribute"} /\ j.at # "share"
    \/ j.kind \in {"revise", "vote"} /\ j.at = "commit"
\* FOR UPDATE of the process.
Exclusive(j) ==
    \/ j.at \in {"count", "freeze"}
    \/ j.kind \in {"propose", "contribute"} \cup Anonymous /\ j.at = "commit"
HasRow(j) ==
    \/ j.kind = "propose" /\ j.at \in {"update", "count", "commit"}
    \/ j.kind = "revise" /\ j.at \in {"share", "commit"}
    \/ j.kind = "withdraw" /\ j.at = "commit"
HasToken(j) == j.kind = "vote" /\ j.at \in {"share", "commit"}

LabelsOf(kind) ==
    CASE kind = "propose" -> {"share", "row", "update", "count", "commit"}
      [] kind = "contribute" -> {"share", "update", "count", "freeze", "commit"}
      [] kind = "revise" -> {"row", "share", "commit"}
      [] kind = "withdraw" -> {"row", "commit"}
      [] kind = "vote" -> {"token", "share", "commit"}
      [] kind \in Anonymous -> {"update", "count", "commit"}

\* What is held is exactly what the jobs have taken.
Owns(j, row, mode) ==
    \/ row = ProcessRow /\ mode = "share" /\ Guarded(j)
    \/ row = ProcessRow /\ mode = "update" /\ Exclusive(j)
    \/ row = RowOf(j.actor) /\ mode = "update" /\ HasRow(j)
    \/ row = TokenOf(j.actor) /\ mode = "update" /\ HasToken(j)

LocksTaken ==
    /\ \A s \in Sessions : Busy(s) => job[s].at \in LabelsOf(job[s].kind)
    /\ \A s \in Sessions, row \in Resources, mode \in {"share", "update"} :
          <<s, row, mode>> \in held <=> Busy(s) /\ Owns(job[s], row, mode)

\* What a transaction has read under a lock is still so.
Proposed == {p \in Actors : proposal[p] # "none"}

ReadsHoldOf(s) ==
    /\ Guarded(job[s]) \/ Exclusive(job[s]) => stage = StageOf(job[s].kind)
    /\ job[s].kind = "vote" /\ job[s].at = "commit" => job[s].cycle = cycle
    /\ Exclusive(job[s]) /\ job[s].at # "count" => job[s].count = CountOf(s)
    /\ job[s].kind = "contribute" /\ job[s].at = "commit" => job[s].count < DeliberationThreshold
    /\ job[s].kind = "withdraw" /\ job[s].at = "commit" => job[s].actor \in Live
    /\ job[s].kind = "revise" /\ HasRow(job[s]) => proposal[job[s].actor] = "published"

ReadsHold == \A s \in Sessions : Busy(s) => ReadsHoldOf(s)

\* Where the process stands, between the transactions and in them.
ThresholdsHold ==
    /\ stage = "proposals" =>
         cycle = 1 /\ contributors = {} /\ Cardinality(Proposed) < ProposalThreshold
    /\ stage = "deliberation" /\ cycle = 1 => Cardinality(contributors) < DeliberationThreshold
NothingLive == stage \notin {"proposals", "deliberation"} \/ cycle > 1 => Live = {}
VotesHold == EveryCommittedVoteIsCounted /\ (mandate # 0 => stage = "mandate")

LockInv == TypeOK /\ LocksTaken
TransactionInv == LockInv /\ ReadsHold /\ ThresholdsHold /\ NothingLive /\ VotesHold

-----------------------------------------------------------------------------
(* Rows.                                                                     *)

LEMMA RowsDiffer ==
    /\ ProcessRow \in Resources
    /\ \A a \in Actors : RowOf(a) \in Resources /\ TokenOf(a) \in Resources
    /\ \A a \in Actors : RowOf(a) # ProcessRow /\ TokenOf(a) # ProcessRow
    /\ \A a, b \in Actors : RowOf(a) # TokenOf(b)
    /\ \A a, b \in Actors : RowOf(a) = RowOf(b) \/ TokenOf(a) = TokenOf(b) => a = b
<1>1. \A a \in Actors : RowOf(a) # ProcessRow /\ TokenOf(a) # ProcessRow
  <2>1. Len(ProcessRow) = 1 /\ \A a \in Actors : Len(RowOf(a)) = 2 /\ Len(TokenOf(a)) = 2
    BY DEF ProcessRow, RowOf, TokenOf
  <2> QED BY <2>1
<1> QED BY <1>1 DEF ProcessRow, RowOf, TokenOf, Resources

-----------------------------------------------------------------------------
(* Locks are taken and given back.                                           *)

\* A lock is granted when nobody else holds one that conflicts with it.
LEMMA Granted ==
    ASSUME LockInv, NEW s \in Sessions, Busy(s), NEW label \in LabelsOf(job[s].kind),
           NEW row \in Resources, NEW mode \in {"share", "update"},
           Wanted(s) = {<<row, mode>>}, Acquire(s), Goto(s, label), UNCHANGED data,
           \A r \in Resources, m \in {"share", "update"} :
              Owns([job[s] EXCEPT !.at = label], r, m)
                 <=> Owns(job[s], r, m) \/ (r = row /\ m = mode)
    PROVE  LockInv'
<1>1. /\ held' = held \cup {<<s, row, mode>>}
      /\ \A t \in Sessions \ {s} : \A m \in {"share", "update"} :
            <<t, row, m>> \in held => {m, mode} = {"share"}
  BY DEF Acquire, Blockers
<1>2. job[s] \in Jobs /\ label \in {"share", "row", "token", "update", "count", "freeze", "commit"}
  BY DEF LockInv, TypeOK, Busy, LabelsOf, Kinds, Anonymous, Jobs
<1>3. /\ [job[s] EXCEPT !.at = label] \in Jobs
      /\ job' \in [Sessions -> Jobs \cup {Idle}]
      /\ job'[s] = [job[s] EXCEPT !.at = label]
      /\ \A t \in Sessions \ {s} : job'[t] = job[t]
  BY <1>2 DEF Goto, LockInv, TypeOK, Jobs
<1>4. TypeOK'
  <2>1. held' \subseteq Sessions \X Resources \X {"share", "update"}
    BY <1>1 DEF LockInv, TypeOK
  <2>2. ASSUME NEW g \in held', NEW h \in held', g[1] # h[1], g[2] = h[2]
        PROVE  {g[3], h[3]} = {"share"}
    <3>1. CASE g \in held /\ h \in held
      BY <2>2, <3>1 DEF LockInv, TypeOK
    <3>2. CASE g = <<s, row, mode>> /\ h = <<s, row, mode>>
      BY <2>2, <3>2
    <3>3. CASE g \in held /\ h = <<s, row, mode>>
      <4>1. g = <<g[1], row, g[3]>> /\ g[1] \in Sessions \ {s} /\ g[3] \in {"share", "update"}
        BY <2>2, <3>3 DEF LockInv, TypeOK
      <4> QED BY <4>1, <3>3, <1>1
    <3>4. CASE h \in held /\ g = <<s, row, mode>>
      <4>1. h = <<h[1], row, h[3]>> /\ h[1] \in Sessions \ {s} /\ h[3] \in {"share", "update"}
        BY <2>2, <3>4 DEF LockInv, TypeOK
      <4> QED BY <4>1, <3>4, <1>1
    <3> QED BY <1>1, <3>1, <3>2, <3>3, <3>4
  <2> QED BY <1>3, <2>1, <2>2 DEF LockInv, TypeOK, data
<1>5. Busy(s)' /\ \A t \in Sessions \ {s} : Busy(t)' <=> Busy(t)
  BY <1>3, TransactionsAssumption DEF Busy
<1>6. LocksTaken'
  BY <1>1, <1>3, <1>5 DEF LockInv, LocksTaken, Jobs
<1> QED BY <1>4, <1>6 DEF LockInv

\* The end of a transaction gives back what it held.
LEMMA Ended ==
    ASSUME LockInv, NEW s \in Sessions, End(s)
    PROVE  /\ LocksTaken'
           /\ job' \in [Sessions -> Jobs \cup {Idle}]
           /\ held' \subseteq held
           /\ ~Busy(s)'
           /\ \A t \in Sessions \ {s} : job'[t] = job[t]
<1>1. /\ job' \in [Sessions -> Jobs \cup {Idle}]
      /\ job'[s] = Idle /\ \A t \in Sessions \ {s} : job'[t] = job[t]
  BY DEF End, LockInv, TypeOK
<1>2. ~Busy(s)' /\ \A t \in Sessions \ {s} : Busy(t)' <=> Busy(t)
  BY <1>1 DEF Busy
<1>3. \A t \in Sessions, r \in Resources, m \in {"share", "update"} :
         <<t, r, m>> \in held' <=> t # s /\ <<t, r, m>> \in held
  BY DEF End
<1>4. LocksTaken'
  BY <1>1, <1>2, <1>3 DEF LockInv, LocksTaken
<1> QED BY <1>1, <1>2, <1>4 DEF End

\* Only the count is taken, and the job moves on without a lock.
LEMMA Renamed ==
    ASSUME LockInv, NEW s \in Sessions, Busy(s), NEW j \in Jobs,
           job' = [job EXCEPT ![s] = j], UNCHANGED <<data, held>>,
           j.at \in LabelsOf(j.kind),
           \A r \in Resources, m \in {"share", "update"} : Owns(j, r, m) <=> Owns(job[s], r, m)
    PROVE  LockInv'
<1>1. /\ job' \in [Sessions -> Jobs \cup {Idle}]
      /\ job'[s] = j /\ \A t \in Sessions \ {s} : job'[t] = job[t]
  BY DEF LockInv, TypeOK
<1>2. Busy(s)' /\ \A t \in Sessions \ {s} : Busy(t)' <=> Busy(t)
  BY <1>1, TransactionsAssumption DEF Busy
<1>3. LocksTaken'
  BY <1>1, <1>2 DEF LockInv, LocksTaken
<1> QED BY <1>1, <1>3 DEF LockInv, TypeOK, data

\* The sets that are counted are finite.
LEMMA CountIsNat ==
    ASSUME TypeOK, NEW s \in Sessions, Busy(s)
    PROVE  CountOf(s) \in Nat
<1>1. job[s] \in Jobs
  BY DEF TypeOK, Busy
<1>2. /\ {p \in Actors : proposal[p] # "none"} \cup {job[s].actor} \subseteq Actors
      /\ contributors \cup {job[s].actor} \subseteq Actors
  BY <1>1 DEF TypeOK, Jobs
<1>3. /\ Cardinality({p \in Actors : proposal[p] # "none"} \cup {job[s].actor}) \in Nat
      /\ Cardinality(contributors \cup {job[s].actor}) \in Nat
  BY <1>2, TransactionsAssumption, FS_Subset, FS_CardinalityType
<1>4. votes[cycle] \in Nat
  BY DEF TypeOK
<1> QED BY <1>3, <1>4 DEF CountOf

-----------------------------------------------------------------------------
(* Every step keeps the locks in step with the jobs.                         *)

LEMMA BeginKeepsLocks ==
    ASSUME LockInv, NEW s \in Sessions, NEW kind \in Kinds, NEW a \in Actors, Begin(s, kind, a)
    PROVE  LockInv'
<1> DEFINE j == [kind |-> kind, actor |-> a, cycle |-> cycle, at |-> FirstLock(kind), count |-> 0]
<1>1. j \in Jobs
  BY TransactionsAssumption DEF FirstLock, Kinds, Anonymous, Jobs, LockInv, TypeOK
<1>2. j.at \in LabelsOf(kind) /\ \A r, m : ~Owns(j, r, m)
  BY DEF FirstLock, Kinds, Anonymous, LabelsOf, Owns, Guarded, Exclusive, HasRow, HasToken
<1>3. /\ job' \in [Sessions -> Jobs \cup {Idle}]
      /\ job'[s] = j /\ \A t \in Sessions \ {s} : job'[t] = job[t]
  BY <1>1 DEF Begin, LockInv, TypeOK
<1>4. ~Busy(s) /\ Busy(s)' /\ \A t \in Sessions \ {s} : Busy(t)' <=> Busy(t)
  BY <1>1, <1>3, TransactionsAssumption DEF Busy, Begin
<1>5. LocksTaken'
  <2>1. \A t \in Sessions : Busy(t)' => job'[t].at \in LabelsOf(job'[t].kind)
    BY <1>2, <1>3, <1>4 DEF LockInv, LocksTaken
  <2>2. \A r \in Resources, m \in {"share", "update"} : <<s, r, m>> \notin held
    BY <1>4 DEF LockInv, LocksTaken
  <2> QED BY <1>2, <1>3, <1>4, <2>1, <2>2 DEF LockInv, LocksTaken, Begin
<1> QED BY <1>3, <1>5 DEF Begin, LockInv, TypeOK, data

LEMMA ShareKeepsLocks ==
    ASSUME LockInv, NEW s \in Sessions, ShareProcess(s)
    PROVE  LockInv'
<1> DEFINE kind == job[s].kind
           next == AfterShare(kind)
<1>1. Busy(s) /\ job[s] \in Jobs /\ job[s].at = "share"
  BY DEF ShareProcess, At, Busy, LockInv, TypeOK
<1>2. kind \in {"propose", "contribute", "revise", "vote"}
  BY <1>1 DEF LockInv, LocksTaken, LabelsOf, Kinds, Anonymous, Jobs
<1>3. next \in LabelsOf(kind)
  BY <1>2 DEF AfterShare, LabelsOf, Anonymous
<1>4. \A r \in Resources, m \in {"share", "update"} :
         Owns([job[s] EXCEPT !.at = next], r, m) <=> Owns(job[s], r, m) \/ (r = ProcessRow /\ m = "share")
  <2>1. [job[s] EXCEPT !.at = next] =
          [kind |-> kind, actor |-> job[s].actor, cycle |-> job[s].cycle, at |-> next, count |-> job[s].count]
    BY <1>1 DEF Jobs
  <2> QED BY <1>1, <1>2, <2>1 DEF AfterShare, Owns, Guarded, Exclusive, HasRow, HasToken, Anonymous
<1>5. Wanted(s) = {<<ProcessRow, "share">>}
  BY <1>1 DEF Wanted
<1>6. UNCHANGED data /\ (End(s) \/ (Acquire(s) /\ Goto(s, next)))
  BY DEF ShareProcess, Proceed
<1>7. CASE End(s)
  BY <1>6, <1>7, Ended DEF LockInv, TypeOK, data
<1>8. CASE Acquire(s) /\ Goto(s, next)
  BY <1>1, <1>3, <1>4, <1>5, <1>6, <1>8, Granted, RowsDiffer
<1> QED BY <1>6, <1>7, <1>8

LEMMA RowKeepsLocks ==
    ASSUME LockInv, NEW s \in Sessions, LockProposal(s)
    PROVE  LockInv'
<1> DEFINE kind == job[s].kind
           a == job[s].actor
           next == CASE kind = "propose" -> "update" [] kind = "revise" -> "share" [] OTHER -> "commit"
<1>1. Busy(s) /\ job[s] \in Jobs /\ job[s].at = "row"
  BY DEF LockProposal, At, Busy, LockInv, TypeOK
<1>2. kind \in {"propose", "revise", "withdraw"}
  BY <1>1 DEF LockInv, LocksTaken, LabelsOf, Kinds, Anonymous, Jobs
<1>3. next \in LabelsOf(kind)
  BY <1>2 DEF LabelsOf, Anonymous
<1>4. \A r \in Resources, m \in {"share", "update"} :
         Owns([job[s] EXCEPT !.at = next], r, m) <=> Owns(job[s], r, m) \/ (r = RowOf(a) /\ m = "update")
  <2>1. [job[s] EXCEPT !.at = next] =
          [kind |-> kind, actor |-> a, cycle |-> job[s].cycle, at |-> next, count |-> job[s].count]
    BY <1>1 DEF Jobs
  <2> QED BY <1>1, <1>2, <2>1 DEF Owns, Guarded, Exclusive, HasRow, HasToken, Anonymous
<1>5. Wanted(s) = {<<RowOf(a), "update">>} /\ RowOf(a) \in Resources
  BY <1>1, RowsDiffer DEF Wanted, Jobs
<1>6. UNCHANGED data /\ (End(s) \/ (Acquire(s) /\ Goto(s, next)))
  BY <1>2 DEF LockProposal, Proceed
<1>7. CASE End(s)
  BY <1>6, <1>7, Ended DEF LockInv, TypeOK, data
<1>8. CASE Acquire(s) /\ Goto(s, next)
  BY <1>1, <1>3, <1>4, <1>5, <1>6, <1>8, Granted
<1> QED BY <1>6, <1>7, <1>8

LEMMA TokenKeepsLocks ==
    ASSUME LockInv, NEW s \in Sessions, LockToken(s)
    PROVE  LockInv'
<1> DEFINE a == job[s].actor
<1>1. Busy(s) /\ job[s] \in Jobs /\ job[s].at = "token"
  BY DEF LockToken, At, Busy, LockInv, TypeOK
<1>2. job[s].kind = "vote"
  BY <1>1 DEF LockInv, LocksTaken, LabelsOf, Kinds, Anonymous, Jobs
<1>3. "share" \in LabelsOf(job[s].kind)
  BY <1>2 DEF LabelsOf, Anonymous
<1>4. \A r \in Resources, m \in {"share", "update"} :
         Owns([job[s] EXCEPT !.at = "share"], r, m) <=> Owns(job[s], r, m) \/ (r = TokenOf(a) /\ m = "update")
  <2>1. [job[s] EXCEPT !.at = "share"] =
          [kind |-> "vote", actor |-> a, cycle |-> job[s].cycle, at |-> "share", count |-> job[s].count]
    BY <1>1, <1>2 DEF Jobs
  <2> QED BY <1>1, <1>2, <2>1 DEF Owns, Guarded, Exclusive, HasRow, HasToken, Anonymous
<1>5. Wanted(s) = {<<TokenOf(a), "update">>} /\ TokenOf(a) \in Resources
  BY <1>1, RowsDiffer DEF Wanted, Jobs
<1>6. UNCHANGED data /\ (End(s) \/ (Acquire(s) /\ Goto(s, "share")))
  BY DEF LockToken, Proceed
<1>7. CASE End(s)
  BY <1>6, <1>7, Ended DEF LockInv, TypeOK, data
<1>8. CASE Acquire(s) /\ Goto(s, "share")
  BY <1>1, <1>3, <1>4, <1>5, <1>6, <1>8, Granted
<1> QED BY <1>6, <1>7, <1>8

LEMMA UpdateKeepsLocks ==
    ASSUME LockInv, NEW s \in Sessions, LockProcess(s)
    PROVE  LockInv'
<1>1. Busy(s) /\ job[s] \in Jobs /\ job[s].at = "update"
  BY DEF LockProcess, At, Busy, LockInv, TypeOK
<1>2. job[s].kind \in {"propose", "contribute"} \cup Anonymous
  BY <1>1 DEF LockInv, LocksTaken, LabelsOf, Kinds, Anonymous, Jobs
<1>3. "count" \in LabelsOf(job[s].kind)
  BY <1>2 DEF LabelsOf, Anonymous
<1>4. \A r \in Resources, m \in {"share", "update"} :
         Owns([job[s] EXCEPT !.at = "count"], r, m) <=> Owns(job[s], r, m) \/ (r = ProcessRow /\ m = "update")
  <2>1. [job[s] EXCEPT !.at = "count"] =
          [kind |-> job[s].kind, actor |-> job[s].actor, cycle |-> job[s].cycle,
           at |-> "count", count |-> job[s].count]
    BY <1>1 DEF Jobs
  <2> QED BY <1>1, <1>2, <2>1 DEF Owns, Guarded, Exclusive, HasRow, HasToken, Anonymous
<1>5. Wanted(s) = {<<ProcessRow, "update">>}
  BY <1>1 DEF Wanted
<1>6. UNCHANGED data /\ (End(s) \/ (Acquire(s) /\ Goto(s, "count")))
  BY DEF LockProcess, Proceed
<1>7. CASE End(s)
  BY <1>6, <1>7, Ended DEF LockInv, TypeOK, data
<1>8. CASE Acquire(s) /\ Goto(s, "count")
  BY <1>1, <1>3, <1>4, <1>5, <1>6, <1>8, Granted, RowsDiffer
<1> QED BY <1>6, <1>7, <1>8

LEMMA CountKeepsLocks ==
    ASSUME LockInv, NEW s \in Sessions, Count(s)
    PROVE  LockInv'
<1> DEFINE next == IF job[s].kind = "contribute" /\ CountOf(s) >= DeliberationThreshold
                   THEN "freeze" ELSE "commit"
           j == [kind |-> job[s].kind, actor |-> job[s].actor, cycle |-> job[s].cycle,
                 at |-> next, count |-> CountOf(s)]
<1>1. Busy(s) /\ job[s] \in Jobs /\ job[s].at = "count"
  BY DEF Count, At, Busy, LockInv, TypeOK
<1>2. job[s].kind \in {"propose", "contribute"} \cup Anonymous
  BY <1>1 DEF LockInv, LocksTaken, LabelsOf, Kinds, Anonymous, Jobs
<1>3. CountOf(s) \in Nat
  BY <1>1, CountIsNat DEF LockInv
<1>4. j.kind = job[s].kind /\ j.actor = job[s].actor /\ j.at = next
  OBVIOUS
<1>5. j \in Jobs /\ j.at \in LabelsOf(j.kind)
  BY <1>1, <1>2, <1>3 DEF Jobs, LabelsOf, Anonymous
<1>6. \A r \in Resources, m \in {"share", "update"} : Owns(j, r, m) <=> Owns(job[s], r, m)
  BY <1>1, <1>2, <1>4 DEF Owns, Guarded, Exclusive, HasRow, HasToken, Anonymous
<1>7. job' = [job EXCEPT ![s] = j]
  <2>1. job'[s] = j
    BY <1>1 DEF Count, LockInv, TypeOK, Jobs
  <2> QED BY <2>1 DEF Count, LockInv, TypeOK
<1> HIDE DEF j
<1> QED BY <1>1, <1>5, <1>6, <1>7, Renamed DEF Count

LEMMA CommitKeepsLocks ==
    ASSUME LockInv, NEW s \in Sessions, Commit(s)
    PROVE  LockInv'
<1>1. Busy(s) /\ job[s] \in Jobs /\ End(s)
  BY DEF Commit, CommitProposal, CommitContribution, FreezeAndCommit, CommitVote, CommitOpen,
         CommitClose, At, Busy, LockInv, TypeOK
<1>2. /\ LocksTaken' /\ job' \in [Sessions -> Jobs \cup {Idle}] /\ held' \subseteq held
  BY <1>1, Ended
<1>3. /\ stage' \in {"proposals", "deliberation", "ballot_preparation", "voting", "mandate"}
      /\ cycle' \in 1..(MaxCycle + 1)
      /\ proposal' \in [Actors -> {"none", "published", "revised", "withdrawn", "frozen"}]
      /\ contributors' \subseteq Actors
      /\ unspent' \subseteq Actors \X (1..(MaxCycle + 1))
      /\ votes' \in [1..(MaxCycle + 1) -> Nat] /\ mandate' \in Nat
  <2>1. CASE CommitProposal(s)
    BY <1>1, <2>1 DEF CommitProposal, LockInv, TypeOK, Jobs
  <2>2. CASE CommitContribution(s)
    BY <1>1, <2>2 DEF CommitContribution, LockInv, TypeOK, Jobs
  <2>3. CASE FreezeAndCommit(s)
    BY <1>1, <2>3 DEF FreezeAndCommit, LockInv, TypeOK, Jobs
  <2>4. CASE CommitVote(s)
    <3>1. votes' \in [1..(MaxCycle + 1) -> Nat]
      <4>1. \A c \in 1..(MaxCycle + 1) : votes[c] \in Nat /\ votes[c] + 1 \in Nat
        BY DEF LockInv, TypeOK
      <4> QED BY <2>4, <4>1 DEF CommitVote, LockInv, TypeOK
    <3> QED BY <1>1, <2>4, <3>1 DEF CommitVote, LockInv, TypeOK, Jobs
  <2>5. CASE CommitOpen(s)
    BY <1>1, <2>5, TransactionsAssumption DEF CommitOpen, LockInv, TypeOK, Jobs
  <2>6. CASE CommitClose(s)
    BY <1>1, <2>6, TransactionsAssumption DEF CommitClose, LockInv, TypeOK, Jobs
  <2> QED BY <2>1, <2>2, <2>3, <2>4, <2>5, <2>6 DEF Commit
<1> QED BY <1>2, <1>3 DEF LockInv, TypeOK

LEMMA StepKeepsLocks ==
    ASSUME LockInv, [Next]_vars
    PROVE  LockInv'
<1>1. CASE UNCHANGED vars
  <2>1. TypeOK'
    BY <1>1 DEF LockInv, TypeOK, vars, data
  <2>2. \A s \in Sessions : Busy(s)' <=> Busy(s)
    BY <1>1 DEF Busy, vars
  <2>3. LocksTaken'
    BY <1>1, <2>2 DEF LockInv, LocksTaken, vars
  <2> QED BY <2>1, <2>3 DEF LockInv
<1>2. ASSUME NEW s \in Sessions, NEW kind \in Kinds, NEW a \in Actors, Begin(s, kind, a)
      PROVE  LockInv'
  BY <1>2, BeginKeepsLocks
<1>3. ASSUME NEW s \in Sessions, Step(s)
      PROVE  LockInv'
  <2>1. CASE AbortVictim(s)
    BY <2>1, Ended DEF AbortVictim, LockInv, TypeOK, data
  <2> QED
    BY <1>3, <2>1, ShareKeepsLocks, RowKeepsLocks, TokenKeepsLocks, UpdateKeepsLocks,
       CountKeepsLocks, CommitKeepsLocks DEF Step
<1> QED BY <1>1, <1>2, <1>3 DEF Next, Request

-----------------------------------------------------------------------------
(* Who holds a lock, and who therefore does not.                             *)

LEMMA ExclusiveIsAlone ==
    ASSUME LockInv, NEW s \in Sessions, NEW t \in Sessions, s # t, Busy(s), Busy(t),
           Exclusive(job[s])
    PROVE  ~Guarded(job[t]) /\ ~Exclusive(job[t])
<1>1. <<s, ProcessRow, "update">> \in held
  BY RowsDiffer DEF LockInv, LocksTaken, Owns
<1>2. \A m \in {"share", "update"} : <<t, ProcessRow, m>> \notin held
  BY <1>1 DEF LockInv, TypeOK
<1> QED BY <1>2, RowsDiffer DEF LockInv, LocksTaken, Owns

LEMMA RowIsAlone ==
    ASSUME LockInv, NEW s \in Sessions, NEW t \in Sessions, s # t, Busy(s), Busy(t),
           HasRow(job[s]), HasRow(job[t])
    PROVE  job[s].actor # job[t].actor
<1>1. job[s].actor \in Actors /\ job[t].actor \in Actors
  BY DEF LockInv, TypeOK, Busy, Jobs
<1>2. /\ <<s, RowOf(job[s].actor), "update">> \in held
      /\ <<t, RowOf(job[t].actor), "update">> \in held
  BY <1>1, RowsDiffer DEF LockInv, LocksTaken, Owns
<1> QED BY <1>2 DEF LockInv, TypeOK

\* The freeze waits for every live row.
LEMMA FreezeWaits ==
    ASSUME LockInv, NEW s \in Sessions, NEW t \in Sessions, s # t, Busy(t),
           FreezeAndCommit(s), HasRow(job[t])
    PROVE  job[t].actor \notin Live
<1>1. job[t].actor \in Actors
  BY DEF LockInv, TypeOK, Busy, Jobs
<1>2. <<t, RowOf(job[t].actor), "update">> \in held
  BY <1>1, RowsDiffer DEF LockInv, LocksTaken, Owns
<1>3. Wanted(s) = {<<RowOf(p), "update">> : p \in Live} /\ Blockers(s) = {}
  BY DEF FreezeAndCommit, At, Wanted
<1>4. ASSUME job[t].actor \in Live
      PROVE  t \in Blockers(s)
  <2>1. <<RowOf(job[t].actor), "update">> \in Wanted(s)
    BY <1>3, <1>4
  <2> DEFINE h == <<t, RowOf(job[t].actor), "update">>
             w == <<RowOf(job[t].actor), "update">>
  <2>2. h[1] = t /\ h[2] = w[1] /\ "update" \in {h[3], w[2]}
    OBVIOUS
  <2> QED BY <1>2, <2>1, <2>2 DEF Blockers
<1> QED BY <1>3, <1>4

-----------------------------------------------------------------------------
(* What was read under a lock is still so when the transaction commits.      *)

\* A step that leaves the committed rows alone changes nothing for the others.
LEMMA OthersReadsHold ==
    ASSUME LockInv, ReadsHold, NEW s \in Sessions, UNCHANGED data,
           \A t \in Sessions \ {s} : job'[t] = job[t],
           Busy(s)' => ReadsHoldOf(s)'
    PROVE  ReadsHold'
<1>1. ASSUME NEW t \in Sessions \ {s}, Busy(t)'
      PROVE  ReadsHoldOf(t)'
  <2>1. Busy(t) /\ job'[t] = job[t]
    BY <1>1 DEF Busy
  <2>2. ReadsHoldOf(t)
    BY <2>1 DEF ReadsHold
  <2>3. CountOf(t)' = CountOf(t) /\ Live' = Live
    BY <2>1 DEF CountOf, Live, data
  <2> QED BY <2>1, <2>2, <2>3 DEF ReadsHoldOf, StageOf, data
<1> QED BY <1>1 DEF ReadsHold

\* A statement that does not roll back has found what it asked for.
LEMMA Proceeded ==
    ASSUME LockInv, NEW s \in Sessions, NEW found, NEW label, Busy(s), Proceed(s, found, label), Busy(s)'
    PROVE  /\ found
           /\ job'[s].kind = job[s].kind /\ job'[s].actor = job[s].actor
           /\ job'[s].cycle = job[s].cycle /\ job'[s].count = job[s].count
           /\ job'[s].at = label
<1>1. job[s] \in Jobs
  BY DEF LockInv, TypeOK, Busy
<1>2. ~End(s)
  BY DEF End, Busy, LockInv, TypeOK
<1> QED BY <1>1, <1>2 DEF Proceed, Goto, LockInv, TypeOK, Jobs

LEMMA LockStepsKeepReads ==
    ASSUME LockInv, ReadsHold, NEW s \in Sessions,
           \/ \E kind \in Kinds, a \in Actors : Begin(s, kind, a)
           \/ ShareProcess(s) \/ LockProposal(s) \/ LockToken(s) \/ LockProcess(s) \/ Count(s)
           \/ AbortVictim(s)
    PROVE  ReadsHold'
<1>1. /\ UNCHANGED data
      /\ \A t \in Sessions \ {s} : job'[t] = job[t]
  <2>1. CASE \E kind \in Kinds, a \in Actors : Begin(s, kind, a)
    BY <2>1 DEF Begin, LockInv, TypeOK
  <2>2. CASE Count(s) \/ AbortVictim(s)
    BY <2>2 DEF Count, AbortVictim, End, LockInv, TypeOK
  <2>3. ASSUME NEW found, NEW label, Proceed(s, found, label)
        PROVE  UNCHANGED data /\ \A t \in Sessions \ {s} : job'[t] = job[t]
    BY <2>3 DEF Proceed, Goto, End, LockInv, TypeOK
  <2>4. CASE ShareProcess(s) \/ LockToken(s) \/ LockProcess(s)
    BY <2>3, <2>4 DEF ShareProcess, LockToken, LockProcess
  <2>5. CASE LockProposal(s)
    <3>1. job[s].kind \in {"propose", "revise", "withdraw"}
      BY <2>5 DEF LockProposal, At, Busy, LockInv, LocksTaken, LabelsOf, TypeOK, Jobs, Kinds, Anonymous
    <3> QED BY <2>3, <2>5, <3>1 DEF LockProposal
  <2> QED BY <2>1, <2>2, <2>4, <2>5
<1>2. ASSUME Busy(s)'
      PROVE  ReadsHoldOf(s)'
  <2> DEFINE a == job[s].actor
  <2>1. CASE \E kind \in Kinds, b \in Actors : Begin(s, kind, b)
    <3>1. PICK kind \in Kinds, b \in Actors : Begin(s, kind, b)
      BY <2>1
    <3>2. job'[s] = [kind |-> kind, actor |-> b, cycle |-> cycle, at |-> FirstLock(kind), count |-> 0]
      BY <3>1 DEF Begin, LockInv, TypeOK
    <3>3. ~Guarded(job'[s]) /\ ~Exclusive(job'[s]) /\ ~HasRow(job'[s]) /\ job'[s].at # "commit"
      BY <3>2 DEF FirstLock, Kinds, Anonymous, Guarded, Exclusive, HasRow
    <3> QED BY <3>3 DEF ReadsHoldOf
  <2>2. CASE ShareProcess(s)
    <3>1. Busy(s) /\ job[s].at = "share" /\ ReadsHoldOf(s)
      BY <2>2 DEF ShareProcess, At, ReadsHold
    <3>2. job[s].kind \in {"propose", "contribute", "revise", "vote"}
      BY <3>1 DEF Busy, LockInv, LocksTaken, LabelsOf, TypeOK, Jobs, Kinds, Anonymous
    <3>3. /\ stage = StageOf(job[s].kind)
          /\ job[s].kind = "vote" => job[s].cycle = cycle
          /\ job'[s].kind = job[s].kind /\ job'[s].actor = a /\ job'[s].cycle = job[s].cycle
          /\ job'[s].at = AfterShare(job[s].kind)
      BY <1>2, <2>2, <3>1, Proceeded DEF ShareProcess
    <3>4. ~Exclusive(job'[s]) /\ (job[s].kind = "contribute" => job'[s].at = "update")
      BY <3>2, <3>3 DEF AfterShare, Exclusive, Anonymous
    <3> QED
      BY <1>1, <3>1, <3>2, <3>3, <3>4 DEF ReadsHoldOf, StageOf, HasRow, data
  <2>3. CASE LockProposal(s)
    <3>1. Busy(s) /\ job[s].at = "row" /\ ReadsHoldOf(s)
      BY <2>3 DEF LockProposal, At, ReadsHold
    <3>2. job[s].kind \in {"propose", "revise", "withdraw"} /\ a \in Actors
      BY <3>1 DEF Busy, LockInv, LocksTaken, LabelsOf, TypeOK, Jobs, Kinds, Anonymous
    <3>3. /\ job[s].kind = "revise" => proposal[a] = "published"
          /\ job[s].kind = "withdraw" => proposal[a] \in {"published", "revised"}
          /\ job'[s].kind = job[s].kind /\ job'[s].actor = a
          /\ job'[s].at = CASE job[s].kind = "propose" -> "update"
                            [] job[s].kind = "revise" -> "share"
                            [] OTHER -> "commit"
      BY <1>2, <2>3, <3>1, <3>2, Proceeded DEF LockProposal
    <3>4. Live' = Live /\ proposal' = proposal /\ stage' = stage
      BY <1>1 DEF Live, data
    <3> QED
      BY <3>1, <3>2, <3>3, <3>4
      DEF ReadsHoldOf, StageOf, Guarded, Exclusive, HasRow, Live, Anonymous
  <2>4. CASE LockToken(s)
    <3>1. Busy(s) /\ job[s].at = "token"
      BY <2>4 DEF LockToken, At
    <3>2. job[s].kind = "vote"
      BY <3>1 DEF Busy, LockInv, LocksTaken, LabelsOf, TypeOK, Jobs, Kinds, Anonymous
    <3>3. job'[s].kind = "vote" /\ job'[s].at = "share"
      BY <1>2, <2>4, <3>1, <3>2, Proceeded DEF LockToken
    <3> QED BY <3>3 DEF ReadsHoldOf, Guarded, Exclusive, Anonymous
  <2>5. CASE LockProcess(s)
    <3>1. Busy(s) /\ job[s].at = "update"
      BY <2>5 DEF LockProcess, At
    <3>2. job[s].kind \in {"propose", "contribute"} \cup Anonymous
      BY <3>1 DEF Busy, LockInv, LocksTaken, LabelsOf, TypeOK, Jobs, Kinds, Anonymous
    <3>3. stage = StageOf(job[s].kind) /\ job'[s].kind = job[s].kind /\ job'[s].at = "count"
      BY <1>2, <2>5, <3>1, Proceeded DEF LockProcess
    <3> QED BY <1>1, <3>2, <3>3 DEF ReadsHoldOf, StageOf, Anonymous, data
  <2>6. CASE Count(s)
    <3>1. Busy(s) /\ job[s].at = "count" /\ ReadsHoldOf(s) /\ job[s] \in Jobs
      BY <2>6 DEF Count, At, ReadsHold, Busy, LockInv, TypeOK
    <3>2. job[s].kind \in {"propose", "contribute"} \cup Anonymous
      BY <3>1 DEF Busy, LockInv, LocksTaken, LabelsOf, TypeOK, Jobs, Kinds, Anonymous
    <3>3. /\ job'[s].kind = job[s].kind /\ job'[s].actor = a /\ job'[s].count = CountOf(s)
          /\ job'[s].at = IF job[s].kind = "contribute" /\ CountOf(s) >= DeliberationThreshold
                          THEN "freeze" ELSE "commit"
      BY <2>6, <3>1 DEF Count, LockInv, TypeOK, Jobs
    <3>4. CountOf(s)' = CountOf(s) /\ CountOf(s) \in Nat
      BY <1>1, <3>1, <3>3, CountIsNat DEF CountOf, LockInv, data
    <3>5. stage = StageOf(job[s].kind)
      BY <3>1 DEF ReadsHoldOf, Exclusive
    <3> QED
      BY <1>1, <3>2, <3>3, <3>4, <3>5, TransactionsAssumption DEF ReadsHoldOf, StageOf, Anonymous, data
  <2>7. CASE AbortVictim(s)
    BY <1>2, <2>7, Ended DEF AbortVictim
  <2> QED BY <2>1, <2>2, <2>3, <2>4, <2>5, <2>6, <2>7
<1> QED BY <1>1, <1>2, OthersReadsHold

\* What a committing transaction knows of itself and of the process.
LEMMA AtCommit ==
    ASSUME LockInv, ReadsHold, NEW s \in Sessions, Commit(s)
    PROVE  /\ Busy(s) /\ job[s] \in Jobs /\ ReadsHoldOf(s)
           /\ job'[s] = Idle /\ \A t \in Sessions \ {s} : job'[t] = job[t]
<1>1. Busy(s) /\ End(s)
  BY DEF Commit, CommitProposal, CommitContribution, FreezeAndCommit, CommitVote, CommitOpen,
         CommitClose, At
<1> QED BY <1>1 DEF ReadsHold, Busy, End, LockInv, TypeOK

\* Holding the process row FOR UPDATE, a transaction may change what it likes
\* of the process: nobody else has read it under a lock.
LEMMA ExclusiveKeepsReads ==
    ASSUME LockInv, ReadsHold, NEW s \in Sessions, Commit(s), Exclusive(job[s]),
           \A t \in Sessions \ {s} : Busy(t) /\ HasRow(job[t])
               => proposal'[job[t].actor] = proposal[job[t].actor]
    PROVE  ReadsHold'
<1>1. ASSUME NEW t \in Sessions, Busy(t)'
      PROVE  ReadsHoldOf(t)'
  <2>1. t # s /\ Busy(t) /\ job'[t] = job[t] /\ job[t] \in Jobs /\ Busy(s)
    BY <1>1, AtCommit DEF Busy, LockInv, TypeOK
  <2>2. ~Guarded(job[t]) /\ ~Exclusive(job[t]) /\ ReadsHoldOf(t)
    BY <2>1, ExclusiveIsAlone DEF ReadsHold
  <2>3. HasRow(job[t]) => proposal'[job[t].actor] = proposal[job[t].actor]
    BY <2>1
  <2> QED
    BY <2>1, <2>2, <2>3 DEF ReadsHoldOf, Guarded, Exclusive, HasRow, Live, Jobs
<1> QED BY <1>1 DEF ReadsHold

LEMMA CommitKeepsReads ==
    ASSUME LockInv, ReadsHold, NEW s \in Sessions, Commit(s)
    PROVE  ReadsHold'
<1> DEFINE a == job[s].actor
<1>1. /\ Busy(s) /\ job[s] \in Jobs /\ ReadsHoldOf(s)
      /\ job'[s] = Idle /\ \A t \in Sessions \ {s} : job'[t] = job[t]
  BY AtCommit
<1>2. ASSUME NEW t \in Sessions, t # s, Busy(t), HasRow(job[t]), CommitProposal(s) \/ FreezeAndCommit(s)
      PROVE  proposal'[job[t].actor] = proposal[job[t].actor]
  <2>1. job[t].actor \in Actors /\ job[t] \in Jobs
    BY <1>2 DEF Busy, LockInv, TypeOK, Jobs
  <2>2. CASE FreezeAndCommit(s)
    BY <1>2, <2>1, <2>2, FreezeWaits DEF FreezeAndCommit, Live
  <2>3. CASE CommitProposal(s)
    <3>1. HasRow(job[s])
      BY <2>3 DEF CommitProposal, At, HasRow
    <3>2. a # job[t].actor
      BY <1>1, <1>2, <3>1, RowIsAlone
    <3> QED BY <2>1, <2>3, <3>2 DEF CommitProposal, LockInv, TypeOK
  <2> QED BY <1>2, <2>2, <2>3
<1>3. CASE FreezeAndCommit(s)
  BY <1>1, <1>2, <1>3, ExclusiveKeepsReads DEF FreezeAndCommit, At, Exclusive
<1>4. CASE CommitContribution(s) \/ CommitOpen(s) \/ CommitClose(s)
  BY <1>4, ExclusiveKeepsReads DEF CommitContribution, CommitOpen, CommitClose, At, Exclusive, Anonymous
<1>5. CASE CommitProposal(s) /\ job[s].kind = "propose"
  BY <1>1, <1>2, <1>5, ExclusiveKeepsReads DEF CommitProposal, At, Exclusive
<1>6. CASE CommitProposal(s) /\ job[s].kind \in {"revise", "withdraw"}
  <2>1. /\ a \in Actors /\ proposal[a] \in {"published", "revised"}
        /\ job[s].kind = "revise" => stage = "proposals"
    BY <1>1, <1>6 DEF CommitProposal, At, ReadsHoldOf, HasRow, Live, Guarded, StageOf, Jobs
  <2>2. /\ {p \in Actors : proposal[p] # "none"}' = {p \in Actors : proposal[p] # "none"}
        /\ UNCHANGED <<stage, cycle, contributors, votes>>
    BY <1>6, <2>1 DEF CommitProposal, LockInv, TypeOK
  <2>3. ASSUME NEW t \in Sessions, Busy(t)'
        PROVE  ReadsHoldOf(t)'
    <3>1. t # s /\ Busy(t) /\ job'[t] = job[t] /\ job[t] \in Jobs
      BY <1>1, <2>3 DEF Busy, LockInv, TypeOK
    <3>2. ReadsHoldOf(t) /\ CountOf(t)' = CountOf(t)
      BY <2>2, <3>1 DEF ReadsHold, CountOf
    <3>3. HasRow(job[t]) => proposal'[job[t].actor] = proposal[job[t].actor]
      BY <1>2, <1>6, <3>1
    <3> QED BY <2>2, <3>1, <3>2, <3>3 DEF ReadsHoldOf, StageOf, HasRow, Live, Jobs
  <2> QED BY <2>3 DEF ReadsHold
<1>7. CASE CommitVote(s)
  <2>1. Guarded(job[s])
    BY <1>7 DEF CommitVote, At, Guarded
  <2>2. ASSUME NEW t \in Sessions, Busy(t)'
        PROVE  ReadsHoldOf(t)'
    <3>1. t # s /\ Busy(t) /\ job'[t] = job[t] /\ job[t] \in Jobs
      BY <1>1, <2>2 DEF Busy, LockInv, TypeOK
    <3>2. ReadsHoldOf(t) /\ ~Exclusive(job[t])
      BY <1>1, <2>1, <3>1, ExclusiveIsAlone DEF ReadsHold
    <3> QED BY <1>7, <3>1, <3>2 DEF CommitVote, ReadsHoldOf, StageOf, HasRow, Live, Jobs
  <2> QED BY <2>2 DEF ReadsHold
<1>8. CommitProposal(s) => job[s].kind \in {"propose", "revise", "withdraw"}
  BY DEF CommitProposal
<1> QED BY <1>3, <1>4, <1>5, <1>6, <1>7, <1>8 DEF Commit

-----------------------------------------------------------------------------
(* What a commit does to the process.                                        *)

LEMMA CommitOfAProposal ==
    ASSUME TransactionInv, NEW s \in Sessions, CommitProposal(s)
    PROVE  ThresholdsHold' /\ NothingLive' /\ VotesHold'
<1> DEFINE a == job[s].actor
<1>1. Busy(s) /\ job[s] \in Jobs /\ ReadsHoldOf(s) /\ a \in Actors
  BY AtCommit DEF TransactionInv, Commit, Jobs
<1>2. VotesHold'
  <2>1. mandate # 0 => stage # "proposals"
    BY DEF TransactionInv, VotesHold
  <2> QED
    BY <1>1, <2>1
    DEF CommitProposal, At, TransactionInv, VotesHold, EveryCommittedVoteIsCounted, ReadsHoldOf,
        Guarded, StageOf
<1>3. CASE job[s].kind = "propose"
  <2>1. stage = "proposals" /\ cycle = 1 /\ contributors = {}
    BY <1>1, <1>3 DEF CommitProposal, At, ReadsHoldOf, Guarded, StageOf, TransactionInv, ThresholdsHold
  <2>2. /\ proposal' = [proposal EXCEPT ![a] = "published"]
        /\ stage' = IF job[s].count >= ProposalThreshold THEN "deliberation" ELSE stage
        /\ UNCHANGED <<cycle, contributors>>
    BY <1>3 DEF CommitProposal
  <2>3. Proposed' = Proposed \cup {a} /\ job[s].count = Cardinality(Proposed \cup {a})
    BY <1>1, <1>3, <2>2
    DEF CommitProposal, At, ReadsHoldOf, Exclusive, CountOf, Proposed, TransactionInv, LockInv, TypeOK
  <2>4. job[s].count \in Nat /\ Cardinality({}) = 0
    BY <1>1, FS_EmptySet DEF Jobs
  <2> QED
    BY <1>2, <2>1, <2>2, <2>3, <2>4, TransactionsAssumption DEF ThresholdsHold, NothingLive
<1>4. CASE job[s].kind \in {"revise", "withdraw"}
  <2>1. /\ proposal[a] \in {"published", "revised"}
        /\ job[s].kind = "revise" => stage = "proposals"
    BY <1>1, <1>4 DEF CommitProposal, At, ReadsHoldOf, HasRow, Live, Guarded, StageOf, Jobs
  <2>2. Proposed' = Proposed /\ UNCHANGED <<stage, cycle, contributors>>
    BY <1>4, <2>1 DEF CommitProposal, Proposed, TransactionInv, LockInv, TypeOK
  <2>3. ThresholdsHold'
    BY <2>2 DEF TransactionInv, ThresholdsHold
  <2>4. NothingLive'
    <3>1. a \in Live
      BY <1>1, <2>1 DEF Live
    <3> QED BY <2>2, <3>1 DEF TransactionInv, NothingLive
  <2> QED BY <1>2, <2>3, <2>4
<1> QED BY <1>3, <1>4 DEF CommitProposal

LEMMA CommitOfAContribution ==
    ASSUME TransactionInv, NEW s \in Sessions, CommitContribution(s) \/ FreezeAndCommit(s)
    PROVE  ThresholdsHold' /\ NothingLive' /\ VotesHold'
<1> DEFINE a == job[s].actor
<1>1. Busy(s) /\ job[s] \in Jobs /\ ReadsHoldOf(s)
  BY AtCommit DEF TransactionInv, Commit
<1>2. job[s].kind = "contribute"
  BY <1>1 DEF CommitContribution, FreezeAndCommit, At, TransactionInv, LockInv, LocksTaken, LabelsOf,
              Jobs, Kinds, Anonymous
<1>3. stage = "deliberation" /\ mandate = 0
  BY <1>1, <1>2
  DEF CommitContribution, FreezeAndCommit, At, ReadsHoldOf, Guarded, StageOf, TransactionInv, VotesHold
<1>4. CASE CommitContribution(s)
  <2>1. /\ contributors' = contributors \cup {a}
        /\ UNCHANGED <<stage, cycle, proposal, votes, mandate>>
    BY <1>4 DEF CommitContribution
  <2>2. Cardinality(contributors \cup {a}) < DeliberationThreshold
    BY <1>1, <1>2, <1>4 DEF CommitContribution, At, ReadsHoldOf, Exclusive, CountOf
  <2> QED
    BY <1>3, <2>1, <2>2
    DEF TransactionInv, ThresholdsHold, NothingLive, VotesHold, EveryCommittedVoteIsCounted, Live
<1>5. CASE FreezeAndCommit(s)
  <2>1. Live' = {}
    BY <1>5 DEF FreezeAndCommit, Live, TransactionInv, LockInv, TypeOK
  <2> QED
    BY <1>3, <1>5, <2>1
    DEF FreezeAndCommit, TransactionInv, ThresholdsHold, NothingLive, VotesHold,
        EveryCommittedVoteIsCounted
<1> QED BY <1>4, <1>5

LEMMA CommitOfAVote ==
    ASSUME TransactionInv, NEW s \in Sessions, CommitVote(s)
    PROVE  ThresholdsHold' /\ NothingLive' /\ VotesHold'
<1>1. Busy(s) /\ job[s] \in Jobs /\ ReadsHoldOf(s)
  BY AtCommit DEF TransactionInv, Commit
<1>2. stage = "voting" /\ mandate = 0 /\ job[s].cycle = cycle
  BY <1>1 DEF CommitVote, At, ReadsHoldOf, Guarded, StageOf, TransactionInv, VotesHold
<1>3. \A c \in 1..(cycle - 1) : votes'[c] = votes[c]
  BY <1>2 DEF CommitVote, TransactionInv, LockInv, TypeOK
<1> QED
  BY <1>2, <1>3
  DEF CommitVote, TransactionInv, ThresholdsHold, NothingLive, VotesHold,
      EveryCommittedVoteIsCounted, Live

LEMMA CommitOfAnOpening ==
    ASSUME TransactionInv, NEW s \in Sessions, CommitOpen(s)
    PROVE  ThresholdsHold' /\ NothingLive' /\ VotesHold'
<1>1. Busy(s) /\ job[s] \in Jobs /\ ReadsHoldOf(s)
  BY AtCommit DEF TransactionInv, Commit
<1>2. stage = "ballot_preparation" /\ mandate = 0
  BY <1>1 DEF CommitOpen, At, ReadsHoldOf, Exclusive, Anonymous, StageOf, TransactionInv, VotesHold
<1> QED
  BY <1>2
  DEF CommitOpen, TransactionInv, ThresholdsHold, NothingLive, VotesHold,
      EveryCommittedVoteIsCounted, Live

LEMMA CommitOfAClose ==
    ASSUME TransactionInv, NEW s \in Sessions, CommitClose(s)
    PROVE  ThresholdsHold' /\ NothingLive' /\ VotesHold'
<1>1. Busy(s) /\ job[s] \in Jobs /\ ReadsHoldOf(s)
  BY AtCommit DEF TransactionInv, Commit
<1>2. stage = "voting" /\ mandate = 0 /\ job[s].count = votes[cycle]
  BY <1>1
  DEF CommitClose, At, ReadsHoldOf, Exclusive, Anonymous, StageOf, CountOf, TransactionInv, VotesHold
<1>3. Live = {} /\ Live' = {} /\ cycle \in Nat \ {0} /\ votes' = votes
  BY <1>2, TransactionsAssumption DEF TransactionInv, NothingLive, Live, CommitClose, LockInv, TypeOK
<1>4. CASE job[s].count < BallotQuorum
  <2>1. stage' = "deliberation" /\ cycle' = cycle + 1 /\ mandate' = 0
    BY <1>2, <1>4 DEF CommitClose
  <2>2. \A c \in 1..cycle : votes'[c] < BallotQuorum
    BY <1>2, <1>3, <1>4 DEF TransactionInv, VotesHold, EveryCommittedVoteIsCounted
  <2> QED
    BY <1>3, <2>1, <2>2 DEF ThresholdsHold, NothingLive, VotesHold, EveryCommittedVoteIsCounted
<1>5. CASE ~(job[s].count < BallotQuorum)
  BY <1>2, <1>3, <1>5
  DEF CommitClose, TransactionInv, ThresholdsHold, NothingLive, VotesHold, EveryCommittedVoteIsCounted
<1> QED BY <1>4, <1>5

LEMMA StepKeepsTransactionInv ==
    ASSUME TransactionInv, [Next]_vars
    PROVE  TransactionInv'
<1>1. LockInv'
  BY StepKeepsLocks DEF TransactionInv
<1>2. CASE UNCHANGED vars
  <2>1. ReadsHold'
    <3>1. CASE Sessions = {}
      BY <3>1 DEF ReadsHold
    <3>2. ASSUME NEW s \in Sessions
          PROVE  ReadsHold'
      <4>1. Busy(s)' => ReadsHoldOf(s)'
        BY <1>2, <3>2
        DEF TransactionInv, ReadsHold, Busy, vars, data, ReadsHoldOf, StageOf, CountOf, Live
      <4> QED BY <1>2, <3>2, <4>1, OthersReadsHold DEF TransactionInv, vars
    <3> QED BY <3>1, <3>2
  <2> QED
    BY <1>1, <1>2, <2>1
    DEF TransactionInv, ThresholdsHold, NothingLive, VotesHold, EveryCommittedVoteIsCounted,
        vars, data, Proposed, Live
<1>3. ASSUME NEW s \in Sessions,
             \/ \E kind \in Kinds, a \in Actors : Begin(s, kind, a)
             \/ ShareProcess(s) \/ LockProposal(s) \/ LockToken(s) \/ LockProcess(s) \/ Count(s)
             \/ AbortVictim(s)
      PROVE  TransactionInv'
  <2>1. ReadsHold'
    BY <1>3, LockStepsKeepReads DEF TransactionInv
  <2>2. UNCHANGED data
    <3>1. CASE LockProposal(s)
      <4>1. job[s].kind \in {"propose", "revise", "withdraw"}
        BY <3>1 DEF LockProposal, At, Busy, TransactionInv, LockInv, LocksTaken, LabelsOf, TypeOK, Jobs,
                    Kinds, Anonymous
      <4> QED BY <3>1, <4>1 DEF LockProposal, Proceed
    <3> QED
      BY <1>3, <3>1 DEF Begin, ShareProcess, LockToken, LockProcess, Count, AbortVictim, Proceed
  <2> QED
    BY <1>1, <2>1, <2>2
    DEF TransactionInv, ThresholdsHold, NothingLive, VotesHold, EveryCommittedVoteIsCounted, data,
        Proposed, Live
<1>4. ASSUME NEW s \in Sessions, Commit(s)
      PROVE  TransactionInv'
  <2>1. ReadsHold'
    BY <1>4, CommitKeepsReads DEF TransactionInv
  <2> QED
    BY <1>1, <1>4, <2>1, CommitOfAProposal, CommitOfAContribution, CommitOfAVote, CommitOfAnOpening,
       CommitOfAClose DEF Commit, TransactionInv
<1> QED BY <1>2, <1>3, <1>4 DEF Next, Request, Step

LEMMA InitTransactionInv ==
    ASSUME Init
    PROVE  TransactionInv
<1>1. TypeOK
  BY TransactionsAssumption DEF Init, TypeOK
<1>2. \A s \in Sessions : ~Busy(s)
  BY DEF Init, Busy
<1>3. LocksTaken /\ ReadsHold
  BY <1>2 DEF Init, LocksTaken, ReadsHold
<1>4. Proposed = {} /\ Live = {} /\ Cardinality({}) = 0
  BY FS_EmptySet DEF Init, Proposed, Live
<1>5. ThresholdsHold /\ NothingLive
  BY <1>4, TransactionsAssumption DEF Init, ThresholdsHold, NothingLive
<1>6. VotesHold
  BY TransactionsAssumption DEF Init, VotesHold, EveryCommittedVoteIsCounted
<1> QED BY <1>1, <1>3, <1>5, <1>6 DEF TransactionInv, LockInv

\* The inductive invariant the results rest on.
THEOREM TransactionsInvariant == Spec => []TransactionInv
BY InitTransactionInv, StepKeepsTransactionInv, PTL DEF Spec

-----------------------------------------------------------------------------
(* Voting and deadlock.                                                      *)

Balloting == {"vote", "open", "close"}

\* A vote, an opening or a closing that waits holds no row but its token, and
\* one that holds its token waits for the process FOR SHARE.
LEMMA WaitingBallotHoldsLittle ==
    ASSUME LockInv, NEW t \in Sessions, Busy(t), job[t].kind \in Balloting, Wanted(t) # {},
           NEW row \in Resources, NEW mode \in {"share", "update"}, <<t, row, mode>> \in held
    PROVE  /\ row = TokenOf(job[t].actor)
           /\ job[t].kind = "vote" /\ Wanted(t) = {<<ProcessRow, "share">>}
<1>1. job[t].at \in LabelsOf(job[t].kind) /\ Owns(job[t], row, mode)
  BY DEF LockInv, LocksTaken
<1>2. job[t].at \notin {"commit", "count"}
  BY DEF Wanted
<1>3. job[t].kind = "vote" => job[t].at \in {"token", "share"}
  BY <1>1, <1>2 DEF LabelsOf, Anonymous
<1>4. job[t].kind \in Anonymous => job[t].at = "update"
  BY <1>1, <1>2 DEF LabelsOf, Anonymous
<1>5. job[t].kind = "vote" /\ job[t].at = "share" /\ row = TokenOf(job[t].actor)
  BY <1>1, <1>3, <1>4 DEF Owns, Guarded, Exclusive, HasRow, HasToken, Anonymous, Balloting
<1> QED BY <1>5 DEF Wanted

\* Nobody else asks for a token.
LEMMA OnlyVotesWantTokens ==
    ASSUME LockInv, NEW t \in Sessions, Busy(t), NEW a \in Actors, NEW mode,
           <<TokenOf(a), mode>> \in Wanted(t)
    PROVE  job[t].kind = "vote"
<1>1. job[t] \in Jobs /\ job[t].at \in LabelsOf(job[t].kind)
  BY DEF LockInv, TypeOK, LocksTaken, Busy
<1>2. \A b \in Actors : TokenOf(a) # RowOf(b) /\ TokenOf(a) # ProcessRow
  BY RowsDiffer
<1>3. Live \subseteq Actors /\ job[t].actor \in Actors
  BY <1>1 DEF Live, Jobs
<1>4. job[t].at = "token"
  BY <1>1, <1>2, <1>3 DEF Wanted, Jobs
<1> QED BY <1>1, <1>4 DEF LabelsOf, Anonymous, Jobs, Kinds

\* So the ones who wait for each other include a proposal or a contribution,
\* and these wait for each other without the ballot's own transactions.
LEMMA BallotIsOutOfDeadlocks ==
    ASSUME LockInv, NEW s \in Sessions, Busy(s), job[s].kind \in Balloting
    PROVE  ~InDeadlock(s)
<1> SUFFICES ASSUME NEW D \in SUBSET Sessions, s \in D, Deadlocked(D),
                    \A E \in SUBSET D : E # D => ~Deadlocked(E)
             PROVE  FALSE
  BY DEF InDeadlock
<1> DEFINE Rest == {t \in D : job[t].kind \notin Balloting}
<1>1. ASSUME NEW x \in D
      PROVE  \E y \in D, h \in held, w \in Wanted(x) :
                /\ y # x /\ h = <<y, w[1], h[3]>> /\ w[1] \in Resources /\ h[3] \in {"share", "update"}
                /\ Busy(x) /\ Busy(y) /\ Wanted(y) # {}
                /\ "update" \in {h[3], w[2]}
  <2>1. PICK y \in D : y \in Blockers(x)
    BY DEF Deadlocked
  <2>2. PICK h \in held, w \in Wanted(x) :
           y # x /\ h[1] = y /\ h[2] = w[1] /\ "update" \in {h[3], w[2]}
    BY <2>1 DEF Blockers
  <2>3. h = <<h[1], h[2], h[3]>> /\ h[2] \in Resources /\ h[3] \in {"share", "update"}
    BY DEF LockInv, TypeOK
  <2>4. Busy(x) /\ Busy(y) /\ Wanted(y) # {}
    BY DEF Deadlocked, Blockers
  <2> QED BY <2>2, <2>3, <2>4
<1>2. ASSUME NEW x \in Rest
      PROVE  Blockers(x) \cap Rest # {}
  <2>1. PICK y \in D, h \in held, w \in Wanted(x) :
           /\ y # x /\ h = <<y, w[1], h[3]>> /\ w[1] \in Resources /\ h[3] \in {"share", "update"}
           /\ Busy(x) /\ Busy(y) /\ Wanted(y) # {}
           /\ "update" \in {h[3], w[2]}
    BY <1>1
  <2>2. y \in Blockers(x)
    BY <2>1 DEF Blockers
  <2>3. CASE job[y].kind \in Balloting
    <3> DEFINE a == job[y].actor
    <3>1. a \in Actors
      BY <2>1 DEF LockInv, TypeOK, Busy, Jobs
    <3>2. <<y, w[1], h[3]>> \in held /\ y \in Sessions
      BY <2>1
    <3>3. w[1] = TokenOf(a)
      BY <2>1, <2>3, <3>2, WaitingBallotHoldsLittle
    <3>4. w = <<w[1], w[2]>>
      BY DEF Wanted
    <3>5. job[x].kind = "vote"
      BY <2>1, <3>1, <3>3, <3>4, OnlyVotesWantTokens
    <3> QED BY <3>5 DEF Balloting
  <2> QED BY <2>2, <2>3
<1>3. Rest # {}
  <2>1. PICK y \in D, h \in held, w \in Wanted(s) :
           /\ y # s /\ h = <<y, w[1], h[3]>> /\ w[1] \in Resources /\ h[3] \in {"share", "update"}
           /\ Busy(s) /\ Busy(y) /\ Wanted(y) # {}
           /\ "update" \in {h[3], w[2]}
    BY <1>1
  <2>2. CASE job[y].kind \in Balloting
    <3>1. Wanted(y) = {<<ProcessRow, "share">>}
      BY <2>1, <2>2, WaitingBallotHoldsLittle
    <3>2. PICK z \in D, g \in held :
             /\ g = <<z, ProcessRow, g[3]>> /\ g[3] \in {"share", "update"}
             /\ Busy(z) /\ Wanted(z) # {}
      BY <1>1, <3>1
    <3>3. job[z].kind \notin Balloting
      <4>1. job[z].actor \in Actors
        BY <3>2 DEF LockInv, TypeOK, Busy, Jobs
      <4>2. <<z, ProcessRow, g[3]>> \in held /\ ProcessRow # TokenOf(job[z].actor)
        BY <3>2, <4>1, RowsDiffer
      <4> QED BY <3>2, <4>2, RowsDiffer, WaitingBallotHoldsLittle
    <3> QED BY <3>3
  <2> QED BY <2>2
<1>4. Deadlocked(Rest)
  BY <1>2, <1>3 DEF Deadlocked
<1>5. Rest \in SUBSET D /\ Rest # D
  OBVIOUS
<1> QED BY <1>4, <1>5

-----------------------------------------------------------------------------
(* The results.                                                              *)

\* No threshold is missed, however many inserts run at once.
THEOREM NoThresholdIsMissed == Spec => []ThresholdIsNeverMissed
<1>1. TransactionInv => ThresholdIsNeverMissed
  BY DEF TransactionInv, ThresholdsHold, ThresholdIsNeverMissed, Proposed
<1> QED BY <1>1, TransactionsInvariant, PTL

\* Every vote that commits is in the count the close writes down.
THEOREM NoCommittedVoteIsLost == Spec => []EveryCommittedVoteIsCounted
<1>1. TransactionInv => EveryCommittedVoteIsCounted
  BY DEF TransactionInv, VotesHold
<1> QED BY <1>1, TransactionsInvariant, PTL

\* No transaction that was under way touches the ballot after the freeze.
THEOREM NothingMovesAfterTheFreeze == Spec => FrozenMeansFrozen
<1>1. ASSUME TransactionInv, Next, stage \notin {"proposals", "deliberation"} \/ cycle > 1
      PROVE  proposal' = proposal
  <2>1. Live = {}
    BY <1>1 DEF TransactionInv, NothingLive
  <2>2. PICK s \in Sessions : Request(s) \/ Step(s)
    BY <1>1 DEF Next
  <2>3. CASE CommitProposal(s)
    <3>1. Busy(s) /\ job[s] \in Jobs /\ ReadsHoldOf(s) /\ job[s].at = "commit"
      BY <1>1, <2>3, AtCommit DEF TransactionInv, Commit, CommitProposal, At
    <3>2. CASE job[s].kind = "withdraw"
      BY <2>1, <3>1, <3>2 DEF ReadsHoldOf
    <3>3. CASE job[s].kind \in {"propose", "revise"}
      <4>1. stage = "proposals"
        BY <3>1, <3>3 DEF ReadsHoldOf, Guarded, StageOf
      <4> QED BY <1>1, <4>1, TransactionsAssumption DEF TransactionInv, ThresholdsHold
    <3> QED BY <2>3, <3>2, <3>3 DEF CommitProposal
  <2>4. CASE FreezeAndCommit(s)
    BY <1>1, <2>1, <2>4 DEF FreezeAndCommit, TransactionInv, LockInv, TypeOK
  <2>5. CASE LockProposal(s)
    <3>1. job[s].kind \in {"propose", "revise", "withdraw"}
      BY <1>1, <2>5 DEF LockProposal, At, Busy, TransactionInv, LockInv, LocksTaken, LabelsOf, TypeOK, Jobs,
                  Kinds, Anonymous
    <3> QED BY <2>5, <3>1 DEF LockProposal, Proceed, data
  <2> QED
    BY <2>2, <2>3, <2>4, <2>5
    DEF Request, Begin, Step, ShareProcess, LockToken, LockProcess, Count, AbortVictim, Proceed, data,
        Commit, CommitContribution, CommitVote, CommitOpen, CommitClose
<1>2. TransactionInv /\ [Next]_vars =>
        [stage \notin {"proposals", "deliberation"} \/ cycle > 1 => proposal' = proposal]_vars
  BY <1>1
<1> QED BY <1>2, TransactionsInvariant, PTL DEF Spec, FrozenMeansFrozen

\* An exclusive lock is exclusive, and no deadlock has a vote, an opening or a
\* closing in it.
THEOREM VotingDoesNotDeadlock == Spec => []VotingNeverDeadlocks
<1>1. TransactionInv => VotingNeverDeadlocks
  BY BallotIsOutOfDeadlocks DEF TransactionInv, LockInv, VotingNeverDeadlocks, Balloting
<1> QED BY <1>1, TransactionsInvariant, PTL
=============================================================================
