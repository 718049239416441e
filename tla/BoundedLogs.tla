----------------------------- MODULE BoundedLogs -----------------------------
(* The tables of the console that keep their newest rows only: technical       *)
(* errors, uptime samples, alerts, backup verifications and restore            *)
(* attestations.  The five appends are alike: insert a row stamped by its      *)
(* caller, select the newest rows to keep, and delete what is not among them,  *)
(* in three statements without a transaction; a prune that fails is ignored.   *)
(* One table is modelled, and a row is its time: times are distinct.           *)
EXTENDS Integers, FiniteSets, FiniteSetsExt

CONSTANTS
    Writers,     \* requests that append
    Retention,   \* rows to keep: 200 errors and alerts, 288 samples, 50 verifications and attestations
    MaxRows      \* rows appended in all

LogConstants == Writers # {} /\ Retention \in Nat \ {0} /\ MaxRows \in Nat
ASSUME LogAssumption == LogConstants

VARIABLES
    rows,     \* the times of the rows in the table
    writers,  \* where each request is, the time it took and the rows it chose to keep
    taken,    \* times taken by callers, which is the number of appends begun
    unpruned  \* appends whose prune failed since the last deletion

vars == <<rows, writers, taken, unpruned>>

Idle == [at |-> "idle", time |-> 0, keep |-> {}]

Init == rows = {} /\ writers = [w \in Writers |-> Idle] /\ taken = 0 /\ unpruned = 0

\* A failed request, a status view or an operator's attestation reads the
\* clock; what it inserts may come after rows of later times.
Stamp(w) ==
    /\ writers[w].at = "idle" /\ taken < MaxRows
    /\ taken' = taken + 1
    /\ writers' = [writers EXCEPT ![w] = [at |-> "insert", time |-> taken + 1, keep |-> {}]]
    /\ UNCHANGED <<rows, unpruned>>

Insert(w) ==
    /\ writers[w].at = "insert"
    /\ rows' = rows \cup {writers[w].time}
    /\ writers' = [writers EXCEPT ![w].at = "choose"]
    /\ UNCHANGED <<taken, unpruned>>

Newer(r) == {s \in rows : s > r}
Newest == {r \in rows : Cardinality(Newer(r)) < Retention}

\* order by time desc, limit Retention; fewer rows than that need no delete.
ChooseKept(w) ==
    /\ writers[w].at = "choose"
    /\ writers' = [writers EXCEPT ![w] =
           IF Cardinality(Newest) >= Retention THEN [@ EXCEPT !.at = "delete", !.keep = Newest]
           ELSE Idle]
    /\ UNCHANGED <<rows, taken, unpruned>>

\* A plausible bug: rows are chosen but an over-full table is taken for a full one: one too many is kept.
DeleteAllButOne(w) ==
    /\ writers[w].at = "delete"
    /\ rows' = rows \cap (writers[w].keep \cup {Min(rows)})
    /\ writers' = [writers EXCEPT ![w] = Idle]
    /\ unpruned' = 0
    /\ UNCHANGED taken

DeleteOthers(w) ==
    /\ writers[w].at = "delete"
    /\ rows' = rows \cap writers[w].keep
    /\ writers' = [writers EXCEPT ![w] = Idle]
    /\ unpruned' = 0
    /\ UNCHANGED taken

\* The prune's error is swallowed, or the server is killed before it.
PruneFails(w) ==
    /\ writers[w].at \in {"choose", "delete"}
    /\ writers' = [writers EXCEPT ![w] = Idle]
    /\ unpruned' = unpruned + 1
    /\ UNCHANGED <<rows, taken>>

Next == \E w \in Writers :
    Stamp(w) \/ Insert(w) \/ ChooseKept(w) \/ DeleteOthers(w) \/ PruneFails(w)

Spec == Init /\ [][Next]_vars

-----------------------------------------------------------------------------
(* Type correctness.                                                         *)
TypeOK ==
    /\ rows \subseteq 1..MaxRows
    /\ writers \in [Writers ->
           [at : {"idle", "insert", "choose", "delete"}, time : 0..MaxRows, keep : SUBSET (1..MaxRows)]]
    /\ taken \in 0..MaxRows /\ unpruned \in Nat

Pruning == {w \in Writers : writers[w].at \in {"choose", "delete"}}

(* "So the buffer stays bounded": the table exceeds what it keeps by no more   *)
(* than the appends under way and those whose prune failed, however the        *)
(* inserts, selections and deletions of several requests interleave.           *)
BufferStaysBounded == Cardinality(rows) <= Retention + Cardinality(Pruning) + unpruned

(* "Keep only the newest N rows": a deleted row has N newer ones in the table. *)
(* The rows to keep are selected before the deletion, so that a row inserted   *)
(* between is deleted although it is the newest.                               *)
KeepsTheNewest == [][\A r \in rows \ rows' : Cardinality(Newer(r)) >= Retention]_vars

=============================================================================
