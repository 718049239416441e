----------------------------- MODULE Moderation -----------------------------
(***************************************************************************)
(* Moderation of accounts and of published content, by owners and by        *)
(* platform operators, at the grain of the row locks.  A moderator is       *)
(* authorised before the transaction; what the transaction reads it locks,  *)
(* except the content of the civic process, whose rows are read, written    *)
(* and audited by three statements of their own.                            *)
(***************************************************************************)
EXTENDS Naturals, Sequences, FiniteSets, FiniteSetsExt

CONSTANTS
    Accounts,           \* account ids, ordered as localeCompare orders them
    Owners, Operators,  \* accounts with is_owner, with an operator row
    Signals,
    Submissions,        \* signals that wait for their review
    Discussions,        \* contributions to the discussion of a signal
    Author,             \* the account behind each submission and discussion
    Proposals, Deliberations, Evidence,     \* content of a civic process
    Reasons,
    Requests,           \* requests under way at once
    Idle, Visible,
    MaxRecords          \* bound: requests that may write a record

Contributions == Submissions \cup Discussions
CivicContents == Proposals \cup Deliberations \cup Evidence
Contents == Signals \cup Contributions \cup CivicContents

\* Ids of different tables are different.
ModerationAssumption ==
    /\ Accounts \subseteq Nat /\ IsFiniteSet(Accounts)
    /\ Owners \cup Operators \subseteq Accounts
    /\ Author \in [Contributions -> Accounts]
    /\ MaxRecords \in Nat
    /\ Accounts \cap (Signals \cup Contributions) = {} /\ Signals \cap Contributions = {}
    /\ CivicContents \cap (Accounts \cup Signals \cup Contributions) = {}

VARIABLES
    status,     \* accounts.status, of accounts that are set up
    content,    \* hidden_by and hidden_reason of each row, or Visible
    records,    \* security and audit events of moderation, oldest first
    job         \* each request, with the number of rows it has locked

vars == <<status, content, records, job>>

OwnerKinds == {"ban", "unban", "owner_hide", "owner_unhide"}
AccountKinds == {"suspend", "reactivate", "ban", "unban"}
HidingKinds == {"hide", "owner_hide"}
ConsoleKinds == {"hide", "unhide"}
Kinds == AccountKinds \cup OwnerKinds \cup ConsoleKinds

ReadOperator(kind, by, on) ==
    IF kind \in AccountKinds /\ by # on THEN << <<by, "read">>, <<on, "update">> >>
    ELSE << <<on, "update">>, <<by, "key_share">> >>

\* The rows a request reads and how it locks them, in the order of its
\* statements.  A foreign key locks the row it names against removal: the
\* moderator's in hidden_by and in the events, the author's in the audit.
LockPlan(kind, by, on) ==
    CASE kind \in AccountKinds /\ by = on -> << <<by, "update">> >>
      [] kind \in AccountKinds /\ by < on -> << <<by, "update">>, <<on, "update">> >>
      [] kind \in AccountKinds /\ by > on -> << <<on, "update">>, <<by, "update">> >>
      [] kind \in {"owner_hide", "owner_unhide"} -> << <<by, "update">>, <<on, "update">> >>
      [] kind \in ConsoleKinds /\ on \in Signals -> << <<on, "update">>, <<by, "key_share">> >>
      [] kind \in ConsoleKinds /\ on \in Contributions ->
           << <<on, "update">>, <<by, "key_share">>, <<Author[on], "key_share">> >>
      [] kind \in ConsoleKinds /\ on \in CivicContents -> << <<on, "read">> >>

\* FOR UPDATE conflicts with every row lock, a plain read with none.
Conflict(m, n) == "update" \in {m, n} /\ "read" \notin {m, n}

Busy(r) == job[r] # Idle
Plan(j) == LockPlan(j.kind, j.by, j.on)
Held(j) == {Plan(j)[i] : i \in 1..j.locked}
Wants(r) == Busy(r) /\ job[r].locked < Len(Plan(job[r]))
Wanted(r) == Plan(job[r])[job[r].locked + 1]

\* Locks <<row, mode>> that cannot be held by two.
Clash(k, l) == k[1] = l[1] /\ Conflict(k[2], l[2])

Blockers(r) ==
    IF ~Wants(r) THEN {}
    ELSE {q \in Requests \ {r} : Busy(q) /\ \E lock \in Held(job[q]) : Clash(lock, Wanted(r))}

Deadlocked(D) == D # {} /\ \A r \in D : Blockers(r) \cap D # {}
InDeadlock(r) == \E D \in SUBSET Requests : r \in D /\ Deadlocked(D)

RowValue(row) == IF row \in Accounts THEN status[row] ELSE content[row]

\* What a row read for a request refuses: the request answers and ends.
Refused(j, row) ==
    \/ /\ j.kind \in AccountKinds \cup OwnerKinds
       /\ row = j.by /\ RowValue(row) # "active"
    \/ /\ row = j.on
       /\ \/ j.kind \in {"suspend", "ban"} /\ RowValue(row) # "active"
          \/ j.kind \in {"reactivate", "unban"} /\ RowValue(row) # "suspended"
          \/ j.kind \in HidingKinds /\ RowValue(row) # Visible
          \/ j.kind \in {"unhide", "owner_unhide"} /\ RowValue(row) = Visible
    \/ j.kind = "ban" /\ j.on \in Owners

Init ==
    /\ status = [a \in Accounts |-> "active"]
    /\ content = [c \in Contents |-> Visible]
    /\ records = <<>>
    /\ job = [r \in Requests |-> Idle]

-----------------------------------------------------------------------------
(* A request, from its authorisation to its answer.                        *)

UnderWay == Cardinality({r \in Requests : Busy(r)})

\* The session of an active account, and the moderator's row, are read first.
Begin(r, kind, by, on, why) ==
    /\ ~Busy(r) /\ Len(records) + UnderWay < MaxRecords
    /\ by \in IF kind \in OwnerKinds THEN Owners ELSE Operators
    /\ status[by] = "active"
    /\ job' = [job EXCEPT ![r] =
                 [kind |-> kind, by |-> by, on |-> on, why |-> why, locked |-> 0, at |-> "read"]]
    /\ UNCHANGED <<status, content, records>>

SuspendAccount(r, by, on, why) == on \in Accounts /\ Begin(r, "suspend", by, on, why)
ReactivateAccount(r, by, on, why) == on \in Accounts /\ Begin(r, "reactivate", by, on, why)
BanAccount(r, by, on, why) == on \in Accounts /\ Begin(r, "ban", by, on, why)
UnbanAccount(r, by, on, why) == on \in Accounts /\ Begin(r, "unban", by, on, why)

HideSignal(r, by, on, why) == on \in Signals /\ Begin(r, "hide", by, on, why)
UnhideSignal(r, by, on, why) == on \in Signals /\ Begin(r, "unhide", by, on, why)
OwnerHideSignal(r, by, on, why) == on \in Signals /\ Begin(r, "owner_hide", by, on, why)
OwnerUnhideSignal(r, by, on, why) == on \in Signals /\ Begin(r, "owner_unhide", by, on, why)

RejectSubmission(r, by, on, why) == on \in Submissions /\ Begin(r, "hide", by, on, why)
RestoreSubmission(r, by, on, why) == on \in Submissions /\ Begin(r, "unhide", by, on, why)
HideDiscussion(r, by, on, why) == on \in Discussions /\ Begin(r, "hide", by, on, why)
UnhideDiscussion(r, by, on, why) == on \in Discussions /\ Begin(r, "unhide", by, on, why)

ModerateProposal(r, by, on, why) ==
    on \in Proposals /\ \E kind \in {"hide", "unhide"} : Begin(r, kind, by, on, why)
ModerateDeliberation(r, by, on, why) ==
    on \in Deliberations /\ \E kind \in {"hide", "unhide"} : Begin(r, kind, by, on, why)
ModerateEvidence(r, by, on, why) ==
    on \in Evidence /\ \E kind \in {"hide", "unhide"} : Begin(r, kind, by, on, why)

Request(r, by, on, why) ==
    \/ SuspendAccount(r, by, on, why) \/ ReactivateAccount(r, by, on, why)
    \/ BanAccount(r, by, on, why) \/ UnbanAccount(r, by, on, why)
    \/ HideSignal(r, by, on, why) \/ UnhideSignal(r, by, on, why)
    \/ OwnerHideSignal(r, by, on, why) \/ OwnerUnhideSignal(r, by, on, why)
    \/ RejectSubmission(r, by, on, why) \/ RestoreSubmission(r, by, on, why)
    \/ HideDiscussion(r, by, on, why) \/ UnhideDiscussion(r, by, on, why)
    \/ ModerateProposal(r, by, on, why) \/ ModerateDeliberation(r, by, on, why)
    \/ ModerateEvidence(r, by, on, why)

End(r) == job' = [job EXCEPT ![r] = Idle]

\* The rows a request looks at once it holds the next one: two accounts are both
\* locked before either is looked at.
LooksAt(r) ==
    IF job[r].kind \notin AccountKinds THEN {Wanted(r)[1]}
    ELSE IF job[r].locked + 1 < Len(Plan(job[r])) THEN {}
    ELSE {job[r].by, job[r].on}

\* The next row, when nobody's lock is in the way.
LockRow(r) ==
    /\ Wants(r) /\ Blockers(r) = {}
    /\ IF \E row \in LooksAt(r) : Refused(job[r], row)
       THEN End(r)
       ELSE job' = [job EXCEPT ![r].locked = @ + 1]
    /\ UNCHANGED <<status, content, records>>

Recorded(j) == Append(records, [kind |-> j.kind, by |-> j.by, on |-> j.on, why |-> j.why])
Hidden(j) == IF j.kind \in HidingKinds THEN [by |-> j.by, why |-> j.why] ELSE Visible

Ready(r) == Busy(r) /\ ~Wants(r) /\ job[r].at = "read"

\* transitionAccountState, and the events in the same transaction.
ModerateAccount(r) ==
    LET j == job[r] IN
    /\ Ready(r) /\ j.kind \in AccountKinds
    /\ status' = [status EXCEPT ![j.on] =
                    IF j.kind \in {"suspend", "ban"} THEN "suspended" ELSE "active"]
    /\ records' = Recorded(j)
    /\ End(r)
    /\ UNCHANGED content

ModerateContent(r) ==
    LET j == job[r] IN
    /\ Ready(r) /\ j.on \in Signals \cup Contributions
    /\ content' = [content EXCEPT ![j.on] = Hidden(j)]
    /\ records' = Recorded(j)
    /\ End(r)
    /\ UNCHANGED status

\* Outside a transaction the update is visible at once, whatever the row is now.
WriteCivicContent(r) ==
    LET j == job[r] IN
    /\ Ready(r) /\ j.on \in CivicContents
    /\ content' = [content EXCEPT ![j.on] = Hidden(j)]
    /\ job' = [job EXCEPT ![r].at = "audit"]
    /\ UNCHANGED <<status, records>>

AuditCivicContent(r) ==
    /\ Busy(r) /\ job[r].at = "audit"
    /\ records' = Recorded(job[r])
    /\ End(r)
    /\ UNCHANGED <<status, content>>

\* The connection or the server is lost, or PostgreSQL picks a victim.
Abort(r) ==
    /\ Busy(r)
    /\ End(r)
    /\ UNCHANGED <<status, content, records>>

Next ==
    \E r \in Requests :
        \/ \E by \in Accounts, on \in Accounts \cup Contents, why \in Reasons :
              Request(r, by, on, why)
        \/ LockRow(r)
        \/ ModerateAccount(r) \/ ModerateContent(r)
        \/ WriteCivicContent(r) \/ AuditCivicContent(r)
        \/ Abort(r)

Spec == Init /\ [][Next]_vars

-----------------------------------------------------------------------------
(* What must hold.                                                         *)

About(row, n) == {i \in 1..n : records[i].on = row}

\* What a record says of the row it is about.
Tells(e) ==
    CASE e.kind \in {"suspend", "ban"} -> "suspended"
      [] e.kind \in {"reactivate", "unban"} -> "active"
      [] OTHER -> Hidden(e)

\* What the first n records say of a row.
Said(row, n) ==
    IF About(row, n) = {} THEN IF row \in Accounts THEN "active" ELSE Visible
    ELSE Tells(records[Max(About(row, n))])

\* Rows of platform_audit_events about moderation.
RecordRows == [kind : Kinds, by : Accounts, on : Accounts \cup Contents, why : Reasons]

\* Requests: what each of the kinds is about.
Suits(kind, on) ==
    \/ kind \in AccountKinds /\ on \in Accounts
    \/ kind \in {"owner_hide", "owner_unhide"} /\ on \in Signals
    \/ kind \in ConsoleKinds /\ on \in Contents
JobRows == [kind : Kinds, by : Accounts, on : Accounts \cup Contents, why : Reasons,
            locked : Nat, at : {"read", "audit"}]

\* Type invariant; in it, no two requests hold locks that conflict.
TypeOK ==
    /\ status \in [Accounts -> {"active", "suspended"}]
    /\ content \in [Contents -> [by : Accounts, why : Reasons] \cup {Visible}]
    /\ records \in Seq(RecordRows)
    /\ \A r \in Requests : Busy(r) =>
         /\ job[r] \in JobRows /\ Suits(job[r].kind, job[r].on) /\ job[r].locked <= Len(Plan(job[r]))
         /\ job[r].at = "audit" => job[r].on \in CivicContents
    /\ \A q, r \in Requests : q # r /\ Busy(q) /\ Busy(r) =>
         \A k \in Held(job[q]), l \in Held(job[r]) : ~Clash(k, l)

\* The events tell what happened to a signal, a contribution, a submission or
\* an account: each changed what the ones before it left, and the last one
\* is what the row says, with who did it and why.
RecordsTellTheRows ==
    \A row \in Accounts \cup Signals \cup Contributions :
        /\ RowValue(row) = Said(row, Len(records))
        /\ \A i \in About(row, Len(records)) :
             IF records[i].kind \in HidingKinds
             THEN Said(row, i - 1) = Visible
             ELSE Said(row, i) # Said(row, i - 1)

\* Two operators who suspend each other: one of them comes too late.  Nobody
\* moderates accounts, and no owner anything, while suspended.
TheSuspendedDoNotModerate ==
    \A i \in DOMAIN records :
        records[i].kind \in AccountKinds \cup OwnerKinds => Said(records[i].by, i - 1) = "active"

\* Suspensions, bans and their reversals alone never deadlock.
AccountModerationIsOrdered ==
    \A D \in SUBSET {r \in Requests : Busy(r) /\ job[r].kind \in AccountKinds} : ~Deadlocked(D)

-----------------------------------------------------------------------------
(* What comments say, and the code does not do.                            *)

\* "Lock owner + target in deterministic id order to avoid deadlocks": an
\* operator who hides what the owner wrote holds the operator's row and wants
\* the owner's, against the order of the ban of that operator.
BansNeverDeadlock ==
    \A r \in Requests : Busy(r) /\ job[r].kind = "ban" => ~InDeadlock(r)

\* "mirrors the existing signals/discussion-contribution hide pattern exactly",
\* where an already hidden row keeps who and why.
CivicContentKeepsWhoAndWhy ==
    [][\A c \in CivicContents :
         content[c] # Visible /\ content'[c] # Visible => content'[c] = content[c]]_content

\* "Mutating actions write platform_audit_events": when the last request has
\* ended, the audit says what became of the content.
CivicAuditTellsTheContents ==
    (\A r \in Requests : ~Busy(r)) =>
        \A c \in CivicContents : content[c] = Said(c, Len(records))
=============================================================================
