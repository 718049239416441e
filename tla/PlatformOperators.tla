------------------------- MODULE PlatformOperators -------------------------
(***************************************************************************)
(* Who operates the platform: rows granted and revoked by requests that     *)
(* read, write and audit in statements of their own, the two command-line   *)
(* tools, and the bootstrap script that makes one address the first owner   *)
(* and operator, statement by statement, and may be run again after it      *)
(* fails or is killed.                                                      *)
(***************************************************************************)
EXTENDS Naturals, FiniteSets

CONSTANTS
    Accounts,
    Candidate,      \* the account of the address given to the bootstrap
    FirstAdmin,     \* accounts that hold role_admin at first
    Requests,
    Tool,           \* account:mark-platform-operator, which is no account
    Idle, NoRow

OperatorsAssumption ==
    /\ Candidate \in Accounts /\ FirstAdmin \subseteq Accounts
    /\ NoRow \notin [role : {"viewer", "role_admin"}, revoked : BOOLEAN]

VARIABLES
    status, factors,    \* of the candidate: accounts.status, what is in place
    owner,              \* accounts that are is_owner
    operator,           \* platform_operators
    audits,             \* platform_audit_events about operators
    script,             \* the statement the bootstrap is at
    job                 \* requests and runs of account:mark-platform-operator

account == <<status, factors, owner>>
vars == <<account, operator, audits, script, job>>

Roles == {"viewer", "role_admin"}
Active(a) == operator[a] # NoRow /\ ~operator[a].revoked
MayManage(a) == Active(a) /\ operator[a].role = "role_admin"

\* What an active account has: the passkey comes from the member alone.
ActiveRequirements == {"email", "password", "handle", "actor", "passkey"}

Init ==
    /\ status = "none" /\ factors = {} /\ owner = {}
    /\ operator = [a \in Accounts |->
                     IF a \in FirstAdmin THEN [role |-> "role_admin", revoked |-> FALSE] ELSE NoRow]
    /\ audits = {}
    /\ script = "idle"
    /\ job = [r \in Requests |-> Idle]

-----------------------------------------------------------------------------
(* Granting and revoking.                                                  *)

\* Mutant: a role change writes what a restored grant writes.
RestoringUpsert(seen, role, now) == [role |-> role, revoked |-> FALSE]

\* upsertPlatformOperator, from the row it read and the row as it is now: a
\* role change leaves revoked_at alone, an insert finds no row.
Upserted(seen, role, now) ==
    IF seen # NoRow /\ ~seen.revoked THEN [now EXCEPT !.role = role]
    ELSE [role |-> role, revoked |-> FALSE]

\* The request is authorised, or the tool checks its code, and the row read.
Begin(r, kind, by, on, role) ==
    /\ job[r] = Idle
    /\ by \in Accounts => MayManage(by)
    /\ kind = "revoke" => by \in Accounts /\ by # on /\ Active(on)
    /\ job' = [job EXCEPT ![r] = [kind |-> kind, by |-> by, on |-> on, role |-> role,
                                  seen |-> operator[on], at |-> "write"]]
    /\ UNCHANGED <<account, operator, audits, script>>

\* The insert of a row that is there by now fails on the primary key.
GrantOperator(r) ==
    LET j == job[r] IN
    /\ j # Idle /\ j.kind = "grant" /\ j.at = "write"
    /\ \/ /\ \/ j.seen # NoRow /\ ~j.seen.revoked /\ j.seen.role = j.role
             \/ j.seen = NoRow /\ operator[j.on] # NoRow
          /\ job' = [job EXCEPT ![r] = Idle]
          /\ UNCHANGED operator
       \/ /\ j.seen # NoRow => j.seen.revoked \/ j.seen.role # j.role
          /\ j.seen = NoRow => operator[j.on] = NoRow
          /\ operator' = [operator EXCEPT ![j.on] = Upserted(j.seen, j.role, @)]
          /\ job' = [job EXCEPT ![r].at = "audit"]
    /\ UNCHANGED <<account, audits, script>>

RevokeOperator(r) ==
    LET j == job[r] IN
    /\ j # Idle /\ j.kind = "revoke" /\ j.at = "write"
    /\ operator' = [operator EXCEPT ![j.on].revoked = TRUE]
    /\ job' = [job EXCEPT ![r].at = "audit"]
    /\ UNCHANGED <<account, audits, script>>

AuditOperator(r) ==
    LET j == job[r] IN
    /\ j # Idle /\ j.at = "audit"
    /\ audits' = audits \cup {[action |-> j.kind, on |-> j.on]}
    /\ job' = [job EXCEPT ![r] = Idle]
    /\ UNCHANGED <<account, operator, script>>

\* The server, or the tool, goes between two statements.
LoseRequest(r) ==
    /\ job[r] # Idle
    /\ job' = [job EXCEPT ![r] = Idle]
    /\ UNCHANGED <<account, operator, audits, script>>

-----------------------------------------------------------------------------
(* The bootstrap of the candidate: one action per statement.               *)

At(label) == script = label
Goto(label) == script' = label

\* An account that is suspended or closed is refused.
StartBootstrap ==
    /\ script \in {"idle", "done", "failed"} /\ status # "suspended"
    /\ Goto(IF status = "none" THEN "create" ELSE IF "email" \in factors THEN "status" ELSE "verify")
    /\ UNCHANGED <<account, operator, audits, job>>

\* createAccountShell and addAccountEmail: a shell without the address is
\* never found again.
CreateAccount ==
    /\ At("create")
    /\ status' = "pending_email" /\ Goto("verify")
    /\ UNCHANGED <<factors, owner, operator, audits, job>>

VerifyEmail ==
    /\ At("verify")
    /\ factors' = factors \cup {"email"} /\ Goto("status")
    /\ UNCHANGED <<status, owner, operator, audits, job>>

ConfirmEmail ==
    /\ At("status")
    /\ status' = IF status = "pending_email" THEN "pending_password" ELSE status
    /\ Goto("revoke_password")
    /\ UNCHANGED <<factors, owner, operator, audits, job>>

\* ensurePasswordCredential revokes the password there is, then inserts one;
\* an account that was suspended meanwhile keeps its own.
RevokePassword ==
    /\ At("revoke_password")
    /\ IF status = "suspended" THEN Goto("handle") /\ UNCHANGED factors
       ELSE Goto("password") /\ factors' = factors \ {"password"}
    /\ UNCHANGED <<status, owner, operator, audits, job>>

CreatePassword ==
    /\ At("password")
    /\ factors' = factors \cup {"password"}
    /\ Goto("to_passkey")
    /\ UNCHANGED <<status, owner, operator, audits, job>>

AwaitPasskey ==
    /\ At("to_passkey")
    /\ status' = IF status = "pending_password" THEN "pending_passkey" ELSE status
    /\ Goto("handle")
    /\ UNCHANGED <<factors, owner, operator, audits, job>>

EnsureWebAuthnUserHandle ==
    /\ At("handle")
    /\ factors' = factors \cup {"handle"} /\ Goto("actor")
    /\ UNCHANGED <<status, owner, operator, audits, job>>

EnsureLinkedCivicActor ==
    /\ At("actor")
    /\ factors' = factors \cup {"actor"} /\ Goto("activate")
    /\ UNCHANGED <<status, owner, operator, audits, job>>

\* transitionAccountState throws unless the account has what an active one
\* needs; the script ends there.
Activate ==
    /\ At("activate")
    /\ IF status # "pending_passkey" THEN Goto("owner") /\ UNCHANGED status
       ELSE IF ActiveRequirements \subseteq factors THEN status' = "active" /\ Goto("owner")
       ELSE Goto("failed") /\ UNCHANGED status
    /\ UNCHANGED <<factors, owner, operator, audits, job>>

MarkAccountOwner ==
    /\ At("owner")
    /\ owner' = owner \cup {Candidate} /\ Goto("operator")
    /\ UNCHANGED <<status, factors, operator, audits, job>>

\* The script's own upsert: its read and its write are taken together here.
BootstrapOperator ==
    /\ At("operator")
    /\ operator' = [operator EXCEPT ![Candidate] = Upserted(@, "role_admin", @)]
    /\ Goto(IF MayManage(Candidate) THEN "done" ELSE "audit")
    /\ UNCHANGED <<account, audits, job>>

AuditBootstrap ==
    /\ At("audit")
    /\ audits' = audits \cup {[action |-> "grant", on |-> Candidate]}
    /\ Goto("done")
    /\ UNCHANGED <<account, operator, job>>

KillBootstrap ==
    /\ script \notin {"idle", "done", "failed"}
    /\ Goto("idle")
    /\ UNCHANGED <<account, operator, audits, job>>

-----------------------------------------------------------------------------
(* What else happens to the candidate.                                     *)

\* The member signs in with the password and registers a passkey.
RegisterPasskey ==
    /\ status = "pending_passkey" /\ {"email", "password"} \subseteq factors
    /\ status' = "active" /\ factors' = ActiveRequirements
    /\ UNCHANGED <<owner, operator, audits, script, job>>

\* Suspension and reactivation, which asks for the requirements again.
ModerateCandidate ==
    /\ \/ status = "active" /\ status' = "suspended"
       \/ status = "suspended" /\ ActiveRequirements \subseteq factors /\ status' = "active"
    /\ UNCHANGED <<factors, owner, operator, audits, script, job>>

Bootstrap ==
    \/ StartBootstrap \/ CreateAccount \/ VerifyEmail \/ ConfirmEmail
    \/ RevokePassword \/ CreatePassword \/ AwaitPasskey
    \/ EnsureWebAuthnUserHandle \/ EnsureLinkedCivicActor \/ Activate
    \/ MarkAccountOwner \/ BootstrapOperator \/ AuditBootstrap \/ KillBootstrap

Request(r) ==
    \/ \E kind \in {"grant", "revoke"}, by \in Accounts \cup {Tool}, on \in Accounts, role \in Roles :
          Begin(r, kind, by, on, role)
    \/ GrantOperator(r) \/ RevokeOperator(r) \/ AuditOperator(r) \/ LoseRequest(r)

Next ==
    \/ Bootstrap
    \/ RegisterPasskey \/ ModerateCandidate
    \/ \E r \in Requests : Request(r)

Spec == Init /\ [][Next]_vars

-----------------------------------------------------------------------------
(* What must hold.                                                         *)

Statements ==
    {"idle", "create", "verify", "status", "revoke_password", "password", "to_passkey",
     "handle", "actor", "activate", "owner", "operator", "audit", "done", "failed"}

\* Rows of platform_operators.
OperatorRows == [role : Roles, revoked : BOOLEAN]

\* Type invariant.
TypeOK ==
    /\ status \in {"none", "pending_email", "pending_password", "pending_passkey",
                   "active", "suspended"}
    /\ factors \subseteq ActiveRequirements /\ owner \subseteq {Candidate}
    /\ operator \in [Accounts -> OperatorRows \cup {NoRow}]
    /\ audits \subseteq [action : {"grant", "revoke"}, on : Accounts]
    /\ script \in Statements
    /\ \A r \in Requests : job[r] # Idle => job[r].at \in {"write", "audit"} /\ job[r].on \in Accounts

\* A revoked operator comes back only by a grant that saw the revocation, or
\* by the bootstrap: changing the role of an operator who is revoked
\* meanwhile does not bring the operator back.
OnlyAGrantRestores ==
    \A a \in Accounts :
        ~Active(a) /\ operator[a] # NoRow /\ Active(a)' =>
            \/ At("operator") /\ a = Candidate
            \/ \E r \in Requests : job[r] # Idle /\ job[r].on = a /\ job[r].seen # NoRow
                               /\ job[r].seen.revoked
\* However often the bootstrap was killed before, a run that gets past the
\* activation works on an account that has everything but perhaps a
\* suspension, and ends with its owner and operator.
BootstrapCompletes ==
    script # "done" /\ script' = "done" =>
        /\ Candidate \in owner /\ operator'[Candidate] # NoRow
        /\ status = "active" => factors = ActiveRequirements
-----------------------------------------------------------------------------
(* What comments and messages say, and the code does not do.               *)

\* "create (or upgrade) an active email+password account, mark is_owner, and
\* grant platform operator": a new account has no passkey and is refused.
BootstrapNeverFails == script # "failed"

\* "Active account requires an active password credential": between the
\* revocation of the old password and the insert of the new one it has none,
\* and a script killed there leaves it so.
ActiveHasPassword == status = "active" /\ script = "idle" => "password" \in factors

\* "Mutating actions write `platform_audit_events`": one that is lost before
\* its audit is never audited, for a repetition finds nothing to change.
EveryGrantIsAudited ==
    (\A r \in Requests : job[r] = Idle) /\ script \in {"idle", "done", "failed"} =>
        \A a \in Accounts \ FirstAdmin :
            Active(a) => \E e \in audits : e.on = a /\ e.action = "grant"
=============================================================================
