------------------------------ MODULE Discussion ------------------------------
(* What members do about one published signal: confirm it, open its discussion *)
(* session, contribute to it with an uploaded photo or video, and fetch that   *)
(* medium; operators hide contributions and the signal.  No request holds a    *)
(* transaction: each statement commits by itself, after an access check at     *)
(* the start, and unique keys settle the races.                                *)
EXTENDS Integers, Sequences, FiniteSets

CONSTANTS
    Members,     \* who have access, with their civic actors
    Media,       \* ids of uploads
    Requests,    \* requests in flight at once
    MaxNow,      \* last time of the clock
    MediaLife,   \* DISCUSSION_MEDIA_UPLOAD_TTL_MS
    MaxBegun,    \* requests in all
    MaxLost      \* requests cut off by a server that stops

DiscussionConstants == {MaxNow, MediaLife, MaxBegun, MaxLost} \subseteq Nat

VARIABLES
    now,
    visible,        \* whether the signal is published and not hidden
    confirmations,  \* when each member confirmed the signal, or Never
    sessions,       \* keys of the discussion sessions of the signal
    contributions,  \* sequence of author, session, medium and whether it is hidden
    uploads,        \* owner, status and expiry of each medium, or NoUpload
    requests,
    answers,        \* what requests were answered: kind, member and value
    begun, lost

vars == <<now, visible, confirmations, sessions, contributions, uploads, requests, answers, begun, lost>>

None == "none"
Never == -1
Shown == 0
Hidden == 1
NoUpload == [owner |-> None, status |-> None, expires |-> 0]
Idle == [at |-> "idle", kind |-> None, member |-> None, medium |-> None, time |-> 0, key |-> 0]

Init ==
    /\ now = 0 /\ visible = TRUE
    /\ confirmations = [m \in Members |-> Never]
    /\ sessions = {} /\ contributions = <<>>
    /\ uploads = [u \in Media |-> NoUpload]
    /\ requests = [r \in Requests |-> Idle]
    /\ answers = {} /\ begun = 0 /\ lost = 0

Tick ==
    /\ now < MaxNow
    /\ now' = now + 1
    /\ UNCHANGED <<visible, confirmations, sessions, contributions, uploads, requests, answers, begun, lost>>

\* requireParticipantForSignal: the signal must be visible; the access of the
\* members is not modelled to change.  Ids are fresh.
Begin(r, kind, m, u, at) ==
    /\ requests[r].at = "idle" /\ begun < MaxBegun /\ visible
    /\ requests' = [requests EXCEPT ![r] =
           [at |-> at, kind |-> kind, member |-> m, medium |-> u, time |-> now, key |-> begun + 1]]
    /\ begun' = begun + 1
    /\ UNCHANGED <<now, visible, confirmations, sessions, contributions, uploads, answers, lost>>

Finish(r, value) ==
    /\ requests' = [requests EXCEPT ![r] = Idle]
    /\ answers' = answers \cup
           {[kind |-> requests[r].kind, member |-> requests[r].member, value |-> value]}

-----------------------------------------------------------------------------
(* Confirming: insert unless there is one, then read the row.                *)

ConfirmSignal(r, m) == Begin(r, "confirm", m, None, "insert")

InsertConfirmation(r) ==
    /\ requests[r].at = "insert" /\ requests[r].kind = "confirm"
    /\ \E t \in requests[r].time..now :  \* the row is stamped after the access checks
           confirmations' = IF confirmations[requests[r].member] # Never THEN confirmations
                            ELSE [confirmations EXCEPT ![requests[r].member] = t]
    /\ requests' = [requests EXCEPT ![r].at = "read"]
    /\ UNCHANGED <<now, visible, sessions, contributions, uploads, answers, begun, lost>>

ReadConfirmation(r) ==
    /\ requests[r].at = "read" /\ requests[r].kind = "confirm"
    /\ Finish(r, confirmations[requests[r].member])
    /\ UNCHANGED <<now, visible, confirmations, sessions, contributions, uploads, begun, lost>>

-----------------------------------------------------------------------------
(* Media: stored, recorded as pending, attached by a contribution.           *)

\* The put into the storage is as in MemberSignals.
UploadMedium(r, m, u) ==
    /\ uploads[u] = NoUpload /\ \A other \in Requests : requests[other].kind = "upload" => requests[other].medium # u
    /\ Begin(r, "upload", m, u, "insert")

InsertUpload(r) ==
    /\ requests[r].at = "insert" /\ requests[r].kind = "upload"
    /\ uploads' = [uploads EXCEPT ![requests[r].medium] =
           [owner |-> requests[r].member, status |-> "pending", expires |-> now + MediaLife]]
    /\ requests' = [requests EXCEPT ![r] = Idle]
    /\ UNCHANGED <<now, visible, confirmations, sessions, contributions, answers, begun, lost>>

Attachable(u, m) ==
    uploads[u].owner = m /\ uploads[u].status = "pending" /\ uploads[u].expires > now

-----------------------------------------------------------------------------
(* The session and its contributions.                                        *)

ReadSession(r, m) == Begin(r, "read", m, None, "ensure")

Contribute(r, m, u) == Begin(r, "contribute", m, u, IF u = None THEN "ensure" ELSE "medium")

FindAttachable(r) ==
    /\ requests[r].at = "medium" /\ requests[r].kind = "contribute"
    /\ requests' = [requests EXCEPT ![r] =
           IF Attachable(@.medium, @.member) THEN [@ EXCEPT !.at = "ensure"] ELSE Idle]
    /\ UNCHANGED <<now, visible, confirmations, sessions, contributions, uploads, answers, begun, lost>>

\* INSERT ... ON CONFLICT (signal_id) DO NOTHING
EnsureSession(r) ==
    /\ requests[r].at = "ensure"
    /\ sessions' = IF sessions = {} THEN {requests[r].key} ELSE sessions
    /\ requests' = [requests EXCEPT ![r].at = "session"]
    /\ UNCHANGED <<now, visible, confirmations, contributions, uploads, answers, begun, lost>>

\* ... and read the one there is.
FindSession(r) ==
    /\ requests[r].at = "session"
    /\ \E s \in sessions :
        IF requests[r].kind = "read" THEN Finish(r, s)
        ELSE /\ requests' = [requests EXCEPT ![r].at = "insert", ![r].key = s]
             /\ UNCHANGED answers
    /\ UNCHANGED <<now, visible, confirmations, sessions, contributions, uploads, begun, lost>>

\* A medium that another contribution has meanwhile is refused by its unique key.
InsertContribution(r) ==
    /\ requests[r].at = "insert" /\ requests[r].kind = "contribute"
    /\ IF requests[r].medium # None /\ \E i \in DOMAIN contributions : contributions[i].medium = requests[r].medium
       THEN requests' = [requests EXCEPT ![r] = Idle] /\ UNCHANGED <<contributions, answers>>
       ELSE /\ contributions' = Append(contributions,
                   [author |-> requests[r].member, session |-> requests[r].key,
                    medium |-> requests[r].medium, hidden |-> FALSE])
            /\ IF requests[r].medium = None THEN Finish(r, requests[r].key)
               ELSE requests' = [requests EXCEPT ![r].at = "mark"] /\ UNCHANGED answers
    /\ UNCHANGED <<now, visible, confirmations, sessions, uploads, begun, lost>>

MarkAttached(r) ==
    /\ requests[r].at = "mark"
    /\ uploads' = [uploads EXCEPT ![requests[r].medium].status = "attached"]
    /\ Finish(r, requests[r].key)
    /\ UNCHANGED <<now, visible, confirmations, sessions, contributions, begun, lost>>

-----------------------------------------------------------------------------
(* Fetching the medium of a contribution.                                    *)

FetchMedium(r, m) == Begin(r, "fetch", m, None, "find")

\* The contribution is found by its id, hidden or not; the upload must be attached.
StreamMedium(r) ==
    /\ requests[r].at = "find" /\ requests[r].kind = "fetch"
    /\ \E i \in DOMAIN contributions :
        IF contributions[i].medium # None /\ uploads[contributions[i].medium].status = "attached"
        THEN Finish(r, IF contributions[i].hidden THEN Hidden ELSE Shown)
        ELSE requests' = [requests EXCEPT ![r] = Idle] /\ UNCHANGED answers
    /\ UNCHANGED <<now, visible, confirmations, sessions, contributions, uploads, begun, lost>>

-----------------------------------------------------------------------------
(* Operators, and servers that stop.                                         *)

HideContribution ==
    /\ \E i \in DOMAIN contributions :
        /\ ~contributions[i].hidden
        /\ contributions' = [contributions EXCEPT ![i].hidden = TRUE]
    /\ UNCHANGED <<now, visible, confirmations, sessions, uploads, requests, answers, begun, lost>>

HideSignal ==
    /\ visible
    /\ visible' = FALSE
    /\ UNCHANGED <<now, confirmations, sessions, contributions, uploads, requests, answers, begun, lost>>

Lose(r) ==
    /\ requests[r].at # "idle" /\ lost < MaxLost
    /\ requests' = [requests EXCEPT ![r] = Idle]
    /\ lost' = lost + 1
    /\ UNCHANGED <<now, visible, confirmations, sessions, contributions, uploads, answers, begun>>

Next ==
    \/ Tick \/ HideContribution \/ HideSignal
    \/ \E r \in Requests :
        \/ \E m \in Members :
            \/ ConfirmSignal(r, m) \/ ReadSession(r, m) \/ Contribute(r, m, None) \/ FetchMedium(r, m)
            \/ \E u \in Media : UploadMedium(r, m, u) \/ Contribute(r, m, u)
        \/ InsertConfirmation(r) \/ ReadConfirmation(r)
        \/ InsertUpload(r) \/ FindAttachable(r) \/ EnsureSession(r) \/ FindSession(r)
        \/ InsertContribution(r) \/ MarkAttached(r) \/ StreamMedium(r) \/ Lose(r)

Spec == Init /\ [][Next]_vars

-----------------------------------------------------------------------------
\* Rows of signal_confirmations, signal_discussion_contributions and
\* signal_discussion_media_uploads.
ConfirmationRows == [Members -> Never..MaxNow]
ContributionRows == [author : Members, session : Nat, medium : Media \cup {None},
                     hidden : BOOLEAN]
UploadRows == [owner : Members, status : {"pending", "attached"}, expires : Nat]

(* Type correctness.                                                         *)
TypeOK ==
    /\ now \in 0..MaxNow /\ visible \in BOOLEAN
    /\ confirmations \in ConfirmationRows
    /\ sessions \subseteq 1..MaxBegun
    /\ contributions \in Seq(ContributionRows)
    /\ uploads \in [Media -> UploadRows \cup {NoUpload}]

(* "Repeats return the same confirmedAt": all answers a member gets about a    *)
(* confirmation are one time, that of the row, whichever request inserted it.  *)
ConfirmationsAreStable ==
    \A m \in Members : \A a \in answers :
        a.kind = "confirm" /\ a.member = m => a.value = confirmations[m] /\ a.value # Never

(* "Ensures one discussion session exists per signal": every contribution and  *)
(* every answer is of the one session, although requests race to create it.    *)
OneDiscussion ==
    /\ \A i \in DOMAIN contributions : sessions = {contributions[i].session}
    /\ \A a \in answers : a.kind \in {"read", "contribute"} => sessions = {a.value}

(* A medium belongs to one contribution, of its owner; it is attached only     *)
(* when there is one, although it was checked long before and marked after.    *)
MediaHaveOneContribution ==
    /\ \A i, j \in DOMAIN contributions :
        contributions[i].medium # None =>
            /\ contributions[i].author = uploads[contributions[i].medium].owner
            /\ contributions[j].medium = contributions[i].medium => i = j
    /\ \A u \in Media : uploads[u].status = "attached" =>
        \E i \in DOMAIN contributions : contributions[i].medium = u

(* "Optionally attaches a previously uploaded mediaUploadId": a contribution   *)
(* whose request is over has its medium attached.  The two statements are not  *)
(* in a transaction, and nothing repairs what a lost request leaves.           *)
MediaGetAttached ==
    \A i \in DOMAIN contributions :
        contributions[i].medium = None
        \/ uploads[contributions[i].medium].status = "attached"
        \/ \E r \in Requests : requests[r].at = "mark" /\ requests[r].medium = contributions[i].medium

(* "Hidden contributions are filtered from participant reads": no participant  *)
(* is given the medium of a contribution that is hidden.                       *)
HiddenIsFiltered == \A a \in answers : a.kind = "fetch" => a.value = Shown
=============================================================================
