---------------------------- MODULE MemberSignals ----------------------------
(* Members upload a photo, publish a signal with it, or submit one for review. *)
(* Access and photo are checked before the transaction, which then locks the   *)
(* account row, counts the account's rows of the last day, chooses a position  *)
(* and inserts; a day is counted back from the time the request took at its    *)
(* start, and that time also stamps its row.  One community is modelled, whose *)
(* members all have access.                                                    *)
EXTENDS Integers, FiniteSets, FiniteSetsExt

CONSTANTS
    Accounts, Photos,
    Requests,    \* requests in flight at once
    DayLength,   \* of the rolling window: 24 hours in the code
    PhotoLife,   \* MEMBER_SIGNAL_MEDIA_UPLOAD_TTL_MS
    Limit,       \* MEMBER_SIGNAL_ACCOUNT_LIMIT_24H, SIGNAL_SUBMISSION_ACCOUNT_LIMIT_24H: 5
    MaxNow,      \* last time of the clock
    MaxBegun     \* requests in all

SignalConstants ==
    /\ {DayLength, PhotoLife, Limit, MaxNow, MaxBegun} \subseteq Nat
    /\ IsFiniteSet(Accounts) /\ IsFiniteSet(Photos)
    /\ "none" \notin Requests \cup Accounts \cup Photos

ASSUME SignalsAssumption == SignalConstants

VARIABLES
    now,        \* the clock
    photos,     \* signal_media_uploads: owner, status and expiry, or NoPhoto
    stored,     \* photos in the object storage
    signals,    \* published signals: author, time, position and photo
    submitted,  \* signal_submissions: author, time and a number
    locks,      \* the request that holds each account row, or None
    requests,
    failed,     \* requests the database refused after every check was passed
    begun

vars == <<now, photos, stored, signals, submitted, locks, requests, failed, begun>>

None == "none"
NoPhoto == [owner |-> None, status |-> None, expires |-> 0]
Idle == [at |-> "idle", kind |-> None, account |-> None, time |-> 0, photo |-> None, position |-> 0]

Init ==
    /\ now = 0
    /\ photos = [p \in Photos |-> NoPhoto] /\ stored = {}
    /\ signals = {} /\ submitted = {}
    /\ locks = [a \in Accounts |-> None]
    /\ requests = [r \in Requests |-> Idle]
    /\ failed = {} /\ begun = 0

Tick ==
    /\ now < MaxNow
    /\ now' = now + 1
    /\ UNCHANGED <<photos, stored, signals, submitted, locks, requests, failed, begun>>

Begin(r, kind, a, p, at) ==
    /\ requests[r].at = "idle" /\ begun < MaxBegun
    /\ requests' = [requests EXCEPT ![r] =
           [Idle EXCEPT !.at = at, !.kind = kind, !.account = a, !.photo = p, !.time = now]]
    /\ begun' = begun + 1
    /\ UNCHANGED <<now, photos, stored, signals, submitted, locks, failed>>

-----------------------------------------------------------------------------
(* The photo: stored first, and then recorded.                               *)

\* The photo's id is fresh.
UploadPhoto(r, a, p) ==
    /\ p \notin stored
    /\ \A other \in Requests : requests[other].kind = "upload" => requests[other].photo # p
    /\ Begin(r, "upload", a, p, "put")

\* The storage takes it, or it does not and the request fails.
PutObject(r) ==
    /\ requests[r].at = "put"
    /\ \/ /\ stored' = stored \cup {requests[r].photo}
          /\ requests' = [requests EXCEPT ![r].at = "record"]
       \/ /\ requests' = [requests EXCEPT ![r] = Idle]
          /\ UNCHANGED stored
    /\ UNCHANGED <<now, photos, signals, submitted, locks, failed, begun>>

insertPendingSignalMediaUpload(r) ==
    /\ requests[r].at = "record"
    /\ photos' = [photos EXCEPT ![requests[r].photo] =
           [owner |-> requests[r].account, status |-> "pending",
            expires |-> requests[r].time + PhotoLife]]
    /\ requests' = [requests EXCEPT ![r] = Idle]
    /\ UNCHANGED <<now, stored, signals, submitted, locks, failed, begun>>

-----------------------------------------------------------------------------
(* Publishing and submitting.                                                *)

PublishSignal(r, a, p) == Begin(r, "publish", a, p, "photo")

SubmitSignal(r, a) == Begin(r, "submit", a, None, "lock")

Attachable(p, a, time) ==
    /\ photos[p].owner = a /\ photos[p].status = "pending" /\ photos[p].expires > time

FindAttachablePhoto(r) ==
    /\ requests[r].at = "photo"
    /\ requests' = [requests EXCEPT ![r] =
           IF Attachable(@.photo, @.account, @.time) THEN [@ EXCEPT !.at = "lock"] ELSE Idle]
    /\ UNCHANGED <<now, photos, stored, signals, submitted, locks, failed, begun>>

\* A plausible bug: the account is read without a lock.
ReadAccount(r) ==
    /\ requests[r].at = "lock"
    /\ requests' = [requests EXCEPT ![r].at = "count"]
    /\ UNCHANGED <<now, photos, stored, signals, submitted, locks, failed, begun>>

LockAccount(r) ==
    /\ requests[r].at = "lock" /\ locks[requests[r].account] = None
    /\ locks' = [locks EXCEPT ![requests[r].account] = r]
    /\ requests' = [requests EXCEPT ![r].at = "count"]
    /\ UNCHANGED <<now, photos, stored, signals, submitted, failed, begun>>

Rows(kind) == IF kind = "publish" THEN signals ELSE submitted
Since(kind, a, time) == {row \in Rows(kind) : row.account = a /\ row.time >= time - DayLength}

\* The transaction ends: its lock is released with it.
End(r) ==
    /\ locks' = [a \in Accounts |-> IF locks[a] = r THEN None ELSE locks[a]]
    /\ requests' = [requests EXCEPT ![r] = Idle]

CountRows(r) ==
    LET q == requests[r] IN
    /\ q.at = "count"
    /\ IF Cardinality(Since(q.kind, q.account, q.time)) >= Limit THEN End(r)
       ELSE /\ requests' = [requests EXCEPT ![r].at = IF q.kind = "publish" THEN "position" ELSE "insert"]
            /\ UNCHANGED locks
    /\ UNCHANGED <<now, photos, stored, signals, submitted, failed, begun>>

nextSignalPositionForCommunity(r) ==
    /\ requests[r].at = "position"
    /\ requests' = [requests EXCEPT ![r].at = "insert",
           ![r].position = 1 + Max({0} \cup {s.position : s \in signals})]
    /\ UNCHANGED <<now, photos, stored, signals, submitted, locks, failed, begun>>

\* Mutant: the photo is not a unique key.
PositionTaken(q) == \E s \in signals : s.position = q.position

\* The photo and the position are unique keys of the table.
Taken(q) == \E s \in signals : s.photo = q.photo \/ s.position = q.position

InsertSignal(r) ==
    LET q == requests[r] IN
    /\ q.at = "insert" /\ q.kind = "publish"
    /\ IF Taken(q)
       THEN /\ failed' = failed \cup {IF \E s \in signals : s.photo = q.photo THEN "photo" ELSE "position"}
            /\ UNCHANGED <<signals, photos>>
       ELSE /\ signals' = signals \cup
                   {[account |-> q.account, time |-> q.time, position |-> q.position, photo |-> q.photo]}
            /\ photos' = [photos EXCEPT ![q.photo].status = "attached"]
            /\ UNCHANGED failed
    /\ End(r)
    /\ UNCHANGED <<now, stored, submitted, begun>>

InsertSubmission(r) ==
    /\ requests[r].at = "insert" /\ requests[r].kind = "submit"
    /\ submitted' = submitted \cup
           {[account |-> requests[r].account, time |-> requests[r].time, id |-> Cardinality(submitted)]}
    /\ End(r)
    /\ UNCHANGED <<now, photos, stored, signals, failed, begun>>

\* The server is killed or the connection lost: an open transaction is rolled back.
Lose(r) ==
    /\ requests[r].at # "idle"
    /\ End(r)
    /\ UNCHANGED <<now, photos, stored, signals, submitted, failed, begun>>

StepOf(r) ==
    \/ PutObject(r) \/ insertPendingSignalMediaUpload(r)
    \/ FindAttachablePhoto(r) \/ LockAccount(r) \/ CountRows(r)
    \/ nextSignalPositionForCommunity(r) \/ InsertSignal(r) \/ InsertSubmission(r)

Next ==
    \/ Tick
    \/ \E r \in Requests :
        \/ \E a \in Accounts :
            \/ SubmitSignal(r, a)
            \/ \E p \in Photos : UploadPhoto(r, a, p) \/ PublishSignal(r, a, p)
        \/ StepOf(r) \/ Lose(r)

Spec == Init /\ [][Next]_vars

-----------------------------------------------------------------------------
\* Rows of signal_media_uploads, signals and signal_submissions.
PhotoRows == [owner : Accounts, status : {"pending", "attached"}, expires : Nat]
SignalRows == [account : Accounts, time : Nat, position : Nat \ {0}, photo : Photos \cup {None}]
SubmissionRows == [account : Accounts, time : Nat, id : Nat]

(* Type correctness.                                                         *)
TypeOK ==
    /\ now \in 0..MaxNow /\ begun \in 0..MaxBegun
    /\ stored \subseteq Photos /\ failed \subseteq {"photo", "position"}
    /\ photos \in [Photos -> PhotoRows \cup {NoPhoto}]
    /\ \A p \in Photos : photos[p] # NoPhoto => p \in stored
    /\ signals \subseteq SignalRows /\ submitted \subseteq SubmissionRows
    /\ \A s \in signals \cup submitted : s.time <= now
    /\ \A a \in Accounts : locks[a] # None => requests[locks[a]].account = a
    /\ \A r \in Requests : requests[r].at \in
        {"idle", "put", "record", "photo", "lock", "count", "position", "insert"}

(* "5 per account per rolling 24h": no day ending at any row of an account has *)
(* more of its rows than the limit, although a request that waited for the     *)
(* lock counts and stamps with a time that is long past.                       *)
RollingLimit ==
    \A kind \in {"publish", "submit"} : \A row \in Rows(kind) :
        Cardinality({other \in Rows(kind) :
            /\ other.account = row.account
            /\ row.time - DayLength <= other.time /\ other.time <= row.time}) <= Limit

(* A photo is attached exactly when one signal has it, which is its owner's,   *)
(* whatever two publications of the same photo do at once.                     *)
PhotosMatchSignals ==
    \A p \in Photos :
        /\ photos[p].status = "attached" <=> \E s \in signals : s.photo = p
        /\ \A s, t \in signals : s.photo = p /\ t.photo = p => s = t /\ s.account = photos[p].owner

(* "Publishes immediately": a publication that passed every check is not lost  *)
(* to another member's at the same time.  The position is read without a lock  *)
(* on the community.                                                           *)
PublishesImmediately == "position" \notin failed
=============================================================================
