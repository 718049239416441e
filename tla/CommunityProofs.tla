-------------------------- MODULE CommunityProofs --------------------------
(***************************************************************************)
(* What holds of the signals of a community, of their discussion and of the *)
(* contesting of a mandate, for every number of members, photos, media and  *)
(* requests, every limit, lifetime and window.                              *)
(***************************************************************************)
EXTENDS Community, Sequences, FiniteSetTheorems, TLAPS

-----------------------------------------------------------------------------
(* The invariant.                                                            *)

Stages == {"idle", "put", "record", "photo", "lock", "count", "position", "insert"}
Kinds == {"upload", "publish", "submit"}
RequestRows == [at : Stages, kind : Kinds \cup {None}, account : Accounts \cup {None}, time : Nat,
                photo : Photos \cup {None}, position : Nat]

\* Stages in a transaction, which holds its account's row, and those after the count.
Holding == {"count", "position", "insert"}
Counted == {"position", "insert"}

TablesTyped ==
    /\ now \in 0..MaxNow /\ begun \in 0..MaxBegun
    /\ stored \subseteq Photos /\ failed \subseteq {"photo", "position"}
    /\ photos \in [Photos -> PhotoRows \cup {NoPhoto}]
    /\ \A p \in Photos : photos[p] # NoPhoto => p \in stored
    /\ signals \subseteq [account : Accounts, time : Nat, position : Nat \ {0}, photo : Photos]
    /\ submitted \subseteq SubmissionRows
    /\ IsFiniteSet(signals) /\ IsFiniteSet(submitted)
    /\ \A s \in signals \cup submitted : s.time <= now

\* Each request has what its stage needs: the stored photo, its own attachable
\* one, the lock of its account, and room in the day it counted.
RequestFits(q) ==
    /\ q.at = "idle" <=> q.kind = None
    /\ q.at # "idle" => q.account \in Accounts /\ q.time <= now
    /\ q.at \in {"put", "record"} <=> q.kind = "upload"
    /\ q.at \in {"photo", "position"} => q.kind = "publish"
    /\ q.at = "record" => q.photo \in stored
    /\ q.kind \in {"upload", "publish"} => q.photo \in Photos
    /\ q.kind = "publish" /\ q.at # "photo" => photos[q.photo].owner = q.account
    /\ q.kind = "publish" /\ q.at = "insert" => q.position # 0
    /\ q.at \in Counted => Cardinality(Since(q.kind, q.account, q.time)) < Limit

RequestsFit ==
    /\ requests \in [Requests -> RequestRows]
    /\ \A r \in Requests :
         /\ RequestFits(requests[r])
         /\ requests[r].at \in Holding => locks[requests[r].account] = r

LocksFit ==
    /\ locks \in [Accounts -> Requests \cup {None}]
    /\ \A a \in Accounts : locks[a] # None =>
         requests[locks[a]].account = a /\ requests[locks[a]].at \in Holding

\* The photos of uploads in flight are not recorded yet, and are different.
UploadsAreNew ==
    \A r \in Requests : requests[r].kind = "upload" =>
        /\ photos[requests[r].photo] = NoPhoto
        /\ \A other \in Requests \ {r} :
             requests[other].kind = "upload" => requests[other].photo # requests[r].photo

SignalInv ==
    TablesTyped /\ RequestsFit /\ LocksFit /\ UploadsAreNew /\ PhotosMatchSignals /\ RollingLimit

-----------------------------------------------------------------------------
(* Finite sets of numbers, and of rows.                                      *)

\* A finite set of numbers has a greatest one: the one with the fewest above it.
LEMMA HasMax ==
  ASSUME NEW T, T \subseteq Nat, T # {}, IsFiniteSet(T)
  PROVE Max(T) \in T /\ \A y \in T : y <= Max(T)
<1> DEFINE Above(x) == {y \in T : y > x}
           U == {Above(x) : x \in T}
<1>1. IsWellFoundedOn(StrictSubsetOrdering(T), SUBSET T)
  BY FS_StrictSubsetOrderingWellFounded, FS_FiniteSubsetsOfFinite
<1>2. U \subseteq SUBSET T /\ U # {}
  OBVIOUS
<1>3. PICK A \in U : \A B \in U : ~(<<B, A>> \in StrictSubsetOrdering(T))
  BY <1>1, <1>2, WFMin
<1>4. PICK x \in T : A = Above(x)
  BY <1>3
<1>5. ASSUME NEW y \in T, y > x PROVE FALSE
  <2>1. x \in Nat /\ y \in Nat /\ \A z \in T : z \in Nat
    OBVIOUS
  <2>2. Above(y) \subseteq Above(x) /\ y \in Above(x) /\ y \notin Above(y)
    <3>1. y \in Above(x) /\ y \notin Above(y)
      BY <1>5, <2>1
    <3>2. ASSUME NEW z \in T, z > y PROVE z > x
      BY <1>5, <2>1, <3>2
    <3> QED BY <3>1, <3>2
  <2>3. <<Above(y), A>> \in StrictSubsetOrdering(T)
    BY <1>4, <2>2 DEF StrictSubsetOrdering
  <2> QED BY <1>3, <2>3
<1>6. \A y \in T : x >= y
  BY <1>5
<1> QED BY <1>6 DEF Max

\* The rows of an account since the start of a day, and those of the day that
\* ends at a row.
DayOf(S, a, time) == {row \in S : row.account = a /\ row.time >= time - DayLength}
WindowOf(S, row) ==
    {other \in S : /\ other.account = row.account
                  /\ row.time - DayLength <= other.time /\ other.time <= row.time}
Within(S) == \A row \in S : Cardinality(WindowOf(S, row)) <= Limit

LEMMA OneMoreAtMost ==
    ASSUME NEW S, IsFiniteSet(S), NEW T, NEW x, T \subseteq S \cup {x}, Cardinality(S) < Limit
    PROVE  Cardinality(T) <= Limit
<1>1. /\ IsFiniteSet(S \cup {x}) /\ Cardinality(S) \in Nat
      /\ Cardinality(S \cup {x}) <= Cardinality(S) + 1
  BY FS_AddElement, FS_CardinalityType
<1>2. Cardinality(T) <= Cardinality(S \cup {x}) /\ Cardinality(T) \in Nat /\ Cardinality(S \cup {x}) \in Nat
  BY <1>1, FS_Subset, FS_CardinalityType
<1>3. Limit \in Nat
  BY SignalsAssumption DEF SignalConstants
<1> QED BY <1>1, <1>2, <1>3

\* A row that finds room in the day before it leaves every day within the limit,
\* the later days it falls into too: they are a part of what was counted.
LEMMA WindowsStayWithin ==
    ASSUME NEW S, IsFiniteSet(S), Within(S), NEW new, new.time \in Nat,
           \A row \in S : row.time \in Nat,
           Cardinality(DayOf(S, new.account, new.time)) < Limit
    PROVE  Within(S \cup {new})
<1> DEFINE day == DayOf(S, new.account, new.time)
<1>1. DayLength \in Nat
  BY SignalsAssumption DEF SignalConstants
<1>2. IsFiniteSet(day)
  BY FS_Subset DEF DayOf
<1>3. WindowOf(S \cup {new}, new) \subseteq day \cup {new}
  BY <1>1 DEF WindowOf, DayOf
<1>4. ASSUME NEW row \in S PROVE Cardinality(WindowOf(S \cup {new}, row)) <= Limit
  <2>1. CASE new \in WindowOf(S \cup {new}, row)
    <3>1. new.account = row.account /\ row.time - DayLength <= new.time /\ new.time <= row.time
      BY <2>1 DEF WindowOf
    <3>2. ASSUME NEW other \in S, other.account = row.account, row.time - DayLength <= other.time
          PROVE  other.account = new.account /\ other.time >= new.time - DayLength
      BY <1>1, <3>1, <3>2
    <3>3. WindowOf(S \cup {new}, row) \subseteq day \cup {new}
      BY <3>2 DEF WindowOf, DayOf
    <3> QED BY <1>2, <3>3, OneMoreAtMost
  <2>2. CASE new \notin WindowOf(S \cup {new}, row)
    <3>1. WindowOf(S \cup {new}, row) = WindowOf(S, row)
      BY <2>2 DEF WindowOf
    <3> QED BY <3>1 DEF Within
  <2> QED BY <2>1, <2>2
<1>5. Cardinality(WindowOf(S \cup {new}, new)) <= Limit
  BY <1>2, <1>3, OneMoreAtMost
<1> QED BY <1>4, <1>5 DEF Within

LEMMA LimitIsWithin == RollingLimit <=> Within(signals) /\ Within(submitted)
BY DEF RollingLimit, Within, WindowOf, Rows

-----------------------------------------------------------------------------
(* What a step leaves to the requests that do not take it.                   *)

Frame(R) ==
    /\ now <= now' /\ now \in Nat /\ now' \in Nat /\ stored \subseteq stored'
    /\ requests' \in [Requests -> RequestRows]
    /\ \A i \in Requests \ R : requests'[i] = requests[i]
    /\ \A p \in Photos : photos[p] # NoPhoto => photos'[p].owner = photos[p].owner
    /\ \A a \in Accounts : locks[a] \notin R \cup {None} => locks'[a] = locks[a]
    /\ \A a \in Accounts : locks[a] \notin R \cup {None} =>
         \A kind \in Kinds, t \in Nat : Since(kind, a, t)' = Since(kind, a, t)

LEMMA OthersStillFit ==
    ASSUME SignalInv, NEW R \in SUBSET Requests, Frame(R), NEW i \in Requests \ R
    PROVE  /\ RequestFits(requests[i])'
           /\ requests'[i].at \in Holding => locks'[requests'[i].account] = i
<1>1. PICK q \in RequestRows : q = requests[i]
  BY DEF SignalInv, RequestsFit
<1>2. RequestFits(q) /\ (q.at \in Holding => locks[q.account] = i) /\ requests'[i] = q
  BY <1>1 DEF SignalInv, RequestsFit, Frame
<1>3. /\ q.at \in Stages /\ q.kind \in Kinds \cup {None} /\ q.account \in Accounts \cup {None}
      /\ q.time \in Nat /\ q.photo \in Photos \cup {None}
  BY <1>1 DEF RequestRows
<1>4. q.at # "idle" => q.account \in Accounts /\ q.time <= now'
  BY <1>2, <1>3 DEF RequestFits, Frame
<1>5. q.at \in Holding => locks'[q.account] = i /\ locks[q.account] \notin R \cup {None}
  BY <1>2, <1>4, SignalsAssumption DEF Frame, Holding, SignalConstants, None
<1>6. q.kind = "publish" /\ q.at # "photo" => photos'[q.photo].owner = q.account
  <2> SUFFICES ASSUME q.kind = "publish", q.at # "photo" PROVE photos'[q.photo].owner = q.account
    OBVIOUS
  <2>1. q.photo \in Photos /\ photos[q.photo].owner = q.account /\ q.account \in Accounts
    BY <1>2, <1>3, <1>4 DEF RequestFits, None
  <2>2. photos[q.photo] # NoPhoto
    BY <2>1, SignalsAssumption DEF NoPhoto, SignalConstants, None
  <2> QED BY <2>1, <2>2 DEF Frame
<1>7. q.at \in Counted => Cardinality(Since(q.kind, q.account, q.time)') < Limit
  <2> SUFFICES ASSUME q.at \in Counted PROVE Cardinality(Since(q.kind, q.account, q.time)') < Limit
    OBVIOUS
  <2>1. q.account \in Accounts /\ locks[q.account] \notin R \cup {None} /\ q.kind \in Kinds
    BY <1>2, <1>3, <1>4, <1>5 DEF Counted, Holding, RequestFits
  <2>2. Since(q.kind, q.account, q.time)' = Since(q.kind, q.account, q.time)
    BY <1>3, <2>1 DEF Frame
  <2> QED BY <1>2, <2>2 DEF RequestFits
<1>8. RequestFits(q)'
  BY <1>2, <1>4, <1>6, <1>7 DEF RequestFits, Frame
<1> QED BY <1>2, <1>5, <1>8

\* A step of one request keeps the invariant if what it does to the tables, the
\* locks and its own request does.
LEMMA StepKeepsInv ==
    ASSUME SignalInv, NEW r \in Requests, Frame({r}),
           RequestFits(requests[r])', (requests[r].at \in Holding => locks[requests[r].account] = r)',
           TablesTyped', LocksFit', UploadsAreNew', PhotosMatchSignals', RollingLimit'
    PROVE  SignalInv'
<1>1. \A i \in Requests : i \notin {r} =>
        RequestFits(requests[i])' /\ (requests'[i].at \in Holding => locks'[requests'[i].account] = i)
  BY OthersStillFit
<1>2. \A i \in Requests : i = r \/ i \notin {r}
  OBVIOUS
<1>3. RequestsFit'
  BY <1>1, <1>2 DEF RequestsFit, Frame
<1> QED BY <1>3 DEF SignalInv

LEMMA SignalBasics ==
    ASSUME SignalInv
    PROVE  /\ now \in Nat /\ begun \in Nat /\ IsFiniteSet(signals) /\ IsFiniteSet(submitted)
           /\ None \notin Requests /\ None \notin Accounts /\ None \notin Photos
           /\ requests \in [Requests -> RequestRows] /\ locks \in [Accounts -> Requests \cup {None}]
           /\ photos \in [Photos -> PhotoRows \cup {NoPhoto}]
           /\ \A r \in Requests : RequestFits(requests[r])
           /\ stored \subseteq Photos /\ begun \in 0..MaxBegun
           /\ failed \subseteq {"photo", "position"}
           /\ Idle \in RequestRows /\ Idle.at = "idle" /\ Idle.kind = None
BY SignalsAssumption
   DEF SignalInv, TablesTyped, RequestsFit, LocksFit, SignalConstants, None, Idle, RequestRows, Stages

\* The rows and their photos stay, and uploads only end.
LEMMA PlainStepKeepsInv ==
    ASSUME SignalInv, NEW r \in Requests, UNCHANGED <<now, photos, signals, submitted>>,
           stored \subseteq stored', stored' \subseteq Photos, begun' \in 0..MaxBegun,
           failed' \subseteq {"photo", "position"},
           NEW q \in RequestRows, requests' = [requests EXCEPT ![r] = q],
           q.kind = "upload" =>
              /\ photos[q.photo] = NoPhoto
              /\ \A i \in Requests \ {r} : requests[i].kind = "upload" => requests[i].photo # q.photo,
           RequestFits(q)', q.at \in Holding => locks'[q.account] = r, LocksFit',
           \A a \in Accounts : locks[a] \notin {r, None} => locks'[a] = locks[a]
    PROVE  SignalInv'
<1>1. /\ requests' \in [Requests -> RequestRows] /\ requests'[r] = q
      /\ \A i \in Requests \ {r} : requests'[i] = requests[i]
  BY SignalBasics
<1>2. Frame({r})
  BY <1>1, SignalBasics DEF Frame, Since, Rows
<1>3. TablesTyped' /\ PhotosMatchSignals' /\ RollingLimit'
  BY DEF SignalInv, TablesTyped, PhotosMatchSignals, RollingLimit, Rows
<1>4. UploadsAreNew'
  BY <1>1 DEF SignalInv, UploadsAreNew
<1>5. RequestFits(requests[r])' /\ (requests[r].at \in Holding => locks[requests[r].account] = r)'
  BY <1>1 DEF RequestFits
<1> QED BY <1>2, <1>3, <1>4, <1>5, StepKeepsInv

LEMMA IdleFits == ASSUME SignalInv PROVE RequestFits(Idle)'
BY DEF RequestFits, Idle, None, Counted

\* A request that ends gives its lock back.
LEMMA EndKeepsLocks ==
    ASSUME SignalInv, NEW r \in Requests, End(r)
    PROVE  /\ LocksFit' /\ \A a \in Accounts : locks[a] \notin {r, None} => locks'[a] = locks[a]
           /\ requests' = [requests EXCEPT ![r] = Idle]
<1>1. /\ locks' = [a \in Accounts |-> IF locks[a] = r THEN None ELSE locks[a]]
      /\ requests' = [requests EXCEPT ![r] = Idle]
  BY DEF End
<1>2. locks' \in [Accounts -> Requests \cup {None}]
  BY <1>1, SignalBasics
<1>3. ASSUME NEW a \in Accounts, locks'[a] # None
      PROVE  requests'[locks'[a]].account = a /\ requests'[locks'[a]].at \in Holding
  <2>1. locks'[a] = locks[a] /\ locks[a] # r /\ locks[a] \in Requests
    BY <1>1, <1>3, SignalBasics
  <2> QED BY <1>1, <2>1, SignalBasics DEF SignalInv, LocksFit
<1> QED BY <1>1, <1>2, <1>3 DEF LocksFit

\* A request that goes on, with its account and without a change of locks.
LEMMA GoingOnKeepsLocks ==
    ASSUME SignalInv, NEW r \in Requests, NEW q, requests' = [requests EXCEPT ![r] = q],
           UNCHANGED locks,
           requests[r].at \in Holding => q.account = requests[r].account /\ q.at \in Holding
    PROVE  LocksFit' /\ \A a \in Accounts : locks[a] \notin {r, None} => locks'[a] = locks[a]
BY SignalBasics DEF SignalInv, LocksFit

-----------------------------------------------------------------------------
(* Every step keeps the invariant.                                           *)

LEMMA TickKeepsInv ==
    ASSUME SignalInv, Tick
    PROVE  SignalInv'
<1>1. /\ now' = now + 1 /\ now' \in 0..MaxNow
      /\ UNCHANGED <<photos, stored, signals, submitted, locks, requests, failed, begun>>
  BY SignalsAssumption DEF Tick, SignalInv, TablesTyped, SignalConstants
<1>2. Frame({})
  BY <1>1, SignalBasics DEF Frame, Since, Rows
<1>3. RequestsFit'
  <2>1. \A i \in Requests : /\ RequestFits(requests[i])'
                           /\ (requests'[i].at \in Holding => locks'[requests'[i].account] = i)
    BY <1>2, OthersStillFit
  <2> QED BY <1>2, <2>1 DEF RequestsFit, Frame
<1>4. TablesTyped'
  <2>1. \A s \in signals \cup submitted : s.time \in Nat /\ s.time <= now
    BY DEF SignalInv, TablesTyped, SubmissionRows
  <2>2. \A s \in signals \cup submitted : s.time <= now'
    BY <1>1, <2>1, SignalBasics
  <2> QED BY <1>1, <2>2 DEF SignalInv, TablesTyped
<1>5. LocksFit' /\ UploadsAreNew' /\ PhotosMatchSignals' /\ RollingLimit'
  BY <1>1 DEF SignalInv, LocksFit, UploadsAreNew, PhotosMatchSignals, RollingLimit, Rows
<1> QED BY <1>3, <1>4, <1>5 DEF SignalInv

LEMMA LoseKeepsInv ==
    ASSUME SignalInv, NEW r \in Requests, Lose(r)
    PROVE  SignalInv'
<1>1. /\ End(r) /\ UNCHANGED <<now, photos, signals, submitted, stored, begun, failed>>
  BY DEF Lose
<1> QED BY <1>1, EndKeepsLocks, IdleFits, PlainStepKeepsInv, SignalBasics
        DEF Holding, None

LEMMA FindPhotoKeepsInv ==
    ASSUME SignalInv, NEW r \in Requests, FindAttachablePhoto(r)
    PROVE  SignalInv'
<1>1. PICK q \in RequestRows : q = requests[r]
  BY SignalBasics
<1>2. /\ q.at = "photo" /\ RequestFits(q)
      /\ UNCHANGED <<now, photos, stored, signals, submitted, locks, failed, begun>>
      /\ requests' = [requests EXCEPT ![r] =
            IF Attachable(q.photo, q.account, q.time) THEN [q EXCEPT !.at = "lock"] ELSE Idle]
  BY <1>1, SignalBasics DEF FindAttachablePhoto
<1>3. CASE ~Attachable(q.photo, q.account, q.time)
  <2>1. requests' = [requests EXCEPT ![r] = Idle]
    BY <1>2, <1>3
  <2> QED BY <1>1, <1>2, <2>1, IdleFits, GoingOnKeepsLocks, PlainStepKeepsInv, SignalBasics
          DEF Holding, None
<1>4. CASE Attachable(q.photo, q.account, q.time)
  <2>1. PICK new \in RequestRows : new = [q EXCEPT !.at = "lock"]
    BY DEF RequestRows, Stages
  <2>2. /\ requests' = [requests EXCEPT ![r] = new] /\ new.at = "lock" /\ new.kind = q.kind
        /\ new.photo = q.photo /\ new.account = q.account /\ new.time = q.time
    BY <1>2, <1>4, <2>1 DEF RequestRows
  <2>3. RequestFits(new)'
    BY <1>2, <1>4, <2>2 DEF RequestFits, Attachable, Counted, None
  <2>4. new.at \notin Holding /\ q.at \notin Holding /\ new.kind # "upload"
    BY <1>2, <2>2 DEF Holding, RequestFits
  <2>5. LocksFit'
    BY <1>1, <1>2, <2>2, <2>4, GoingOnKeepsLocks
  <2> QED BY <1>1, <1>2, <2>2, <2>3, <2>4, <2>5, PlainStepKeepsInv, SignalBasics
<1> QED BY <1>3, <1>4

LEMMA BeginKeepsInv ==
    ASSUME SignalInv, NEW r \in Requests, NEW kind \in Kinds, NEW a \in Accounts,
           NEW p \in Photos \cup {None}, NEW at \in {"put", "photo", "lock"},
           Begin(r, kind, a, p, at),
           at = "put" <=> kind = "upload", at = "photo" <=> kind = "publish",
           kind \in {"upload", "publish"} => p \in Photos,
           kind = "upload" =>
              /\ p \notin stored
              /\ \A i \in Requests : requests[i].kind = "upload" => requests[i].photo # p
    PROVE  SignalInv'
<1>1. /\ requests[r].at = "idle" /\ begun < MaxBegun /\ begun' = begun + 1
      /\ UNCHANGED <<now, photos, stored, signals, submitted, locks, failed>>
      /\ requests' = [requests EXCEPT ![r] =
           [Idle EXCEPT !.at = at, !.kind = kind, !.account = a, !.photo = p, !.time = now]]
  BY DEF Begin
<1>2. PICK q \in RequestRows :
        /\ q = [Idle EXCEPT !.at = at, !.kind = kind, !.account = a, !.photo = p, !.time = now]
        /\ q.at = at /\ q.kind = kind /\ q.account = a /\ q.photo = p /\ q.time = now
  <2>1. [Idle EXCEPT !.at = at, !.kind = kind, !.account = a, !.photo = p, !.time = now] \in RequestRows
    BY SignalBasics DEF RequestRows, Idle, Stages
  <2> QED BY <2>1 DEF Idle
<1>3. RequestFits(q)'
  BY <1>1, <1>2, SignalBasics DEF RequestFits, Counted, None, Kinds
<1>4. begun' \in 0..MaxBegun
  BY <1>1, SignalBasics, SignalsAssumption DEF SignalConstants
<1>5. kind = "upload" => photos[p] = NoPhoto
  BY DEF SignalInv, TablesTyped
<1>6. q.at \notin Holding /\ requests[r].at \notin Holding
  BY <1>1, <1>2 DEF Holding
<1>7. LocksFit'
  BY <1>1, <1>2, <1>6, GoingOnKeepsLocks
<1> QED BY <1>1, <1>2, <1>3, <1>4, <1>5, <1>6, <1>7, PlainStepKeepsInv, SignalBasics

LEMMA BeginningsKeepInv ==
    ASSUME SignalInv, NEW r \in Requests, NEW a \in Accounts,
           \/ SubmitSignal(r, a)
           \/ \E p \in Photos : UploadPhoto(r, a, p) \/ PublishSignal(r, a, p)
    PROVE  SignalInv'
<1>1. CASE SubmitSignal(r, a)
  BY <1>1, BeginKeepsInv DEF SubmitSignal, Kinds
<1>2. ASSUME NEW p \in Photos, UploadPhoto(r, a, p) PROVE SignalInv'
  BY <1>2, BeginKeepsInv DEF UploadPhoto, Kinds
<1>3. ASSUME NEW p \in Photos, PublishSignal(r, a, p) PROVE SignalInv'
  BY <1>3, BeginKeepsInv DEF PublishSignal, Kinds
<1> QED BY <1>1, <1>2, <1>3

LEMMA PutKeepsInv ==
    ASSUME SignalInv, NEW r \in Requests, PutObject(r)
    PROVE  SignalInv'
<1>1. PICK q \in RequestRows : q = requests[r]
  BY SignalBasics
<1>2. /\ q.at = "put" /\ RequestFits(q) /\ q.photo \in Photos /\ q.kind = "upload"
      /\ UNCHANGED <<now, photos, signals, submitted, locks, failed, begun>>
  BY <1>1, SignalBasics DEF PutObject, RequestFits
<1>3. CASE requests' = [requests EXCEPT ![r] = Idle] /\ UNCHANGED stored
  BY <1>1, <1>2, <1>3, IdleFits, GoingOnKeepsLocks, PlainStepKeepsInv, SignalBasics DEF Holding, None
<1>4. CASE stored' = stored \cup {requests[r].photo} /\ requests' = [requests EXCEPT ![r].at = "record"]
  <2>1. PICK new \in RequestRows : new = [q EXCEPT !.at = "record"]
    BY DEF RequestRows, Stages
  <2>2. /\ requests' = [requests EXCEPT ![r] = new] /\ new.at = "record" /\ new.kind = q.kind
        /\ new.photo = q.photo /\ new.account = q.account /\ new.time = q.time
    BY <1>1, <1>4, <2>1, SignalBasics DEF RequestRows
  <2>3. RequestFits(new)'
    BY <1>1, <1>2, <1>4, <2>2 DEF RequestFits, Counted, None
  <2>4. new.at \notin Holding /\ q.at \notin Holding
    BY <1>2, <2>2 DEF Holding
  <2>5. LocksFit'
    BY <1>1, <1>2, <2>2, <2>4, GoingOnKeepsLocks
  <2>6. /\ photos[new.photo] = NoPhoto
        /\ \A i \in Requests \ {r} : requests[i].kind = "upload" => requests[i].photo # new.photo
    BY <1>1, <1>2, <2>2 DEF SignalInv, UploadsAreNew
  <2>7. stored \subseteq stored' /\ stored' \subseteq Photos
    BY <1>1, <1>2, <1>4, SignalBasics
  <2> QED BY <1>1, <1>2, <2>2, <2>3, <2>4, <2>5, <2>6, <2>7, PlainStepKeepsInv, SignalBasics
<1> QED BY <1>3, <1>4 DEF PutObject

LEMMA LockKeepsInv ==
    ASSUME SignalInv, NEW r \in Requests, LockAccount(r)
    PROVE  SignalInv'
<1>1. PICK q \in RequestRows : q = requests[r]
  BY SignalBasics
<1>2. /\ q.at = "lock" /\ RequestFits(q) /\ locks[q.account] = None
      /\ locks' = [locks EXCEPT ![q.account] = r]
      /\ UNCHANGED <<now, photos, stored, signals, submitted, failed, begun>>
  BY <1>1, SignalBasics DEF LockAccount
<1>3. q.account \in Accounts /\ q.kind # "upload"
  BY <1>2 DEF RequestFits
<1>4. PICK new \in RequestRows : new = [q EXCEPT !.at = "count"]
  BY DEF RequestRows, Stages
<1>5. /\ requests' = [requests EXCEPT ![r] = new] /\ new.at = "count" /\ new.kind = q.kind
      /\ new.photo = q.photo /\ new.account = q.account /\ new.time = q.time
  BY <1>1, <1>4, SignalBasics DEF RequestRows, LockAccount
<1>6. RequestFits(new)'
  BY <1>1, <1>2, <1>5 DEF RequestFits, Counted, None
<1>7. /\ locks' \in [Accounts -> Requests \cup {None}] /\ locks'[q.account] = r
      /\ \A a \in Accounts : a # q.account => locks'[a] = locks[a]
  BY <1>2, <1>3, SignalBasics
<1>8. \A a \in Accounts : locks[a] \notin {r, None} => locks'[a] = locks[a]
  BY <1>2, <1>7
<1>9. LocksFit'
  <2>1. ASSUME NEW a \in Accounts, locks'[a] # None
        PROVE  requests'[locks'[a]].account = a /\ requests'[locks'[a]].at \in Holding
    <3>1. CASE a = q.account
      BY <1>5, <1>7, <3>1, SignalBasics DEF Holding
    <3>2. CASE a # q.account
      <4>1. locks'[a] = locks[a] /\ locks[a] \in Requests
        BY <1>7, <2>1, <3>2, SignalBasics
      <4>2. requests[locks[a]].account = a /\ requests[locks[a]].at \in Holding
        BY <2>1, <4>1 DEF SignalInv, LocksFit
      <4>3. locks[a] # r
        BY <1>1, <1>2, <4>2 DEF Holding
      <4> QED BY <1>5, <4>1, <4>2, <4>3, SignalBasics
    <3> QED BY <3>1, <3>2
  <2> QED BY <1>7, <2>1 DEF LocksFit
<1> QED BY <1>2, <1>3, <1>5, <1>6, <1>7, <1>8, <1>9, PlainStepKeepsInv, SignalBasics

\* The count is of the day that ends when the request began.
LEMMA CountKeepsInv ==
    ASSUME SignalInv, NEW r \in Requests, CountRows(r)
    PROVE  SignalInv'
<1>1. PICK q \in RequestRows : q = requests[r]
  BY SignalBasics
<1>2. /\ q.at = "count" /\ RequestFits(q) /\ locks[q.account] = r /\ q.account \in Accounts
      /\ q.kind \in {"publish", "submit"}
      /\ UNCHANGED <<now, photos, stored, signals, submitted, failed, begun>>
  <2>1. q.at = "count" /\ RequestFits(q) /\ UNCHANGED <<now, photos, stored, signals, submitted, failed, begun>>
    BY <1>1, SignalBasics DEF CountRows
  <2>2. locks[q.account] = r
    BY <1>1, <2>1 DEF SignalInv, RequestsFit, Holding
  <2> QED BY <2>1, <2>2 DEF RequestFits, RequestRows, Kinds
<1>3. CASE End(r)
  BY <1>2, <1>3, EndKeepsLocks, IdleFits, PlainStepKeepsInv, SignalBasics DEF Holding, None
<1>4. CASE /\ Cardinality(Since(q.kind, q.account, q.time)) < Limit /\ UNCHANGED locks
           /\ requests' = [requests EXCEPT ![r].at = IF q.kind = "publish" THEN "position" ELSE "insert"]
  <2>1. PICK new \in RequestRows :
          new = [q EXCEPT !.at = IF q.kind = "publish" THEN "position" ELSE "insert"]
    BY DEF RequestRows, Stages
  <2>2. /\ requests' = [requests EXCEPT ![r] = new] /\ new.kind = q.kind
        /\ new.at = (IF q.kind = "publish" THEN "position" ELSE "insert")
        /\ new.photo = q.photo /\ new.account = q.account /\ new.time = q.time
    BY <1>1, <1>4, <2>1, SignalBasics DEF RequestRows
  <2>3. Since(q.kind, q.account, q.time)' = Since(q.kind, q.account, q.time)
    BY <1>2 DEF Since, Rows
  <2>4. RequestFits(new)'
    BY <1>2, <1>4, <2>2, <2>3 DEF RequestFits, None
  <2>5. new.at \in Holding
    BY <2>2 DEF Holding
  <2>6. LocksFit'
    BY <1>1, <1>4, <2>2, <2>5, GoingOnKeepsLocks
  <2> QED BY <1>2, <1>4, <2>2, <2>4, <2>6, PlainStepKeepsInv, SignalBasics
<1>5. Cardinality(Since(q.kind, q.account, q.time)) \in Nat
  <2>1. IsFiniteSet(Since(q.kind, q.account, q.time))
    BY SignalBasics, FS_Subset DEF Since, Rows
  <2> QED BY <2>1, FS_CardinalityType
<1>6. Limit \in Nat
  BY SignalsAssumption DEF SignalConstants
<1> QED BY <1>1, <1>3, <1>4, <1>5, <1>6 DEF CountRows

\* The position is one above the greatest, and not 0.
LEMMA PositionKeepsInv ==
    ASSUME SignalInv, NEW r \in Requests, nextSignalPositionForCommunity(r)
    PROVE  SignalInv'
<1>1. PICK q \in RequestRows : q = requests[r]
  BY SignalBasics
<1>2. PICK top \in Nat : top = Max({0} \cup {s.position : s \in signals})
  <2> DEFINE positions == {s.position : s \in signals}
  <2>1. positions \subseteq Nat
    <3>1. \A s \in signals : s.position \in Nat
      BY DEF SignalInv, TablesTyped
    <3> QED BY <3>1
  <2>2. IsFiniteSet(positions)
    <3>1. [s \in signals |-> s.position] \in Surjection(signals, positions)
      BY DEF Surjection
    <3> QED BY <3>1, SignalBasics, FS_Surjection
  <2>3. IsFiniteSet({0} \cup positions) /\ {0} \cup positions \subseteq Nat
    <3> HIDE DEF positions
    <3>1. IsFiniteSet({0} \cup positions)
      BY <2>2, FS_Union, FS_Singleton
    <3> QED BY <2>1, <3>1
  <2>4. Max({0} \cup positions) \in {0} \cup positions
    <3> HIDE DEF positions
    <3>1. {0} \cup positions # {}
      OBVIOUS
    <3> QED BY <2>3, <3>1, HasMax
  <2> QED BY <2>3, <2>4
<1>3. /\ q.at = "position" /\ RequestFits(q) /\ q.kind = "publish" /\ locks[q.account] = r
      /\ UNCHANGED <<now, photos, stored, signals, submitted, locks, failed, begun>>
  <2>1. /\ q.at = "position" /\ RequestFits(q)
        /\ UNCHANGED <<now, photos, stored, signals, submitted, locks, failed, begun>>
    BY <1>1, SignalBasics DEF nextSignalPositionForCommunity
  <2>2. locks[q.account] = r
    BY <1>1, <2>1 DEF SignalInv, RequestsFit, Holding
  <2> QED BY <2>1, <2>2 DEF RequestFits
<1>4. PICK new \in RequestRows : new = [q EXCEPT !.at = "insert", !.position = 1 + top]
  <2>1. 1 + top \in Nat
    OBVIOUS
  <2>2. [[q EXCEPT !.at = "insert"] EXCEPT !.position = 1 + top] \in RequestRows
    BY <2>1 DEF RequestRows, Stages
  <2> QED BY <2>2
<1>5. /\ new.at = "insert" /\ new.kind = q.kind /\ new.position = 1 + top
      /\ new.photo = q.photo /\ new.account = q.account /\ new.time = q.time
  BY <1>4 DEF RequestRows
<1>6. requests' = [requests EXCEPT ![r] = new]
  <2>1. requests' = [requests EXCEPT ![r].at = "insert", ![r].position = 1 + top]
    BY <1>2 DEF nextSignalPositionForCommunity
  <2> QED BY <1>1, <1>4, <2>1, SignalBasics
<1>7. RequestFits(new)'
  <2>1. Since(q.kind, q.account, q.time)' = Since(q.kind, q.account, q.time)
    BY <1>3 DEF Since, Rows
  <2> QED BY <1>3, <1>5, <2>1 DEF RequestFits, Counted, None
<1>8. new.at \in Holding /\ LocksFit'
  BY <1>1, <1>3, <1>5, <1>6, GoingOnKeepsLocks DEF Holding
<1> QED BY <1>3, <1>5, <1>6, <1>7, <1>8, PlainStepKeepsInv, SignalBasics

\* An upload is recorded: its photo is new, and no signal can have it.
LEMMA RecordKeepsInv ==
    ASSUME SignalInv, NEW r \in Requests, insertPendingSignalMediaUpload(r)
    PROVE  SignalInv'
<1>1. PICK q \in RequestRows : q = requests[r]
  BY SignalBasics
<1> DEFINE row == [owner |-> q.account, status |-> "pending", expires |-> q.time + PhotoLife]
<1>2. /\ q.at = "record" /\ RequestFits(q) /\ photos' = [photos EXCEPT ![q.photo] = row]
      /\ requests' = [requests EXCEPT ![r] = Idle]
      /\ UNCHANGED <<now, stored, signals, submitted, locks, failed, begun>>
  BY <1>1, SignalBasics DEF insertPendingSignalMediaUpload
<1>3. /\ q.kind = "upload" /\ q.photo \in Photos /\ q.photo \in stored /\ q.account \in Accounts
      /\ photos[q.photo] = NoPhoto
  <2>1. q.kind = "upload" /\ q.photo \in Photos /\ q.photo \in stored /\ q.account \in Accounts
    BY <1>2 DEF RequestFits
  <2> QED BY <1>1, <2>1 DEF SignalInv, UploadsAreNew
<1>4. row \in PhotoRows /\ row.status = "pending" /\ row.owner = q.account
  BY <1>3, SignalsAssumption DEF PhotoRows, RequestRows, SignalConstants
<1> HIDE DEF row
<1>5. /\ photos' \in [Photos -> PhotoRows \cup {NoPhoto}] /\ photos'[q.photo] = row
      /\ \A p \in Photos : p # q.photo => photos'[p] = photos[p]
  BY <1>2, <1>3, <1>4, SignalBasics
<1>6. /\ requests' \in [Requests -> RequestRows] /\ requests'[r] = Idle
      /\ \A i \in Requests \ {r} : requests'[i] = requests[i]
  BY <1>2, SignalBasics
<1>7. Frame({r})
  BY <1>2, <1>3, <1>5, <1>6, SignalBasics DEF Frame, Since, Rows
<1>8. RequestFits(requests[r])' /\ requests'[r].at \notin Holding
  BY <1>6, IdleFits, SignalBasics DEF RequestFits, Holding
<1>9. TablesTyped'
  BY <1>2, <1>3, <1>5 DEF SignalInv, TablesTyped
<1>10. LocksFit'
  BY <1>1, <1>2, GoingOnKeepsLocks DEF Holding
<1>11. UploadsAreNew'
  <2>1. ASSUME NEW i \in Requests, requests'[i].kind = "upload"
        PROVE  /\ i # r /\ photos'[requests'[i].photo] = NoPhoto
    BY <1>1, <1>3, <1>5, <1>6, <2>1, SignalBasics DEF SignalInv, UploadsAreNew, RequestFits
  <2> QED BY <1>6, <2>1 DEF SignalInv, UploadsAreNew
<1>12. PhotosMatchSignals'
  <2>1. \A s \in signals : s.photo # q.photo
    BY <1>3 DEF SignalInv, PhotosMatchSignals, NoPhoto, None
  <2>2. ASSUME NEW p \in Photos
        PROVE  /\ photos'[p].status = "attached" <=> \E s \in signals : s.photo = p
               /\ \A s, t \in signals :
                    s.photo = p /\ t.photo = p => s = t /\ s.account = photos'[p].owner
    BY <1>4, <1>5, <2>1 DEF SignalInv, PhotosMatchSignals
  <2> QED BY <1>2, <2>2 DEF PhotosMatchSignals
<1>13. RollingLimit'
  BY <1>2 DEF SignalInv, RollingLimit, Rows
<1> QED BY <1>7, <1>8, <1>9, <1>10, <1>11, <1>12, <1>13, StepKeepsInv

\* The transaction that counted inserts its row: it ends its request, and the
\* lock it held kept the others from adding rows of its account.
LEMMA InsertKeepsOthers ==
    ASSUME SignalInv, NEW r \in Requests, NEW q \in RequestRows, q = requests[r],
           q.at = "insert", End(r), UNCHANGED <<now, stored>>,
           \A p \in Photos : photos[p] # NoPhoto => photos'[p].owner = photos[p].owner,
           \A kind \in Kinds, a \in Accounts, t \in Nat :
              a # q.account => Since(kind, a, t)' = Since(kind, a, t)
    PROVE  /\ Frame({r}) /\ LocksFit' /\ RequestFits(requests[r])' /\ requests'[r].at \notin Holding
           /\ requests'[r] = Idle /\ \A i \in Requests \ {r} : requests'[i] = requests[i]
<1>1. /\ LocksFit' /\ \A a \in Accounts : locks[a] \notin {r, None} => locks'[a] = locks[a]
      /\ requests' = [requests EXCEPT ![r] = Idle]
  BY EndKeepsLocks
<1>2. /\ requests' \in [Requests -> RequestRows] /\ requests'[r] = Idle
      /\ \A i \in Requests \ {r} : requests'[i] = requests[i]
  BY <1>1, SignalBasics
<1>3. locks[q.account] = r
  BY DEF SignalInv, RequestsFit, Holding
<1>4. Frame({r})
  BY <1>1, <1>2, <1>3, SignalBasics DEF Frame
<1> QED BY <1>1, <1>2, <1>4, IdleFits, SignalBasics DEF RequestFits, Holding

LEMMA InsertSignalKeepsInv ==
    ASSUME SignalInv, NEW r \in Requests, InsertSignal(r)
    PROVE  SignalInv'
<1>1. PICK q \in RequestRows : q = requests[r]
  BY SignalBasics
<1>2. /\ q.at = "insert" /\ q.kind = "publish" /\ RequestFits(q) /\ End(r)
      /\ UNCHANGED <<now, stored, submitted, begun>>
  BY <1>1, SignalBasics DEF InsertSignal
<1>3. CASE Taken(q)
  <2>1. UNCHANGED <<now, photos, stored, signals, submitted, begun>> /\ failed' \subseteq {"photo", "position"}
    BY <1>1, <1>2, <1>3, SignalBasics DEF InsertSignal
  <2> QED BY <1>2, <2>1, EndKeepsLocks, IdleFits, PlainStepKeepsInv, SignalBasics DEF Holding, None
<1>4. CASE ~Taken(q)
  <2>1. PICK new \in [account : Accounts, time : Nat, position : Nat \ {0}, photo : Photos] :
          /\ new = [account |-> q.account, time |-> q.time, position |-> q.position, photo |-> q.photo]
          /\ new.account = q.account /\ new.time = q.time /\ new.photo = q.photo
          /\ new.time \in Nat /\ new.time <= now /\ new.photo \in Photos /\ new.account \in Accounts
    <3>1. q.account \in Accounts /\ q.time <= now /\ q.photo \in Photos /\ q.position # 0
      BY <1>2 DEF RequestFits
    <3>2. q.time \in Nat /\ q.position \in Nat \ {0}
      BY <3>1 DEF RequestRows
    <3> DEFINE row == [account |-> q.account, time |-> q.time, position |-> q.position, photo |-> q.photo]
    <3>3. row \in [account : Accounts, time : Nat, position : Nat \ {0}, photo : Photos]
      BY <3>1, <3>2
    <3>4. row.account = q.account /\ row.time = q.time /\ row.photo = q.photo
      OBVIOUS
    <3> HIDE DEF row
    <3>5. /\ row.time \in Nat /\ row.time <= now /\ row.photo \in Photos /\ row.account \in Accounts
      BY <3>1, <3>2, <3>4
    <3> QED BY <3>3, <3>4, <3>5 DEF row
  <2>2. /\ signals' = signals \cup {new} /\ photos' = [photos EXCEPT ![q.photo].status = "attached"]
        /\ UNCHANGED failed /\ \A s \in signals : s.photo # q.photo
    BY <1>1, <1>4, <2>1 DEF InsertSignal, Taken
  <2>3. /\ photos[q.photo] \in PhotoRows /\ photos[q.photo] # NoPhoto /\ photos[q.photo].owner = q.account
    <3>1. photos[q.photo].owner = q.account
      BY <1>2 DEF RequestFits
    <3> QED BY <2>1, <3>1, SignalBasics DEF NoPhoto
  <2>4. /\ photos' \in [Photos -> PhotoRows \cup {NoPhoto}] /\ photos'[q.photo] \in PhotoRows
        /\ photos'[q.photo].status = "attached" /\ photos'[q.photo].owner = q.account
        /\ \A p \in Photos : p # q.photo => photos'[p] = photos[p]
    BY <2>1, <2>2, <2>3, SignalBasics DEF PhotoRows
  <2>5. \A kind \in Kinds, a \in Accounts, t \in Nat :
          a # q.account => Since(kind, a, t)' = Since(kind, a, t)
    BY <1>2, <2>1, <2>2 DEF Since, Rows
  <2>6. /\ Frame({r}) /\ LocksFit' /\ RequestFits(requests[r])' /\ requests'[r].at \notin Holding
        /\ requests'[r] = Idle /\ \A i \in Requests \ {r} : requests'[i] = requests[i]
    BY <1>1, <1>2, <2>1, <2>3, <2>4, <2>5, InsertKeepsOthers
  <2>7. TablesTyped'
    BY <1>2, <2>1, <2>2, <2>3, <2>4, FS_AddElement DEF SignalInv, TablesTyped
  <2>8. UploadsAreNew'
    <3>1. ASSUME NEW i \in Requests, requests'[i].kind = "upload"
          PROVE  /\ i # r /\ photos'[requests'[i].photo] = NoPhoto
      <4>1. i # r /\ requests'[i] = requests[i] /\ RequestFits(requests[i])
        BY <2>6, <3>1, SignalBasics DEF Kinds, None
      <4>2. requests[i].photo \in Photos /\ photos[requests[i].photo] = NoPhoto
        BY <3>1, <4>1 DEF RequestFits, SignalInv, UploadsAreNew
      <4> QED BY <2>3, <2>4, <4>1, <4>2
    <3> QED BY <2>6, <3>1 DEF SignalInv, UploadsAreNew
  <2>9. PhotosMatchSignals'
    <3>1. ASSUME NEW p \in Photos
          PROVE  /\ photos'[p].status = "attached" <=> \E s \in signals' : s.photo = p
                 /\ \A s, t \in signals' :
                      s.photo = p /\ t.photo = p => s = t /\ s.account = photos'[p].owner
      <4>1. CASE p = q.photo
        BY <2>1, <2>2, <2>4, <4>1
      <4>2. CASE p # q.photo
        BY <2>1, <2>2, <2>4, <4>2 DEF SignalInv, PhotosMatchSignals
      <4> QED BY <4>1, <4>2
    <3> QED BY <3>1 DEF PhotosMatchSignals
  <2>10. RollingLimit'
    <3>1. Within(signals) /\ Within(submitted)
      BY LimitIsWithin DEF SignalInv
    <3>2. Cardinality(DayOf(signals, new.account, new.time)) < Limit
      BY <1>2, <2>1 DEF RequestFits, Counted, Since, Rows, DayOf
    <3>3. \A s \in signals : s.time \in Nat
      BY DEF SignalInv, TablesTyped
    <3>4. Within(signals \cup {new})
      BY <2>1, <3>1, <3>2, <3>3, SignalBasics, WindowsStayWithin
    <3>5. Within(signals') /\ Within(submitted')
      BY <1>2, <2>2, <3>1, <3>4
    <3> QED BY <3>5 DEF RollingLimit, Within, WindowOf, Rows
  <2> QED BY <2>6, <2>7, <2>8, <2>9, <2>10, StepKeepsInv
<1> QED BY <1>3, <1>4

LEMMA InsertSubmissionKeepsInv ==
    ASSUME SignalInv, NEW r \in Requests, InsertSubmission(r)
    PROVE  SignalInv'
<1>1. PICK q \in RequestRows : q = requests[r]
  BY SignalBasics
<1>2. /\ q.at = "insert" /\ q.kind = "submit" /\ RequestFits(q) /\ End(r)
      /\ UNCHANGED <<now, photos, stored, signals, failed, begun>>
  BY <1>1, SignalBasics DEF InsertSubmission
<1>3. PICK new \in SubmissionRows :
        /\ new = [account |-> q.account, time |-> q.time, id |-> Cardinality(submitted)]
        /\ new.account = q.account /\ new.time = q.time
        /\ new.time \in Nat /\ new.time <= now /\ new.account \in Accounts
  <2>1. Cardinality(submitted) \in Nat
    BY SignalBasics, FS_CardinalityType
  <2>2. q.account \in Accounts /\ q.time <= now
    BY <1>2 DEF RequestFits
  <2>3. q.time \in Nat
    BY DEF RequestRows
  <2> DEFINE row == [account |-> q.account, time |-> q.time, id |-> Cardinality(submitted)]
  <2>4. row \in SubmissionRows
    BY <2>1, <2>2, <2>3 DEF SubmissionRows
  <2>5. row.account = q.account /\ row.time = q.time
    OBVIOUS
  <2> HIDE DEF row
  <2>6. row.time \in Nat /\ row.time <= now /\ row.account \in Accounts
    BY <2>2, <2>3, <2>5
  <2> QED BY <2>4, <2>5, <2>6 DEF row
<1>4. submitted' = submitted \cup {new}
  BY <1>1, <1>3 DEF InsertSubmission
<1>5. \A kind \in Kinds, a \in Accounts, t \in Nat :
        a # q.account => Since(kind, a, t)' = Since(kind, a, t)
  BY <1>2, <1>3, <1>4 DEF Since, Rows
<1>6. /\ Frame({r}) /\ LocksFit' /\ RequestFits(requests[r])' /\ requests'[r].at \notin Holding
      /\ requests'[r] = Idle /\ \A i \in Requests \ {r} : requests'[i] = requests[i]
  BY <1>1, <1>2, <1>5, InsertKeepsOthers
<1>7. TablesTyped'
  BY <1>2, <1>3, <1>4, FS_AddElement DEF SignalInv, TablesTyped
<1>8. UploadsAreNew'
  BY <1>2, <1>6, SignalBasics DEF SignalInv, UploadsAreNew, None
<1>9. PhotosMatchSignals'
  BY <1>2 DEF SignalInv, PhotosMatchSignals
<1>10. RollingLimit'
  <2>1. Within(signals) /\ Within(submitted)
    BY LimitIsWithin DEF SignalInv
  <2>2. Cardinality(DayOf(submitted, new.account, new.time)) < Limit
    BY <1>2, <1>3 DEF RequestFits, Counted, Since, Rows, DayOf
  <2>3. \A s \in submitted : s.time \in Nat
    BY DEF SignalInv, TablesTyped, SubmissionRows
  <2>4. Within(submitted \cup {new})
    BY <1>3, <2>1, <2>2, <2>3, SignalBasics, WindowsStayWithin
  <2>5. Within(signals') /\ Within(submitted')
    BY <1>2, <1>4, <2>1, <2>4
  <2> QED BY <2>5 DEF RollingLimit, Within, WindowOf, Rows
<1> QED BY <1>6, <1>7, <1>8, <1>9, <1>10, StepKeepsInv

LEMMA InitSignalInv == Init => SignalInv
<1> SUFFICES ASSUME Init PROVE SignalInv
  OBVIOUS
<1>1. {} \subseteq SubmissionRows /\ IsFiniteSet({})
  BY FS_EmptySet
<1>2. TablesTyped
  BY <1>1, SignalsAssumption DEF Init, TablesTyped, SignalConstants
<1>3. RequestsFit
  BY DEF Init, RequestsFit, RequestFits, RequestRows, Idle, Stages, Holding, Counted, None
<1>4. LocksFit /\ UploadsAreNew /\ RollingLimit
  BY DEF Init, LocksFit, UploadsAreNew, RollingLimit, Rows, Idle, None
<1>5. PhotosMatchSignals
  BY DEF Init, PhotosMatchSignals, NoPhoto, None
<1> QED BY <1>2, <1>3, <1>4, <1>5 DEF SignalInv

LEMMA NextSignalInv == SignalInv /\ [Next]_vars => SignalInv'
<1> SUFFICES ASSUME SignalInv, [Next]_vars PROVE SignalInv'
  OBVIOUS
<1>1. CASE UNCHANGED vars
  <2>1. UNCHANGED <<now, photos, stored, signals, submitted, locks, requests, failed, begun>>
    BY <1>1 DEF vars
  <2>2. TablesTyped' /\ UploadsAreNew' /\ LocksFit'
    BY <2>1 DEF SignalInv, TablesTyped, LocksFit, UploadsAreNew
  <2>3. PhotosMatchSignals' /\ RollingLimit'
    BY <2>1 DEF SignalInv, PhotosMatchSignals, RollingLimit, Rows
  <2>4. Frame({})
    BY <2>1, SignalBasics DEF Frame, Since, Rows
  <2>5. \A i \in Requests : /\ RequestFits(requests[i])'
                           /\ (requests'[i].at \in Holding => locks'[requests'[i].account] = i)
    BY <2>4, OthersStillFit
  <2>6. RequestsFit'
    BY <2>4, <2>5 DEF RequestsFit, Frame
  <2> QED BY <2>2, <2>3, <2>6 DEF SignalInv
<1>2. CASE Tick
  BY <1>2, TickKeepsInv
<1>3. ASSUME NEW r \in Requests, StepOf(r) PROVE SignalInv'
  BY <1>3, PutKeepsInv, RecordKeepsInv, FindPhotoKeepsInv, LockKeepsInv, CountKeepsInv,
     PositionKeepsInv, InsertSignalKeepsInv, InsertSubmissionKeepsInv DEF StepOf
<1> QED BY <1>1, <1>2, <1>3, BeginningsKeepInv, LoseKeepsInv DEF Next

-----------------------------------------------------------------------------
(* The theorems.                                                             *)

\* The inductive invariant: what each request has at its stage, who holds the
\* locks, and what the properties below say of the tables.
THEOREM SignalsInvariant == Spec => []SignalInv
<1>1. Init => SignalInv
  BY InitSignalInv
<1>2. SignalInv /\ [Next]_vars => SignalInv'
  BY NextSignalInv
<1> QED BY <1>1, <1>2, PTL DEF Spec

\* Types, and the locks belong to the requests that took them.
THEOREM SignalsTypeCorrect == Spec => []TypeOK
<1>1. SignalInv => TypeOK
  BY DEF SignalInv, TablesTyped, RequestsFit, LocksFit, TypeOK, RequestRows, Stages, SignalRows
<1> QED BY <1>1, SignalsInvariant, PTL

\* "5 per account per rolling 24h": whatever times the requests took at their
\* start and in whatever order the lock of the account lets them in, no day has
\* more rows of an account than the limit (countAccountMemberSignalsSince).
THEOREM RollingLimitHolds == Spec => []RollingLimit
<1>1. SignalInv => RollingLimit
  BY DEF SignalInv
<1> QED BY <1>1, SignalsInvariant, PTL

\* A photo is attached exactly when one signal of its owner has it, although it
\* is found attachable before the transaction (the unique key on the photo).
THEOREM PhotosAlwaysMatch == Spec => []PhotosMatchSignals
<1>1. SignalInv => PhotosMatchSignals
  BY DEF SignalInv
<1> QED BY <1>1, SignalsInvariant, PTL

-----------------------------------------------------------------------------
(* The discussion of a signal.                                               *)

TalkKinds == {"confirm", "upload", "read", "contribute", "fetch"}
TalkStages == {"insert", "read", "medium", "ensure", "session", "mark", "find"}
TalkRows == [at : TalkStages, kind : TalkKinds, member : Accounts, medium : Media \cup {None},
             time : Nat, key : 1..MaxBegun]

Attaches(q) == q.kind = "contribute" /\ q.medium # None

\* What a request has found, or will find: its own row of an upload is not there
\* yet; its medium stays its member's; the session it works in stays.
TalkHolds(q) ==
    /\ q.time <= now
    /\ q.at \in {"ensure", "session"} => q.kind \in {"read", "contribute"}
    /\ q.at = "read" => q.kind = "confirm" /\ confirmations[q.member] # Discussing!Never
    /\ q.kind = "upload" => q.at = "insert" /\ q.medium \in Media /\ uploads[q.medium] = Discussing!NoUpload
    /\ q.at \in {"medium", "mark"} => Attaches(q)
    /\ Attaches(q) => q.medium \in Media
    /\ Attaches(q) /\ q.at # "medium" =>
         uploads[q.medium] \in Discussing!UploadRows /\ uploads[q.medium].owner = q.member
    /\ q.kind = "contribute" /\ q.at \in {"insert", "mark"} => sessions = {q.key}
    /\ q.at = "mark" => \E i \in DOMAIN contributions : contributions[i].medium = q.medium

TalksHold ==
    /\ talks \in [Requests -> TalkRows \cup {Discussing!Idle}]
    /\ \A r \in Requests : talks[r] # Discussing!Idle => TalkHolds(talks[r])

UploadsInFlight ==
    \A r, s \in Requests :
        talks[r].kind = "upload" /\ talks[s].kind = "upload" /\ talks[r].medium = talks[s].medium => r = s

ContributionHolds(c) ==
    /\ sessions = {c.session}
    /\ c.medium # None => uploads[c.medium] \in Discussing!UploadRows /\ c.author = uploads[c.medium].owner

ContributionsHold ==
    /\ contributions \in Seq(Discussing!ContributionRows)
    /\ \A i \in DOMAIN contributions : ContributionHolds(contributions[i])
    /\ \A i, j \in DOMAIN contributions :
         contributions[i].medium # None /\ contributions[j].medium = contributions[i].medium => i = j

UploadsHold ==
    /\ uploads \in [Media -> Discussing!UploadRows \cup {Discussing!NoUpload}]
    /\ \A u \in Media : uploads[u].status = "attached" =>
         \E i \in DOMAIN contributions : contributions[i].medium = u

AnswerHolds(a) ==
    /\ a.kind = "confirm" /\ a.member \in Accounts =>
         a.value = confirmations[a.member] /\ a.value # Discussing!Never
    /\ a.kind \in {"read", "contribute"} => sessions = {a.value}

OthersHold ==
    /\ now \in 0..MaxNow /\ visible \in BOOLEAN /\ talked \in 0..MaxBegun
    /\ confirmations \in Discussing!ConfirmationRows
    /\ sessions = {} \/ \E s \in 1..MaxBegun : sessions = {s}
    /\ \A a \in answers : AnswerHolds(a)

TalkInv ==
    OthersHold /\ ContributionsHold /\ UploadsHold /\ TalksHold /\ UploadsInFlight

LEMMA TalkConstants == MaxNow \in Nat /\ MediaLife \in Nat /\ MaxBegun \in Nat /\ None = "none"
BY CommunityAssumption DEF Discussing!DiscussionConstants, None

LEMMA TalkNames ==
    /\ Discussing!None = None /\ None \notin TalkKinds /\ "idle" \notin TalkStages
    /\ Discussing!Idle.at = "idle" /\ Discussing!Idle.kind = None
    /\ Discussing!Idle \notin TalkRows
    /\ Discussing!NoUpload \notin Discussing!UploadRows
    /\ Discussing!NoUpload.status = None
BY DEF None, Discussing!None, TalkKinds, TalkStages, Discussing!Idle, TalkRows, Discussing!NoUpload,
       Discussing!UploadRows

LEMMA TalkFields ==
    ASSUME NEW q \in TalkRows
    PROVE  /\ q.at \in TalkStages /\ q.kind \in TalkKinds /\ q.member \in Accounts
           /\ q.medium \in Media \cup {None} /\ q.time \in Nat /\ q.key \in 1..MaxBegun
           /\ q # Discussing!Idle
BY TalkNames DEF TalkRows

LEMMA ContributionFields ==
    ASSUME NEW c \in Discussing!ContributionRows
    PROVE  /\ c.author \in Accounts /\ c.session \in Nat /\ c.medium \in Media \cup {None}
           /\ c.hidden \in BOOLEAN
BY DEF Discussing!ContributionRows, Discussing!None, None

\* The invariant says as much as the type invariant and the properties.
LEMMA TalkInvImplies ==
    ASSUME TalkInv
    PROVE  /\ Discussing!TypeOK /\ Discussing!ConfirmationsAreStable
           /\ Discussing!OneDiscussion /\ Discussing!MediaHaveOneContribution
<1>1. Discussing!TypeOK
  BY TalkConstants DEF TalkInv, OthersHold, ContributionsHold, UploadsHold, Discussing!TypeOK
<1>2. Discussing!ConfirmationsAreStable
  BY DEF TalkInv, OthersHold, AnswerHolds, Discussing!ConfirmationsAreStable
<1>3. Discussing!OneDiscussion
  BY DEF TalkInv, OthersHold, AnswerHolds, ContributionsHold, ContributionHolds, Discussing!OneDiscussion
<1>4. Discussing!MediaHaveOneContribution
  <2>1. ASSUME NEW i \in DOMAIN contributions, NEW j \in DOMAIN contributions,
               contributions[i].medium # Discussing!None
        PROVE  /\ contributions[i].author = uploads[contributions[i].medium].owner
               /\ contributions[j].medium = contributions[i].medium => i = j
    BY <2>1, TalkNames DEF TalkInv, ContributionsHold, ContributionHolds
  <2> QED BY <2>1 DEF TalkInv, UploadsHold, Discussing!MediaHaveOneContribution
<1> QED BY <1>1, <1>2, <1>3, <1>4

LEMMA TalkStarts == Discussing!Init => TalkInv
<1> SUFFICES ASSUME Discussing!Init PROVE TalkInv
  OBVIOUS
<1>0. visible = TRUE /\ answers = {} /\ contributions = <<>>
  BY DEF Discussing!Init
<1>1. OthersHold
  <2>1. visible \in BOOLEAN
    BY <1>0
  <2>2. confirmations \in Discussing!ConfirmationRows
    BY TalkConstants DEF Discussing!Init, Discussing!ConfirmationRows, Discussing!Never
  <2> QED BY <1>0, <2>1, <2>2, TalkConstants DEF Discussing!Init, OthersHold
<1>2. ContributionsHold
  BY <1>0 DEF ContributionsHold
<1>3. UploadsHold
  BY TalkNames DEF Discussing!Init, UploadsHold, None
<1>4. TalksHold /\ UploadsInFlight
  BY TalkNames DEF Discussing!Init, TalksHold, UploadsInFlight, TalkKinds
<1> QED BY <1>1, <1>2, <1>3, <1>4 DEF TalkInv

-----------------------------------------------------------------------------
(* What a table may do without disturbing a request.                         *)

TablesGoOn ==
    /\ now' \in Nat /\ now <= now'
    /\ \A m \in Accounts : confirmations[m] # Discussing!Never => confirmations'[m] = confirmations[m]
    /\ sessions = {} \/ sessions' = sessions
    /\ \A i \in DOMAIN contributions :
         i \in DOMAIN contributions' /\ contributions'[i].medium = contributions[i].medium
    /\ \A u \in Media : uploads[u] \in Discussing!UploadRows =>
         uploads'[u] \in Discussing!UploadRows /\ uploads'[u].owner = uploads[u].owner

LEMMA TalkGoesOn ==
    ASSUME NEW q \in TalkRows, TalkHolds(q), now \in Nat, TablesGoOn,
           q.kind = "upload" => uploads'[q.medium] = uploads[q.medium]
    PROVE  TalkHolds(q)'
<1>1. q.member \in Accounts /\ q.time \in Nat
  BY TalkFields
<1>2. Attaches(q)' <=> Attaches(q)
  BY DEF Attaches
<1>3. q.time <= now'
  BY <1>1 DEF TalkHolds, TablesGoOn
<1>4. q.at = "read" => q.kind = "confirm" /\ confirmations'[q.member] # Discussing!Never
  BY <1>1 DEF TalkHolds, TablesGoOn
<1>5. Attaches(q) /\ q.at # "medium" =>
        uploads'[q.medium] \in Discussing!UploadRows /\ uploads'[q.medium].owner = q.member
  BY DEF TalkHolds, TablesGoOn
<1>6. q.at = "mark" => \E i \in DOMAIN contributions' : contributions'[i].medium = q.medium
  BY DEF TalkHolds, TablesGoOn
<1>7. q.kind = "contribute" /\ q.at \in {"insert", "mark"} => sessions' = {q.key}
  BY DEF TalkHolds, TablesGoOn
<1> QED BY <1>2, <1>3, <1>4, <1>5, <1>6, <1>7 DEF TalkHolds

\* A step that changes at most one request.
TalkStep ==
    \/ UNCHANGED talks /\ UNCHANGED uploads
    \/ \E r \in Requests : \E new :
        /\ talks' = [talks EXCEPT ![r] = new]
        /\ new # Discussing!Idle => new \in TalkRows /\ TalkHolds(new)'
        /\ new.kind = "upload" => \A s \in Requests : talks[s].kind = "upload" => talks[s].medium # new.medium
        /\ \A s \in Requests : s # r /\ talks[s].kind = "upload" =>
             uploads'[talks[s].medium] = uploads[talks[s].medium]

LEMMA TalksGoOn ==
    ASSUME TalksHold, UploadsInFlight, now \in Nat, TablesGoOn, TalkStep
    PROVE  TalksHold' /\ UploadsInFlight'
<1>1. ASSUME NEW q \in TalkRows, NEW r \in Requests, q = talks[r],
             q.kind = "upload" => uploads'[q.medium] = uploads[q.medium]
      PROVE  TalkHolds(q)'
  BY <1>1, TalkFields, TalkGoesOn DEF TalksHold
<1>2. CASE UNCHANGED talks /\ UNCHANGED uploads
  <2>1. ASSUME NEW r \in Requests, NEW q, q = talks'[r], q # Discussing!Idle
        PROVE  TalkHolds(q)'
    <3>1. q \in TalkRows /\ q = talks[r]
      BY <1>2, <2>1 DEF TalksHold
    <3> QED BY <1>1, <1>2, <3>1
  <2> QED BY <1>2, <2>1 DEF TalksHold, UploadsInFlight
<1>3. ASSUME NEW r \in Requests, NEW new, talks' = [talks EXCEPT ![r] = new],
             new # Discussing!Idle => new \in TalkRows /\ TalkHolds(new)',
             new.kind = "upload" => \A s \in Requests : talks[s].kind = "upload" => talks[s].medium # new.medium,
             \A s \in Requests : s # r /\ talks[s].kind = "upload" =>
                uploads'[talks[s].medium] = uploads[talks[s].medium]
      PROVE  TalksHold' /\ UploadsInFlight'
  <2>1. \A s \in Requests : talks'[s] = IF s = r THEN new ELSE talks[s]
    BY <1>3 DEF TalksHold
  <2>2. talks' \in [Requests -> TalkRows \cup {Discussing!Idle}]
    BY <1>3 DEF TalksHold
  <2>3. ASSUME NEW s \in Requests, NEW q, q = talks'[s], q # Discussing!Idle
        PROVE  TalkHolds(q)'
    <3>1. CASE s = r
      <4>1. q = new
        BY <2>1, <2>3, <3>1
      <4> QED BY <4>1, <1>3, <2>3
    <3>2. CASE s # r
      <4>1. q \in TalkRows /\ q = talks[s]
        BY <2>1, <2>3, <3>2 DEF TalksHold
      <4> QED BY <4>1, <3>2, <1>1, <1>3
    <3> QED BY <3>1, <3>2
  <2>4. UploadsInFlight'
    BY <1>3, <2>1 DEF UploadsInFlight
  <2> QED BY <2>2, <2>3, <2>4 DEF TalksHold
<1> QED BY <1>2, <1>3 DEF TalkStep

LEMMA AnswerGoesOn ==
    ASSUME NEW a, AnswerHolds(a), TablesGoOn
    PROVE  AnswerHolds(a)'
BY DEF AnswerHolds, TablesGoOn

LEMMA ContributionsGoOn ==
    ASSUME TalkInv, TablesGoOn, UNCHANGED contributions
    PROVE  ContributionsHold'
<1>1. contributions \in Seq(Discussing!ContributionRows)
  BY DEF TalkInv, ContributionsHold
<1>2. ASSUME NEW i \in DOMAIN contributions, NEW c, c = contributions[i]
      PROVE  ContributionHolds(c)'
  <2>1. c \in Discussing!ContributionRows /\ ContributionHolds(c)
    BY <1>1, <1>2 DEF TalkInv, ContributionsHold
  <2>2. c.medium \in Media \cup {None}
    BY <2>1, ContributionFields
  <2> QED BY <2>1, <2>2 DEF ContributionHolds, TablesGoOn
<1> QED BY <1>1, <1>2 DEF TalkInv, ContributionsHold

\* A step keeps the invariant when each table keeps its part.
LEMMA TalkInvGoesOn ==
    ASSUME TalkInv, TablesGoOn, TalkStep,
           now' \in 0..MaxNow, visible' \in BOOLEAN, talked' \in 0..MaxBegun,
           confirmations' \in Discussing!ConfirmationRows,
           sessions' = {} \/ \E s \in 1..MaxBegun : sessions' = {s},
           \A a \in answers' : a \in answers \/ AnswerHolds(a)',
           ContributionsHold', UploadsHold'
    PROVE  TalkInv'
<1>1. \A a \in answers' : AnswerHolds(a)'
  BY AnswerGoesOn DEF TalkInv, OthersHold
<1>2. OthersHold'
  BY <1>1 DEF OthersHold
<1>3. now \in Nat
  BY TalkConstants DEF TalkInv, OthersHold
<1>4. TalksHold' /\ UploadsInFlight'
  BY <1>3, TalksGoOn DEF TalkInv
<1> QED BY <1>2, <1>4 DEF TalkInv

\* Most steps leave the tables alone.
LEMMA OnlyRequestsMove ==
    ASSUME TalkInv, TalkStep, UNCHANGED <<now, visible, confirmations, sessions, contributions, uploads>>,
           talked' \in 0..MaxBegun, \A a \in answers' : a \in answers \/ AnswerHolds(a)'
    PROVE  TalkInv'
<1>1. visible' \in BOOLEAN
  BY DEF TalkInv, OthersHold
<1>2. TablesGoOn
  BY TalkConstants DEF TalkInv, OthersHold, TablesGoOn
<1>3. ContributionsHold' /\ UploadsHold'
  BY <1>2, ContributionsGoOn DEF TalkInv, UploadsHold
<1> QED BY <1>1, <1>2, <1>3, TalkInvGoesOn DEF TalkInv, OthersHold

LEMMA Moves ==
    ASSUME NEW r \in Requests, NEW new, talks' = [talks EXCEPT ![r] = new],
           new = Discussing!Idle \/ (new \in TalkRows /\ TalkHolds(new)' /\ new.kind # "upload"),
           \A s \in Requests : s # r /\ talks[s].kind = "upload" =>
              uploads'[talks[s].medium] = uploads[talks[s].medium]
    PROVE  TalkStep
<1>1. new.kind # "upload"
  BY TalkNames DEF TalkKinds
<1> QED BY <1>1 DEF TalkStep

\* A request that is not at rest has a row.
LEMMA TalkRow ==
    ASSUME TalkInv, NEW r \in Requests, talks[r].at # "idle"
    PROVE  talks[r] \in TalkRows /\ TalkHolds(talks[r])
BY TalkNames DEF TalkInv, TalksHold

\* The row of a request that has reached a stage, and has a key.
Reaches(q, at, key, new) ==
    /\ new \in TalkRows /\ new.at = at /\ new.kind = q.kind /\ new.member = q.member
    /\ new.medium = q.medium /\ new.time = q.time /\ new.key = key

LEMMA StageIsReached ==
    ASSUME NEW q \in TalkRows, NEW at \in TalkStages, NEW key \in 1..MaxBegun
    PROVE  /\ Reaches(q, at, q.key, [q EXCEPT !.at = at])
           /\ Reaches(q, at, key, [q EXCEPT !.at = at, !.key = key])
BY DEF TalkRows, Reaches

LEMMA BeginHolds ==
    ASSUME TalkInv, NEW r \in Requests, NEW kind \in TalkKinds, NEW m \in Accounts,
           NEW u \in Media \cup {None}, NEW at \in {"insert", "ensure", "medium", "find"},
           Discussing!Begin(r, kind, m, u, at),
           at = "ensure" => kind \in {"read", "contribute"},
           at = "medium" => kind = "contribute" /\ u # None,
           kind = "contribute" /\ u # None => at = "medium" /\ u \in Media,
           kind = "contribute" => at # "insert",
           kind = "upload" => /\ at = "insert" /\ u \in Media /\ uploads[u] = Discussing!NoUpload
                              /\ \A s \in Requests : talks[s].kind = "upload" => talks[s].medium # u
    PROVE  TalkInv'
<1>1. PICK new : new = [at |-> at, kind |-> kind, member |-> m, medium |-> u, time |-> now, key |-> talked + 1]
  OBVIOUS
<1>2. /\ talks' = [talks EXCEPT ![r] = new] /\ talked' = talked + 1 /\ talked < MaxBegun
      /\ UNCHANGED <<now, visible, confirmations, sessions, contributions, uploads, answers>>
  BY <1>1 DEF Discussing!Begin
<1>3. now \in Nat /\ talked \in 0..MaxBegun
  BY TalkConstants DEF TalkInv, OthersHold
<1>4. talked' \in 0..MaxBegun /\ talked + 1 \in 1..MaxBegun
  BY <1>2, <1>3, TalkConstants
<1>5. /\ new \in TalkRows /\ new.at = at /\ new.kind = kind /\ new.member = m /\ new.medium = u
      /\ new.time = now /\ new.key = talked + 1
  BY <1>1, <1>3, <1>4 DEF TalkRows, TalkStages
<1>6. TalkHolds(new)'
  BY <1>2, <1>3, <1>5 DEF TalkHolds, Attaches
<1>7. TalkStep
  <2>1. new.kind = "upload" => \A s \in Requests : talks[s].kind = "upload" => talks[s].medium # new.medium
    BY <1>5
  <2>2. \A s \in Requests : s # r /\ talks[s].kind = "upload" =>
             uploads'[talks[s].medium] = uploads[talks[s].medium]
    BY <1>2
  <2> QED BY <1>2, <1>5, <1>6, <2>1, <2>2 DEF TalkStep
<1> QED BY <1>2, <1>4, <1>7, OnlyRequestsMove

LEMMA BeginsHold ==
    ASSUME TalkInv, NEW r \in Requests, NEW m \in Accounts,
           \/ Discussing!ConfirmSignal(r, m) \/ Discussing!ReadSession(r, m) \/ Discussing!FetchMedium(r, m)
           \/ Discussing!Contribute(r, m, None)
           \/ \E u \in Media : Discussing!UploadMedium(r, m, u) \/ Discussing!Contribute(r, m, u)
    PROVE  TalkInv'
<1>0. None = Discussing!None /\ None \in Media \cup {None}
  BY TalkNames
<1>1. CASE Discussing!ConfirmSignal(r, m)
  <2>1. Discussing!Begin(r, "confirm", m, None, "insert")
    BY <1>0, <1>1 DEF Discussing!ConfirmSignal
  <2> QED BY <1>0, <2>1, BeginHolds DEF TalkKinds
<1>2. CASE Discussing!ReadSession(r, m)
  <2>1. Discussing!Begin(r, "read", m, None, "ensure")
    BY <1>0, <1>2 DEF Discussing!ReadSession
  <2> QED BY <1>0, <2>1, BeginHolds DEF TalkKinds
<1>3. CASE Discussing!FetchMedium(r, m)
  <2>1. Discussing!Begin(r, "fetch", m, None, "find")
    BY <1>0, <1>3 DEF Discussing!FetchMedium
  <2> QED BY <1>0, <2>1, BeginHolds DEF TalkKinds
<1>4. ASSUME NEW u \in Media \cup {None}, Discussing!Contribute(r, m, u) PROVE TalkInv'
  <2>1. CASE u = None
    <3>1. Discussing!Begin(r, "contribute", m, u, "ensure")
      BY <1>0, <1>4, <2>1 DEF Discussing!Contribute
    <3> QED BY <2>1, <3>1, BeginHolds DEF TalkKinds
  <2>2. CASE u # None
    <3>1. Discussing!Begin(r, "contribute", m, u, "medium")
      BY <1>0, <1>4, <2>2 DEF Discussing!Contribute
    <3> QED BY <2>2, <3>1, BeginHolds DEF TalkKinds
  <2> QED BY <2>1, <2>2
<1>5. ASSUME NEW u \in Media, Discussing!UploadMedium(r, m, u) PROVE TalkInv'
  <2>1. /\ Discussing!Begin(r, "upload", m, u, "insert") /\ uploads[u] = Discussing!NoUpload
        /\ \A s \in Requests : talks[s].kind = "upload" => talks[s].medium # u
    BY <1>5 DEF Discussing!UploadMedium
  <2> QED BY <2>1, BeginHolds DEF TalkKinds
<1> QED BY <1>0, <1>1, <1>2, <1>3, <1>4, <1>5

\* A request that has taken a statement, and the others.
LEMMA Reached ==
    ASSUME TalkInv, NEW r \in Requests, talks[r].at # "idle", talks[r].kind # "upload",
           NEW at \in TalkStages, NEW key \in 1..MaxBegun, NEW new, Reaches(talks[r], at, key, new),
           talks' = [talks EXCEPT ![r] = new], TalkHolds(new)',
           \A s \in Requests : s # r /\ talks[s].kind = "upload" =>
              uploads'[talks[s].medium] = uploads[talks[s].medium]
    PROVE  TalkStep
BY Moves DEF Reaches

LEMMA Finishes ==
    ASSUME TalkInv, NEW r \in Requests, talks' = [talks EXCEPT ![r] = Discussing!Idle],
           \A s \in Requests : s # r /\ talks[s].kind = "upload" =>
              uploads'[talks[s].medium] = uploads[talks[s].medium]
    PROVE  TalkStep
BY Moves

\* What a request answers is true of the rows at that time.
LEMMA Answers ==
    ASSUME TalkInv, NEW r \in Requests, NEW value, Discussing!Finish(r, value), talks[r].at # "idle",
           talks[r].kind = "confirm" =>
              value = confirmations'[talks[r].member] /\ value # Discussing!Never,
           talks[r].kind \in {"read", "contribute"} => sessions' = {value}
    PROVE  /\ \A a \in answers' : a \in answers \/ AnswerHolds(a)'
           /\ talks' = [talks EXCEPT ![r] = Discussing!Idle]
<1>1. PICK a : a = [kind |-> talks[r].kind, member |-> talks[r].member, value |-> value]
  OBVIOUS
<1>2. answers' = answers \cup {a} /\ talks' = [talks EXCEPT ![r] = Discussing!Idle]
  BY <1>1 DEF Discussing!Finish
<1>3. a.kind = talks[r].kind /\ a.member = talks[r].member /\ a.value = value
  BY <1>1
<1>4. AnswerHolds(a)'
  BY <1>3 DEF AnswerHolds
<1> QED BY <1>2, <1>4

LEMMA InsertConfirmationHolds ==
    ASSUME TalkInv, NEW r \in Requests, Discussing!InsertConfirmation(r)
    PROVE  TalkInv'
<1>1. /\ talks[r].at = "insert" /\ talks[r].kind = "confirm"
      /\ talks' = [talks EXCEPT ![r] = [talks[r] EXCEPT !.at = "read"]]
      /\ UNCHANGED <<now, visible, sessions, contributions, uploads, answers, talked>>
  <2>1. talks' = [talks EXCEPT ![r].at = "read"]
    BY DEF Discussing!InsertConfirmation
  <2> QED BY <2>1 DEF Discussing!InsertConfirmation
<1>2. talks[r] \in TalkRows /\ TalkHolds(talks[r])
  BY <1>1, TalkRow
<1>3. PICK q \in TalkRows : q = talks[r]
  BY <1>2
<1>4. /\ q.member \in Accounts /\ q.time \in Nat /\ q.time <= now /\ now \in 0..MaxNow
      /\ q.key \in 1..MaxBegun /\ q.kind = "confirm"
  BY <1>1, <1>2, <1>3, TalkFields DEF TalkHolds, TalkInv, OthersHold
<1>5. PICK t \in q.time..now :
        confirmations' = IF confirmations[q.member] # Discussing!Never THEN confirmations
                         ELSE [confirmations EXCEPT ![q.member] = t]
  BY <1>3 DEF Discussing!InsertConfirmation
<1>6. t \in Nat /\ t \in Discussing!Never..MaxNow /\ t # Discussing!Never
  BY <1>4, <1>5, TalkConstants DEF Discussing!Never
<1>7. confirmations \in [Accounts -> Discussing!Never..MaxNow]
  BY DEF TalkInv, OthersHold, Discussing!ConfirmationRows
<1>8. /\ confirmations' \in [Accounts -> Discussing!Never..MaxNow]
      /\ \A m \in Accounts : confirmations[m] # Discussing!Never => confirmations'[m] = confirmations[m]
      /\ confirmations'[q.member] # Discussing!Never
  BY <1>4, <1>5, <1>6, <1>7
<1>9. TablesGoOn
  BY <1>1, <1>4, <1>8, TalkConstants DEF TablesGoOn
<1>10. PICK new : new = [q EXCEPT !.at = "read"]
  OBVIOUS
<1>11. Reaches(q, "read", q.key, new)
  BY <1>4, <1>10, StageIsReached DEF TalkStages
<1>12. TalkHolds(new)'
  BY <1>1, <1>4, <1>8, <1>11 DEF Reaches, TalkHolds, Attaches
<1>13. TalkStep
  BY <1>1, <1>3, <1>4, <1>10, <1>11, <1>12, Reached DEF TalkStages
<1>14. visible' \in BOOLEAN
  BY <1>1 DEF TalkInv, OthersHold
<1>15. ContributionsHold' /\ UploadsHold'
  BY <1>1, <1>9, ContributionsGoOn DEF TalkInv, UploadsHold
<1> QED BY <1>1, <1>8, <1>9, <1>13, <1>14, <1>15, TalkInvGoesOn
        DEF TalkInv, OthersHold, Discussing!ConfirmationRows

LEMMA ReadConfirmationHolds ==
    ASSUME TalkInv, NEW r \in Requests, Discussing!ReadConfirmation(r)
    PROVE  TalkInv'
<1>1. /\ talks[r].at = "read" /\ Discussing!Finish(r, confirmations[talks[r].member])
      /\ talks[r].kind = "confirm"
      /\ UNCHANGED <<now, visible, confirmations, sessions, contributions, uploads, talked>>
  BY DEF Discussing!ReadConfirmation
<1>2. confirmations[talks[r].member] # Discussing!Never
  BY <1>1, TalkRow DEF TalkHolds
<1>3. /\ \A a \in answers' : a \in answers \/ AnswerHolds(a)'
      /\ talks' = [talks EXCEPT ![r] = Discussing!Idle]
  BY <1>1, <1>2, Answers
<1>4. TalkStep
  BY <1>1, <1>3, Finishes
<1> QED BY <1>1, <1>3, <1>4, OnlyRequestsMove DEF TalkInv, OthersHold

LEMMA InsertUploadHolds ==
    ASSUME TalkInv, NEW r \in Requests, Discussing!InsertUpload(r)
    PROVE  TalkInv'
<1>1. /\ talks[r].at = "insert" /\ talks[r].kind = "upload"
      /\ talks' = [talks EXCEPT ![r] = Discussing!Idle]
      /\ UNCHANGED <<now, visible, confirmations, sessions, contributions, answers, talked>>
  BY DEF Discussing!InsertUpload
<1>2. talks[r] \in TalkRows /\ TalkHolds(talks[r])
  BY <1>1, TalkRow
<1>3. PICK q \in TalkRows : q = talks[r]
  BY <1>2
<1>4. PICK row : row = [owner |-> q.member, status |-> "pending", expires |-> now + MediaLife]
  OBVIOUS
<1>5. uploads' = [uploads EXCEPT ![q.medium] = row]
  BY <1>3, <1>4 DEF Discussing!InsertUpload
<1>6. now \in Nat /\ q.member \in Accounts
  BY <1>3, TalkFields, TalkConstants DEF TalkInv, OthersHold
<1>7. row \in Discussing!UploadRows /\ row.status = "pending"
  BY <1>4, <1>6, TalkConstants DEF Discussing!UploadRows
<1>8. q.medium \in Media /\ uploads[q.medium] = Discussing!NoUpload
  BY <1>1, <1>2, <1>3 DEF TalkHolds
<1>9. uploads \in [Media -> Discussing!UploadRows \cup {Discussing!NoUpload}]
  BY DEF TalkInv, UploadsHold
<1>10. /\ uploads' \in [Media -> Discussing!UploadRows \cup {Discussing!NoUpload}]
       /\ \A u \in Media : uploads'[u] = IF u = q.medium THEN row ELSE uploads[u]
  BY <1>5, <1>7, <1>8, <1>9
<1>11. TablesGoOn
  BY <1>1, <1>6, <1>8, <1>10, TalkNames DEF TablesGoOn
<1>12. \A s \in Requests : s # r /\ talks[s].kind = "upload" => uploads'[talks[s].medium] = uploads[talks[s].medium]
  <2>1. ASSUME NEW s \in Requests, s # r, talks[s].kind = "upload"
        PROVE  talks[s].medium \in Media /\ talks[s].medium # q.medium
    <3>1. TalkHolds(talks[s])
      BY <2>1, TalkNames DEF TalkInv, TalksHold, TalkKinds
    <3> QED BY <2>1, <3>1, <1>1, <1>3 DEF TalkInv, UploadsInFlight, TalkHolds
  <2> QED BY <2>1, <1>10
<1>13. TalkStep
  BY <1>1, <1>12, Finishes
<1>14. UploadsHold'
  BY <1>1, <1>7, <1>10 DEF TalkInv, UploadsHold
<1>15. visible' \in BOOLEAN
  BY <1>1 DEF TalkInv, OthersHold
<1>16. ContributionsHold'
  BY <1>1, <1>11, ContributionsGoOn
<1> QED BY <1>1, <1>11, <1>13, <1>14, <1>15, <1>16, TalkInvGoesOn DEF TalkInv, OthersHold

LEMMA FindAttachableHolds ==
    ASSUME TalkInv, NEW r \in Requests, Discussing!FindAttachable(r)
    PROVE  TalkInv'
<1>1. /\ talks[r].at = "medium"
      /\ UNCHANGED <<now, visible, confirmations, sessions, contributions, uploads, answers, talked>>
      /\ talks' = [talks EXCEPT ![r] =
           IF Discussing!Attachable(talks[r].medium, talks[r].member)
           THEN [talks[r] EXCEPT !.at = "ensure"] ELSE Discussing!Idle]
  BY DEF Discussing!FindAttachable
<1>2. talks[r] \in TalkRows /\ TalkHolds(talks[r])
  BY <1>1, TalkRow
<1>3. PICK q \in TalkRows : q = talks[r]
  BY <1>2
<1>4. TalkStep
  <2>1. CASE Discussing!Attachable(q.medium, q.member)
    <3>1. PICK new : new = [q EXCEPT !.at = "ensure"]
      OBVIOUS
    <3>2. talks' = [talks EXCEPT ![r] = new]
      BY <1>1, <1>3, <2>1, <3>1
    <3>3. q.key \in 1..MaxBegun
      BY TalkFields
    <3>4. Reaches(q, "ensure", q.key, new)
      BY <3>1, <3>3, StageIsReached DEF TalkStages
    <3>5. q.medium \in Media /\ Attaches(q) /\ q.time <= now
      BY <1>1, <1>2, <1>3 DEF TalkHolds
    <3>6. uploads[q.medium] \in Discussing!UploadRows /\ uploads[q.medium].owner = q.member
      BY <2>1, <3>5, TalkNames DEF TalkInv, UploadsHold, Discussing!Attachable, None
    <3>7. TalkHolds(new)'
      BY <1>1, <3>4, <3>5, <3>6 DEF Reaches, TalkHolds, Attaches
    <3>8. talks[r].kind # "upload"
      BY <1>3, <3>5 DEF Attaches
    <3> QED BY <1>1, <1>3, <3>2, <3>3, <3>4, <3>7, <3>8, Reached DEF TalkStages
  <2>2. CASE ~Discussing!Attachable(q.medium, q.member)
    <3>1. talks' = [talks EXCEPT ![r] = Discussing!Idle]
      BY <1>1, <1>3, <2>2
    <3> QED BY <1>1, <3>1, Finishes
  <2> QED BY <2>1, <2>2
<1> QED BY <1>1, <1>4, OnlyRequestsMove DEF TalkInv, OthersHold

LEMMA EnsureSessionHolds ==
    ASSUME TalkInv, NEW r \in Requests, Discussing!EnsureSession(r)
    PROVE  TalkInv'
<1>1. /\ talks[r].at = "ensure"
      /\ sessions' = IF sessions = {} THEN {talks[r].key} ELSE sessions
      /\ talks' = [talks EXCEPT ![r] = [talks[r] EXCEPT !.at = "session"]]
      /\ UNCHANGED <<now, visible, confirmations, contributions, uploads, answers, talked>>
  <2>1. talks' = [talks EXCEPT ![r].at = "session"]
    BY DEF Discussing!EnsureSession
  <2> QED BY <2>1 DEF Discussing!EnsureSession
<1>2. talks[r] \in TalkRows /\ TalkHolds(talks[r])
  BY <1>1, TalkRow
<1>3. PICK q \in TalkRows : q = talks[r]
  BY <1>2
<1>4. q.key \in 1..MaxBegun /\ q.kind \in {"read", "contribute"} /\ q.time <= now
  BY <1>1, <1>2, <1>3, TalkFields DEF TalkHolds
<1>5. /\ sessions = {} \/ sessions' = sessions
      /\ sessions' = {} \/ \E s \in 1..MaxBegun : sessions' = {s}
  BY <1>1, <1>3, <1>4 DEF TalkInv, OthersHold
<1>6. TablesGoOn
  BY <1>1, <1>5, TalkConstants DEF TalkInv, OthersHold, TablesGoOn
<1>7. PICK new : new = [q EXCEPT !.at = "session"]
  OBVIOUS
<1>8. Reaches(q, "session", q.key, new)
  BY <1>4, <1>7, StageIsReached DEF TalkStages
<1>9. TalkHolds(new)'
  <2>1. q.at = "ensure" /\ TalkHolds(q)
    BY <1>1, <1>2, <1>3
  <2>2. q.kind # "upload" /\ Attaches(q)' = Attaches(q) /\ Attaches(new)' = Attaches(q)
    BY <1>4, <1>8 DEF Attaches, Reaches
  <2> QED BY <1>1, <1>4, <1>8, <2>1, <2>2 DEF Reaches, TalkHolds
<1>10. TalkStep
  BY <1>1, <1>3, <1>4, <1>7, <1>8, <1>9, Reached DEF TalkStages
<1>11. visible' \in BOOLEAN
  BY <1>1 DEF TalkInv, OthersHold
<1>12. ContributionsHold' /\ UploadsHold'
  BY <1>1, <1>6, ContributionsGoOn DEF TalkInv, UploadsHold
<1> QED BY <1>1, <1>5, <1>6, <1>10, <1>11, <1>12, TalkInvGoesOn DEF TalkInv, OthersHold

LEMMA FindSessionHolds ==
    ASSUME TalkInv, NEW r \in Requests, Discussing!FindSession(r)
    PROVE  TalkInv'
<1>1. /\ talks[r].at = "session"
      /\ UNCHANGED <<now, visible, confirmations, sessions, contributions, uploads, talked>>
  BY DEF Discussing!FindSession
<1>2. talks[r] \in TalkRows /\ TalkHolds(talks[r]) /\ talks[r].kind \in {"read", "contribute"}
  BY <1>1, TalkRow DEF TalkHolds
<1>3. PICK s \in sessions :
        IF talks[r].kind = "read" THEN Discussing!Finish(r, s)
        ELSE talks' = [talks EXCEPT ![r].at = "insert", ![r].key = s] /\ UNCHANGED answers
  BY DEF Discussing!FindSession
<1>4. sessions = {s} /\ s \in 1..MaxBegun
  BY DEF TalkInv, OthersHold
<1>5. CASE talks[r].kind = "read"
  <2>1. /\ \A a \in answers' : a \in answers \/ AnswerHolds(a)'
        /\ talks' = [talks EXCEPT ![r] = Discussing!Idle]
    BY <1>1, <1>3, <1>4, <1>5, Answers
  <2>2. TalkStep
    BY <1>1, <2>1, Finishes
  <2> QED BY <1>1, <2>1, <2>2, OnlyRequestsMove DEF TalkInv, OthersHold
<1>6. CASE talks[r].kind = "contribute"
  <2>1. PICK q \in TalkRows : q = talks[r]
    BY <1>2
  <2>2. PICK new : new = [q EXCEPT !.at = "insert", !.key = s]
    OBVIOUS
  <2>3. talks' = [talks EXCEPT ![r] = new] /\ UNCHANGED answers
    BY <1>3, <1>6, <2>1, <2>2
  <2>4. Reaches(q, "insert", s, new)
    BY <1>4, <2>2, StageIsReached DEF TalkStages
  <2>5. TalkHolds(new)'
    <3>1. TalkHolds(q) /\ q.at = "session" /\ q.kind = "contribute"
      BY <1>1, <1>2, <1>6, <2>1
    <3> QED BY <1>1, <1>4, <2>4, <3>1 DEF Reaches, TalkHolds, Attaches
  <2>6. TalkStep
    BY <1>1, <1>4, <1>6, <2>1, <2>3, <2>4, <2>5, Reached DEF TalkStages
  <2> QED BY <1>1, <2>3, <2>6, OnlyRequestsMove DEF TalkInv, OthersHold
<1> QED BY <1>2, <1>5, <1>6

\* A contribution is added, of the session and with the medium of its request.
LEMMA AppendHolds ==
    ASSUME TalkInv, TablesGoOn, NEW q \in TalkRows, TalkHolds(q), q.kind = "contribute", q.at = "insert",
           UNCHANGED <<sessions, uploads>>,
           q.medium # None => \A i \in DOMAIN contributions : contributions[i].medium # q.medium,
           NEW c, c = [author |-> q.member, session |-> q.key, medium |-> q.medium, hidden |-> FALSE],
           contributions' = Append(contributions, c)
    PROVE  /\ ContributionsHold' /\ UploadsHold'
           /\ \E i \in DOMAIN contributions' : contributions'[i].medium = q.medium
<1>1. c.author = q.member /\ c.session = q.key /\ c.medium = q.medium /\ c.hidden = FALSE
  OBVIOUS
<1>2. c \in Discussing!ContributionRows
  <2>1. c.hidden \in BOOLEAN
    BY <1>1
  <2>2. q.member \in Accounts /\ q.key \in Nat /\ q.medium \in Media \cup {None}
    BY TalkFields
  <2> QED BY <2>1, <2>2 DEF Discussing!ContributionRows, Discussing!None, None
<1>3. contributions \in Seq(Discussing!ContributionRows) /\ Len(contributions) \in Nat
  BY DEF TalkInv, ContributionsHold
<1>4. /\ contributions' \in Seq(Discussing!ContributionRows)
      /\ Len(contributions') = Len(contributions) + 1
      /\ \A i \in 1..Len(contributions) : contributions'[i] = contributions[i]
      /\ contributions'[Len(contributions) + 1] = c
  BY <1>2, <1>3
<1>5. DOMAIN contributions = 1..Len(contributions) /\ DOMAIN contributions' = 1..(Len(contributions) + 1)
  BY <1>3, <1>4
<1>6. ContributionHolds(c)'
  BY <1>1 DEF TalkHolds, Attaches, ContributionHolds
<1>7. ASSUME NEW i \in DOMAIN contributions', NEW d, d = contributions'[i]
      PROVE  ContributionHolds(d)'
  <2>1. CASE i = Len(contributions) + 1
    <3>1. d = c
      BY <1>4, <1>7, <2>1
    <3> QED BY <1>6, <3>1
  <2>2. CASE i # Len(contributions) + 1
    <3>1. i \in DOMAIN contributions /\ d = contributions[i]
      BY <1>3, <1>4, <1>5, <1>7, <2>2
    <3>2. ContributionHolds(d)
      BY <3>1 DEF TalkInv, ContributionsHold
    <3> QED BY <3>2 DEF ContributionHolds
  <2> QED BY <2>1, <2>2
<1>8. ASSUME NEW i \in DOMAIN contributions', NEW j \in DOMAIN contributions', contributions'[i].medium # None,
             contributions'[j].medium = contributions'[i].medium
      PROVE  i = j
  <2>1. \A k \in DOMAIN contributions' : k = Len(contributions) + 1 \/ k \in DOMAIN contributions
    BY <1>3, <1>5
  <2>2. \A k, l \in DOMAIN contributions :
          contributions[k].medium # None /\ contributions[l].medium = contributions[k].medium => k = l
    BY DEF TalkInv, ContributionsHold
  <2> QED BY <1>1, <1>4, <1>5, <1>8, <2>1, <2>2
<1>9. ContributionsHold'
  BY <1>4, <1>7, <1>8 DEF ContributionsHold
<1>10. \A i \in DOMAIN contributions : i \in DOMAIN contributions' /\ contributions'[i] = contributions[i]
  BY <1>3, <1>4, <1>5
<1>11. UploadsHold'
  BY <1>10 DEF TalkInv, UploadsHold
<1>12. contributions'[Len(contributions) + 1].medium = q.medium /\ Len(contributions) + 1 \in DOMAIN contributions'
  BY <1>1, <1>3, <1>4, <1>5
<1> QED BY <1>9, <1>11, <1>12

LEMMA AppendGoesOn ==
    ASSUME TalkInv, NEW c, contributions' = Append(contributions, c),
           UNCHANGED <<now, confirmations, sessions, uploads>>
    PROVE  TablesGoOn
<1>1. contributions \in Seq(Discussing!ContributionRows)
  BY DEF TalkInv, ContributionsHold
<1>2. \A i \in DOMAIN contributions : i \in DOMAIN contributions' /\ contributions'[i] = contributions[i]
  <2>1. DOMAIN contributions = 1..Len(contributions) /\ Len(contributions) \in Nat
    BY <1>1
  <2>2. DOMAIN contributions' = 1..(Len(contributions) + 1)
    BY <1>1, <2>1
  <2> QED BY <1>1, <2>1, <2>2
<1> QED BY <1>2, TalkConstants DEF TalkInv, OthersHold, TablesGoOn

LEMMA InsertContributionHolds ==
    ASSUME TalkInv, NEW r \in Requests, Discussing!InsertContribution(r)
    PROVE  TalkInv'
<1>1. /\ talks[r].at = "insert" /\ talks[r].kind = "contribute"
      /\ UNCHANGED <<now, visible, confirmations, sessions, uploads, talked>>
  BY DEF Discussing!InsertContribution
<1>2. talks[r] \in TalkRows /\ TalkHolds(talks[r])
  BY <1>1, TalkRow
<1>3. PICK q \in TalkRows : q = talks[r]
  BY <1>2
<1>4. q.kind = "contribute" /\ q.at = "insert" /\ TalkHolds(q) /\ sessions = {q.key} /\ q.key \in 1..MaxBegun
  BY <1>1, <1>2, <1>3, TalkFields DEF TalkHolds
<1>5. CASE /\ talks' = [talks EXCEPT ![r] = Discussing!Idle] /\ UNCHANGED <<contributions, answers>>
  <2>1. TalkStep
    BY <1>1, <1>5, Finishes
  <2> QED BY <1>1, <1>5, <2>1, OnlyRequestsMove DEF TalkInv, OthersHold
<1>6. ASSUME ~(talks[r].medium # None /\ \E i \in DOMAIN contributions : contributions[i].medium = talks[r].medium),
             contributions' = Append(contributions, [author |-> talks[r].member, session |-> talks[r].key,
                                                     medium |-> talks[r].medium, hidden |-> FALSE]),
             IF talks[r].medium = None THEN Discussing!Finish(r, talks[r].key)
             ELSE talks' = [talks EXCEPT ![r].at = "mark"] /\ UNCHANGED answers
      PROVE  TalkInv'
  <2>1. PICK c : c = [author |-> q.member, session |-> q.key, medium |-> q.medium, hidden |-> FALSE]
    OBVIOUS
  <2>2. contributions' = Append(contributions, c)
    BY <1>3, <1>6, <2>1
  <2>3. TablesGoOn
    BY <1>1, <2>2, AppendGoesOn
  <2>4. q.medium # None => \A i \in DOMAIN contributions : contributions[i].medium # q.medium
    BY <1>3, <1>6
  <2>5. /\ ContributionsHold' /\ UploadsHold'
        /\ \E i \in DOMAIN contributions' : contributions'[i].medium = q.medium
    BY <1>1, <1>4, <2>1, <2>2, <2>3, <2>4, AppendHolds
  <2>6. TalkStep /\ \A a \in answers' : a \in answers \/ AnswerHolds(a)'
    <3>1. CASE q.medium = None
      <4>1. Discussing!Finish(r, q.key)
        BY <1>3, <1>6, <3>1
      <4>2. /\ \A a \in answers' : a \in answers \/ AnswerHolds(a)'
            /\ talks' = [talks EXCEPT ![r] = Discussing!Idle]
        BY <1>1, <1>3, <1>4, <4>1, Answers
      <4> QED BY <1>1, <4>2, Finishes
    <3>2. CASE q.medium # None
      <4>1. talks' = [talks EXCEPT ![r] = [q EXCEPT !.at = "mark"]] /\ UNCHANGED answers
        <5>1. talks' = [talks EXCEPT ![r].at = "mark"] /\ UNCHANGED answers
          BY <1>3, <1>6, <3>2
        <5> QED BY <5>1, <1>3
      <4>2. PICK new : new = [q EXCEPT !.at = "mark"]
        OBVIOUS
      <4>3. Reaches(q, "mark", q.key, new)
        BY <1>4, <4>2, StageIsReached DEF TalkStages
      <4>4. TalkHolds(new)'
        BY <1>1, <1>4, <2>5, <3>2, <4>3 DEF Reaches, TalkHolds, Attaches
      <4> QED BY <1>1, <1>3, <1>4, <4>1, <4>2, <4>3, <4>4, Reached DEF TalkStages
    <3> QED BY <3>1, <3>2
  <2>7. visible' \in BOOLEAN
    BY <1>1 DEF TalkInv, OthersHold
  <2> QED BY <1>1, <2>3, <2>5, <2>6, <2>7, TalkInvGoesOn DEF TalkInv, OthersHold
<1>7. Discussing!None = None
  BY TalkNames
<1> QED BY <1>5, <1>6, <1>7 DEF Discussing!InsertContribution

LEMMA MarkAttachedHolds ==
    ASSUME TalkInv, NEW r \in Requests, Discussing!MarkAttached(r)
    PROVE  TalkInv'
<1>1. /\ talks[r].at = "mark" /\ Discussing!Finish(r, talks[r].key)
      /\ UNCHANGED <<now, visible, confirmations, sessions, contributions, talked>>
  BY DEF Discussing!MarkAttached
<1>2. talks[r] \in TalkRows /\ TalkHolds(talks[r])
  BY <1>1, TalkRow
<1>3. PICK q \in TalkRows : q = talks[r]
  BY <1>2
<1>4. /\ q.kind = "contribute" /\ q.medium \in Media /\ sessions = {q.key}
      /\ uploads[q.medium] \in Discussing!UploadRows
      /\ \E i \in DOMAIN contributions : contributions[i].medium = q.medium
  BY <1>1, <1>2, <1>3 DEF TalkHolds, Attaches
<1>5. PICK row \in Discussing!UploadRows : row = uploads[q.medium]
  BY <1>4
<1>6. PICK new : new = [row EXCEPT !.status = "attached"]
  OBVIOUS
<1>7. new \in Discussing!UploadRows /\ new.owner = row.owner
  BY <1>6 DEF Discussing!UploadRows
<1>8. uploads' = [uploads EXCEPT ![q.medium] = new]
  <2>1. uploads' = [uploads EXCEPT ![q.medium].status = "attached"]
    BY <1>3 DEF Discussing!MarkAttached
  <2> QED BY <1>5, <1>6, <2>1
<1>9. uploads \in [Media -> Discussing!UploadRows \cup {Discussing!NoUpload}]
  BY DEF TalkInv, UploadsHold
<1>10. /\ uploads' \in [Media -> Discussing!UploadRows \cup {Discussing!NoUpload}]
       /\ \A u \in Media : uploads'[u] = IF u = q.medium THEN new ELSE uploads[u]
  BY <1>4, <1>7, <1>8, <1>9
<1>11. TablesGoOn
  BY <1>1, <1>5, <1>7, <1>10, TalkConstants DEF TablesGoOn, TalkInv, OthersHold
<1>12. \A s \in Requests : talks[s].kind = "upload" => uploads'[talks[s].medium] = uploads[talks[s].medium]
  <2>1. ASSUME NEW s \in Requests, talks[s].kind = "upload"
        PROVE  talks[s].medium \in Media /\ talks[s].medium # q.medium
    <3>1. TalkHolds(talks[s])
      BY <2>1, TalkNames DEF TalkInv, TalksHold, TalkKinds
    <3> QED BY <2>1, <3>1, <1>4, TalkNames DEF TalkHolds
  <2> QED BY <2>1, <1>10
<1>13. /\ \A a \in answers' : a \in answers \/ AnswerHolds(a)'
       /\ talks' = [talks EXCEPT ![r] = Discussing!Idle]
  BY <1>1, <1>3, <1>4, Answers
<1>14. TalkStep
  BY <1>12, <1>13, Finishes
<1>15. UploadsHold'
  BY <1>1, <1>4, <1>10 DEF TalkInv, UploadsHold
<1>16. visible' \in BOOLEAN
  BY <1>1 DEF TalkInv, OthersHold
<1>17. ContributionsHold'
  BY <1>1, <1>11, ContributionsGoOn
<1> QED BY <1>1, <1>11, <1>13, <1>14, <1>15, <1>16, <1>17, TalkInvGoesOn DEF TalkInv, OthersHold

LEMMA StreamMediumHolds ==
    ASSUME TalkInv, NEW r \in Requests, Discussing!StreamMedium(r)
    PROVE  TalkInv'
<1>1. /\ talks[r].at = "find" /\ talks[r].kind = "fetch"
      /\ UNCHANGED <<now, visible, confirmations, sessions, contributions, uploads, talked>>
  BY DEF Discussing!StreamMedium
<1>2. ASSUME NEW value, Discussing!Finish(r, value) PROVE TalkInv'
  <2>1. /\ \A a \in answers' : a \in answers \/ AnswerHolds(a)'
        /\ talks' = [talks EXCEPT ![r] = Discussing!Idle]
    BY <1>1, <1>2, Answers
  <2>2. TalkStep
    BY <1>1, <2>1, Finishes
  <2> QED BY <1>1, <2>1, <2>2, OnlyRequestsMove DEF TalkInv, OthersHold
<1>3. CASE talks' = [talks EXCEPT ![r] = Discussing!Idle] /\ UNCHANGED answers
  <2>1. TalkStep
    BY <1>1, <1>3, Finishes
  <2> QED BY <1>1, <1>3, <2>1, OnlyRequestsMove DEF TalkInv, OthersHold
<1>4. \/ \E value : Discussing!Finish(r, value)
      \/ talks' = [talks EXCEPT ![r] = Discussing!Idle] /\ UNCHANGED answers
  BY DEF Discussing!StreamMedium
<1> QED BY <1>2, <1>3, <1>4

LEMMA LoseHolds ==
    ASSUME TalkInv, NEW r \in Requests, Discussing!Lose(r)
    PROVE  TalkInv'
<1>1. /\ talks' = [talks EXCEPT ![r] = Discussing!Idle]
      /\ UNCHANGED <<now, visible, confirmations, sessions, contributions, uploads, answers, talked>>
  BY DEF Discussing!Lose
<1>2. TalkStep
  BY <1>1, Finishes
<1> QED BY <1>1, <1>2, OnlyRequestsMove DEF TalkInv, OthersHold

\* Operators hide contributions, which keep all the rest.
LEMMA HideContributionHolds ==
    ASSUME TalkInv, Discussing!HideContribution
    PROVE  TalkInv'
<1>1. UNCHANGED <<now, visible, confirmations, sessions, uploads, talks, answers, talked>>
  BY DEF Discussing!HideContribution
<1>2. PICK i \in DOMAIN contributions : contributions' = [contributions EXCEPT ![i].hidden = TRUE]
  BY DEF Discussing!HideContribution
<1>3. contributions \in Seq(Discussing!ContributionRows)
  BY DEF TalkInv, ContributionsHold
<1>4. PICK c \in Discussing!ContributionRows : c = contributions[i]
  BY <1>3
<1>5. PICK new : new = [c EXCEPT !.hidden = TRUE]
  OBVIOUS
<1>6. /\ new \in Discussing!ContributionRows /\ new.author = c.author /\ new.session = c.session
      /\ new.medium = c.medium
  <2>1. TRUE \in BOOLEAN
    OBVIOUS
  <2> QED BY <1>5, <2>1 DEF Discussing!ContributionRows
<1>7. contributions' = [contributions EXCEPT ![i] = new]
  BY <1>2, <1>4, <1>5
<1>8. /\ contributions' \in Seq(Discussing!ContributionRows) /\ DOMAIN contributions' = DOMAIN contributions
      /\ \A k \in DOMAIN contributions : contributions'[k] = IF k = i THEN new ELSE contributions[k]
  BY <1>3, <1>6, <1>7
<1>9. \A k \in DOMAIN contributions : /\ contributions'[k].medium = contributions[k].medium
                                      /\ contributions'[k].author = contributions[k].author
                                      /\ contributions'[k].session = contributions[k].session
  BY <1>4, <1>6, <1>8
<1>10. TablesGoOn
  BY <1>1, <1>8, <1>9, TalkConstants DEF TalkInv, OthersHold, TablesGoOn
<1>11. ContributionsHold'
  <2>1. \A k \in DOMAIN contributions' : ContributionHolds(contributions[k])
    BY <1>8 DEF TalkInv, ContributionsHold
  <2>2. ASSUME NEW k \in DOMAIN contributions', NEW d, d = contributions'[k]
        PROVE  ContributionHolds(d)'
    BY <1>1, <1>8, <1>9, <2>1, <2>2 DEF ContributionHolds
  <2>3. ASSUME NEW k \in DOMAIN contributions', NEW l \in DOMAIN contributions',
               contributions'[k].medium # None, contributions'[l].medium = contributions'[k].medium
        PROVE  k = l
    BY <1>8, <1>9, <2>3 DEF TalkInv, ContributionsHold
  <2> QED BY <1>8, <2>2, <2>3 DEF ContributionsHold
<1>12. UploadsHold'
  BY <1>1, <1>8, <1>9 DEF TalkInv, UploadsHold
<1>13. visible' \in BOOLEAN
  BY <1>1 DEF TalkInv, OthersHold
<1>14. TalkStep
  BY <1>1 DEF TalkStep
<1> QED BY <1>1, <1>10, <1>11, <1>12, <1>13, <1>14, TalkInvGoesOn DEF TalkInv, OthersHold

\* Time passes, or the signal is hidden.
LEMMA TalkWaits ==
    ASSUME TalkInv, UNCHANGED <<confirmations, sessions, contributions, uploads, talks, answers, talked>>,
           now' \in 0..MaxNow, now <= now', visible' \in BOOLEAN
    PROVE  TalkInv'
<1>1. TablesGoOn
  BY TalkConstants DEF TalkInv, OthersHold, TablesGoOn
<1>2. TalkStep
  BY DEF TalkStep
<1>3. ContributionsHold' /\ UploadsHold'
  BY <1>1, ContributionsGoOn DEF TalkInv, UploadsHold
<1> QED BY <1>1, <1>2, <1>3, TalkInvGoesOn DEF TalkInv, OthersHold

LEMMA TalkSteps == TalkInv /\ [Discussing!Next]_Discussing!vars => TalkInv'
<1> SUFFICES ASSUME TalkInv, [Discussing!Next]_Discussing!vars PROVE TalkInv'
  OBVIOUS
<1>0. now \in 0..MaxNow /\ visible \in BOOLEAN
  BY DEF TalkInv, OthersHold
<1>1. CASE Discussing!Tick
  <2>1. now' = now + 1 /\ now < MaxNow /\ visible' = visible
        /\ UNCHANGED <<confirmations, sessions, contributions, uploads, talks, answers, talked>>
    BY <1>1 DEF Discussing!Tick
  <2>2. visible' \in BOOLEAN
    BY <1>0, <2>1
  <2>3. now' \in 0..MaxNow /\ now <= now'
    BY <1>0, <2>1, TalkConstants
  <2> QED BY <2>1, <2>2, <2>3, TalkWaits
<1>2. CASE Discussing!HideSignal
  <2>1. visible' = FALSE /\ UNCHANGED <<now, confirmations, sessions, contributions, uploads, talks, answers, talked>>
    BY <1>2 DEF Discussing!HideSignal
  <2>2. visible' \in BOOLEAN
    BY <2>1
  <2> QED BY <1>0, <2>1, <2>2, TalkWaits
<1>3. CASE UNCHANGED Discussing!vars
  <2>1. UNCHANGED <<now, visible, confirmations, sessions, contributions, uploads, talks, answers, talked>>
    BY <1>3 DEF Discussing!vars
  <2>2. visible' \in BOOLEAN
    BY <1>0, <2>1
  <2> QED BY <1>0, <2>1, <2>2, TalkWaits
<1>4. CASE Discussing!HideContribution
  BY <1>4, HideContributionHolds
<1>5. ASSUME NEW r \in Requests, NEW m \in Accounts,
             \/ Discussing!ConfirmSignal(r, m) \/ Discussing!ReadSession(r, m) \/ Discussing!FetchMedium(r, m)
             \/ Discussing!Contribute(r, m, Discussing!None)
             \/ \E u \in Media : Discussing!UploadMedium(r, m, u) \/ Discussing!Contribute(r, m, u)
      PROVE  TalkInv'
  BY <1>5, BeginsHold, TalkNames
<1>6. ASSUME NEW r \in Requests,
             \/ Discussing!InsertConfirmation(r) \/ Discussing!ReadConfirmation(r)
             \/ Discussing!InsertUpload(r) \/ Discussing!FindAttachable(r) \/ Discussing!EnsureSession(r)
             \/ Discussing!FindSession(r) \/ Discussing!InsertContribution(r) \/ Discussing!MarkAttached(r)
             \/ Discussing!StreamMedium(r) \/ Discussing!Lose(r)
      PROVE  TalkInv'
  BY <1>6, InsertConfirmationHolds, ReadConfirmationHolds, InsertUploadHolds, FindAttachableHolds,
     EnsureSessionHolds, FindSessionHolds, InsertContributionHolds, MarkAttachedHolds, StreamMediumHolds,
     LoseHolds
<1> QED BY <1>1, <1>2, <1>3, <1>4, <1>5, <1>6 DEF Discussing!Next

LEMMA TalkInvariant == Discussing!Spec => []TalkInv
BY TalkStarts, TalkSteps, PTL DEF Discussing!Spec

-----------------------------------------------------------------------------
(* Contesting a mandate.                                                     *)

Ballots == {"deliberation", "ballot_preparation", "voting", "mandate"}
JobRows == [kind : {"contest"}, by : Accounts, at : {"check", "insert"}, found : Ballots, asked : Nat]
           \cup [kind : {"resolve"}, by : Accounts, at : Contesting!Outcomes, found : Ballots, asked : Nat]

BallotHolds ==
    /\ now \in 0..MaxNow
    /\ stage \in Ballots /\ cycle \in 1..(MaxCycle + 1) /\ closesAt \in Nat /\ quorate \in BOOLEAN
    /\ stage # "deliberation" => cycle <= MaxCycle
    /\ eligible \subseteq Accounts \X (1..(MaxCycle + 1))

FilingsHold == contestation \in Contesting!ContestationRows /\ Contesting!FilersCouldVote

\* A request that found the voting open came before its end, and before the end
\* of any voting that has been planned since.
JobHolds(j) ==
    /\ j.asked <= now
    /\ j.found = "voting" /\ stage \in {"ballot_preparation", "voting"} => j.asked < closesAt

JobsHold ==
    /\ job \in [Requests -> JobRows \cup {NoRequest}]
    /\ \A r \in Requests : job[r] # NoRequest /\ job[r].kind = "contest" => JobHolds(job[r])

ContestInv == BallotHolds /\ FilingsHold /\ JobsHold

LEMMA ContestConstants ==
    /\ FreezeWindow \in Nat /\ VotingWindow \in Nat /\ ContestationWindow \in Nat
    /\ MaxCycle \in Nat /\ MaxNow \in Nat /\ VotingWindow > 0
BY CommunityAssumption DEF Contesting!ContestationAssumption

LEMMA JobFields ==
    ASSUME NEW j \in JobRows
    PROVE  /\ j.by \in Accounts /\ j.kind \in {"contest", "resolve"} /\ j.found \in Ballots /\ j.asked \in Nat
           /\ j.kind = "contest" => j.at \in {"check", "insert"}
           /\ j.kind = "resolve" => j.at \in Contesting!Outcomes
BY DEF JobRows

\* The invariant says as much as the type invariant and FilersCouldVote.
LEMMA ContestInvImplies ==
    ASSUME ContestInv
    PROVE  Contesting!TypeOK /\ Contesting!FilersCouldVote
<1>1. \A r \in Requests : job[r] # NoRequest => job[r] \in JobRows
  BY DEF ContestInv, JobsHold
<1>2. \A r \in Requests : job[r] # NoRequest => job[r].by \in Accounts /\ job[r].kind \in {"contest", "resolve"}
  BY <1>1, JobFields
<1> QED
  BY <1>2 DEF ContestInv, BallotHolds, FilingsHold, Contesting!TypeOK, Ballots

LEMMA ContestStarts == Contesting!Init => ContestInv
<1> SUFFICES ASSUME Contesting!Init PROVE ContestInv
  OBVIOUS
<1>1. BallotHolds
  <2>1. quorate = FALSE
    BY DEF Contesting!Init
  <2>2. quorate \in BOOLEAN
    BY <2>1
  <2> QED BY <2>2, ContestConstants DEF Contesting!Init, BallotHolds, Ballots
<1>2. FilingsHold
  BY DEF Contesting!Init, FilingsHold, Contesting!FilersCouldVote, Contesting!ContestationRows
<1>3. JobsHold
  BY DEF Contesting!Init, JobsHold
<1> QED BY <1>1, <1>2, <1>3 DEF ContestInv

\* What a request has found stays true of the ballot, if the ballot stays or is
\* planned anew.
BallotGoesOn ==
    /\ now' \in Nat /\ now <= now'
    /\ stage' \in {"ballot_preparation", "voting"} =>
         \/ stage \in {"ballot_preparation", "voting"} /\ closesAt' = closesAt
         \/ closesAt' \in Nat /\ closesAt' > now

\* A step that starts, moves or ends a request, or none.
JobStep ==
    \/ UNCHANGED job
    \/ \E r \in Requests : \E new : /\ job' = [job EXCEPT ![r] = new]
                                    /\ new \in JobRows \cup {NoRequest}
                                    /\ new # NoRequest /\ new.kind = "contest" => JobHolds(new)'

LEMMA JobGoesOn ==
    ASSUME NEW j, JobHolds(j), j.asked \in Nat, now \in Nat, closesAt \in Nat, BallotGoesOn
    PROVE  JobHolds(j)'
BY DEF JobHolds, BallotGoesOn

LEMMA JobsGoOn ==
    ASSUME JobsHold, now \in Nat, closesAt \in Nat, BallotGoesOn, JobStep
    PROVE  JobsHold'
<1>1. ASSUME NEW r \in Requests, NEW j, j = job[r], j # NoRequest, j.kind = "contest"
      PROVE  JobHolds(j)'
  <2>1. j.asked \in Nat /\ JobHolds(j)
    BY <1>1, JobFields DEF JobsHold
  <2> QED BY <2>1, JobGoesOn
<1>2. CASE UNCHANGED job
  <2>1. ASSUME NEW r \in Requests, NEW j, j = job[r], j # NoRequest, j.kind = "contest"
        PROVE  j = job'[r] /\ JobHolds(j)'
    BY <1>1, <1>2, <2>1
  <2> QED BY <2>1, <1>2 DEF JobsHold
<1>3. ASSUME NEW r \in Requests, NEW new \in JobRows \cup {NoRequest}, job' = [job EXCEPT ![r] = new],
             new # NoRequest /\ new.kind = "contest" => JobHolds(new)'
      PROVE  JobsHold'
  <2>1. \A s \in Requests : job'[s] = IF s = r THEN new ELSE job[s]
    BY <1>3 DEF JobsHold
  <2>2. job' \in [Requests -> JobRows \cup {NoRequest}]
    BY <1>3 DEF JobsHold
  <2>3. ASSUME NEW s \in Requests, NEW j, j = job'[s], j # NoRequest, j.kind = "contest"
        PROVE  JobHolds(j)'
    <3>1. CASE s = r
      <4>1. j = new
        BY <3>1, <2>1, <2>3
      <4> QED BY <4>1, <2>3, <1>3
    <3>2. CASE s # r
      <4>1. j = job[s]
        BY <3>2, <2>1, <2>3
      <4> QED BY <4>1, <2>3, <1>1
    <3> QED BY <3>1, <3>2
  <2> QED BY <2>2, <2>3 DEF JobsHold
<1> QED BY <1>2, <1>3 DEF JobStep

\* A step that files or decides.
FilingStep ==
    \/ UNCHANGED contestation
    \/ \E a \in Accounts : \E new \in {"pending"} \cup Contesting!Outcomes :
         /\ contestation' = [contestation EXCEPT ![a] = new]
         /\ UNCHANGED <<stage, cycle, eligible>>
         /\ contestation[a] # "none" \/ (stage = "mandate" /\ <<a, cycle>> \in eligible)

LEMMA FilingsGoOn ==
    ASSUME FilingsHold, FilingStep,
           UNCHANGED <<stage, cycle, eligible>> \/ (stage # "mandate" /\ UNCHANGED contestation)
    PROVE  FilingsHold'
<1>1. \A a \in Accounts : contestation[a] # "none" => stage = "mandate" /\ <<a, cycle>> \in eligible
  BY DEF FilingsHold, Contesting!FilersCouldVote, Contesting!MandateExists
<1>2. CASE UNCHANGED contestation
  <2>1. \A a \in Accounts : contestation'[a] # "none" => stage' = "mandate" /\ <<a, cycle'>> \in eligible'
    BY <1>1, <1>2
  <2> QED
    BY <2>1, <1>2 DEF FilingsHold, Contesting!FilersCouldVote, Contesting!MandateExists
<1>3. ASSUME NEW a \in Accounts, NEW new \in {"pending"} \cup Contesting!Outcomes,
             contestation' = [contestation EXCEPT ![a] = new], UNCHANGED <<stage, cycle, eligible>>,
             contestation[a] # "none" \/ (stage = "mandate" /\ <<a, cycle>> \in eligible)
      PROVE  FilingsHold'
  <2>1. contestation \in Contesting!ContestationRows
    BY DEF FilingsHold
  <2>2. contestation' \in Contesting!ContestationRows
    BY <2>1, <1>3 DEF Contesting!ContestationRows
  <2>3. \A b \in Accounts : b # a => contestation'[b] = contestation[b]
    BY <2>1, <1>3 DEF Contesting!ContestationRows
  <2>4. \A b \in Accounts : contestation'[b] # "none" => stage' = "mandate" /\ <<b, cycle'>> \in eligible'
    BY <1>1, <1>3, <2>3
  <2> QED
    BY <2>2, <2>4 DEF FilingsHold, Contesting!FilersCouldVote, Contesting!MandateExists
<1> QED BY <1>2, <1>3 DEF FilingStep

LEMMA BallotGoesNowhere ==
    ASSUME UNCHANGED <<stage, closesAt>>, now \in Nat, now' \in {now, now + 1}
    PROVE  BallotGoesOn
BY DEF BallotGoesOn

\* The ballot and the filings together decide what the invariant says.
LEMMA ContestGoesOn ==
    ASSUME ContestInv, BallotHolds', BallotGoesOn, JobStep, FilingStep,
           UNCHANGED <<stage, cycle, eligible>> \/ (stage # "mandate" /\ UNCHANGED contestation)
    PROVE  ContestInv'
<1>1. now \in Nat /\ closesAt \in Nat
  BY ContestConstants DEF ContestInv, BallotHolds
<1>2. FilingsHold' /\ JobsHold'
  BY <1>1, JobsGoOn, FilingsGoOn DEF ContestInv
<1> QED BY <1>2 DEF ContestInv

\* The first reader opens the voting, or closes it.
LEMMA OpeningHolds ==
    ASSUME ContestInv, Contesting!OpenVotingIfBallotPreparationElapsed,
           UNCHANGED <<now, cycle, closesAt, quorate>>
    PROVE  BallotHolds' /\ BallotGoesOn /\ stage # "mandate" /\ stage # "voting"
<1>1. stage = "ballot_preparation" /\ stage' = "voting"
  BY DEF Contesting!OpenVotingIfBallotPreparationElapsed, Contesting!OpeningDue
<1>2. PICK S \in SUBSET Accounts : eligible' = eligible \cup (S \X {cycle})
  BY DEF Contesting!OpenVotingIfBallotPreparationElapsed
<1>3. eligible' \subseteq Accounts \X (1..(MaxCycle + 1))
  BY <1>2 DEF ContestInv, BallotHolds
<1>4. quorate' \in BOOLEAN
  BY DEF ContestInv, BallotHolds
<1>5. BallotGoesOn
  BY <1>1, ContestConstants DEF ContestInv, BallotHolds, BallotGoesOn
<1> QED BY <1>1, <1>3, <1>4, <1>5 DEF ContestInv, BallotHolds, Ballots

LEMMA ClosingHolds ==
    ASSUME ContestInv, Contesting!CloseVotingWindowIfElapsed,
           UNCHANGED <<now, closesAt, quorate, eligible>>
    PROVE  BallotHolds' /\ BallotGoesOn /\ stage # "mandate" /\ stage' \in {"mandate", "deliberation"}
<1>1. stage = "voting"
  BY DEF Contesting!CloseVotingWindowIfElapsed, Contesting!ClosingDue
<1>2. \/ stage' = "mandate" /\ cycle' = cycle
      \/ stage' = "deliberation" /\ cycle' = cycle + 1
  BY DEF Contesting!CloseVotingWindowIfElapsed
<1>3. cycle' \in 1..(MaxCycle + 1) /\ (stage' # "deliberation" => cycle' <= MaxCycle)
  BY <1>1, <1>2, ContestConstants DEF ContestInv, BallotHolds
<1>4. quorate' \in BOOLEAN
  BY DEF ContestInv, BallotHolds
<1>5. BallotGoesOn
  BY <1>2, ContestConstants DEF ContestInv, BallotHolds, BallotGoesOn
<1> QED BY <1>1, <1>2, <1>3, <1>4, <1>5 DEF ContestInv, BallotHolds, Ballots

LEMMA BallotStays ==
    ASSUME ContestInv, UNCHANGED <<now, stage, cycle, closesAt, quorate, eligible>>
    PROVE  BallotHolds' /\ BallotGoesOn
<1>1. quorate' \in BOOLEAN
  BY DEF ContestInv, BallotHolds
<1>2. BallotGoesOn
  BY ContestConstants, BallotGoesNowhere DEF ContestInv, BallotHolds
<1> QED BY <1>1, <1>2 DEF ContestInv, BallotHolds

\* A request to contest finds a voting open only before its end.
LEMMA ContestHolds ==
    ASSUME ContestInv, NEW r \in Requests, NEW a \in Accounts, Contesting!Contest(r, a)
    PROVE  ContestInv'
<1>0. PICK new : new = [kind |-> "contest", by |-> a, at |-> "check", found |-> stage, asked |-> now]
  OBVIOUS
<1>1. /\ UNCHANGED <<now, closesAt, quorate, contestation>>
      /\ job' = [job EXCEPT ![r] = new]
  BY <1>0 DEF Contesting!Contest
<1>2. now \in Nat /\ stage \in Ballots /\ closesAt \in Nat
  BY ContestConstants DEF ContestInv, BallotHolds
<1>3. new \in JobRows /\ new.found = stage /\ new.asked = now
  BY <1>0, <1>2 DEF JobRows
<1>4. JobStep /\ BallotHolds' /\ BallotGoesOn
      /\ (UNCHANGED <<stage, cycle, eligible>> \/ stage # "mandate")
  <2>1. CASE Contesting!OpenVotingIfBallotPreparationElapsed /\ UNCHANGED cycle
    <3>1. BallotHolds' /\ BallotGoesOn /\ stage # "mandate" /\ stage # "voting"
      BY <1>1, <2>1, OpeningHolds
    <3>2. JobHolds(new)'
      BY <1>1, <1>2, <1>3, <3>1 DEF JobHolds
    <3> QED BY <1>1, <1>3, <3>1, <3>2 DEF JobStep
  <2>2. CASE Contesting!CloseVotingWindowIfElapsed /\ UNCHANGED eligible
    <3>1. BallotHolds' /\ BallotGoesOn /\ stage # "mandate" /\ stage' \in {"mandate", "deliberation"}
      BY <1>1, <2>2, ClosingHolds
    <3>2. JobHolds(new)'
      BY <1>1, <1>2, <1>3, <3>1 DEF JobHolds
    <3> QED BY <1>1, <1>3, <3>1, <3>2 DEF JobStep
  <2>3. CASE ~Contesting!OpeningDue /\ ~Contesting!ClosingDue /\ UNCHANGED <<stage, cycle, eligible>>
    <3>1. BallotHolds' /\ BallotGoesOn
      BY <1>1, <2>3, BallotStays
    <3>2. JobHolds(new)'
      BY <1>1, <1>2, <1>3, <2>3 DEF JobHolds, Contesting!ClosingDue
    <3> QED BY <1>1, <1>3, <2>3, <3>1, <3>2 DEF JobStep
  <2> QED BY <2>1, <2>2, <2>3 DEF Contesting!Contest
<1> QED BY <1>1, <1>4, ContestGoesOn DEF FilingStep

\* A request that is in progress goes on, or ends.
LEMMA ContestMoves ==
    ASSUME ContestInv, NEW r \in Requests, job[r] # NoRequest,
           \/ job' = [job EXCEPT ![r] = NoRequest]
           \/ job[r].kind = "contest" /\ job' = [job EXCEPT ![r].at = "insert"],
           now' = now, stage' = stage, closesAt' = closesAt
    PROVE  JobStep
<1>1. job[r] \in JobRows
  BY DEF ContestInv, JobsHold
<1>2. CASE job' = [job EXCEPT ![r] = NoRequest]
  BY <1>2 DEF JobStep
<1>3. CASE job[r].kind = "contest" /\ job' = [job EXCEPT ![r].at = "insert"]
  <2>1. PICK j \in JobRows : j = job[r]
    BY <1>1
  <2> DEFINE new == [j EXCEPT !.at = "insert"]
  <2>2. j \in [kind : {"contest"}, by : Accounts, at : {"check", "insert"}, found : Ballots, asked : Nat]
    BY <1>3, <2>1 DEF JobRows
  <2>3. new \in JobRows /\ new.asked = j.asked /\ new.found = j.found
    BY <2>2 DEF JobRows
  <2>4. JobHolds(j)
    BY <1>3, <2>1 DEF ContestInv, JobsHold
  <2>5. JobHolds(new)'
    BY <2>3, <2>4 DEF JobHolds
  <2>6. job' = [job EXCEPT ![r] = new]
    BY <1>3, <2>1
  <2> QED BY <2>3, <2>5, <2>6 DEF JobStep
<1> QED BY <1>2, <1>3

LEMMA CheckHolds ==
    ASSUME ContestInv, NEW r \in Requests, Contesting!CheckContest(r)
    PROVE  ContestInv'
<1>1. UNCHANGED <<now, stage, cycle, closesAt, quorate, eligible, contestation>>
  BY DEF Contesting!CheckContest, Contesting!ballot
<1>2. job[r] # NoRequest /\ job[r].kind = "contest"
  BY DEF Contesting!CheckContest, Contesting!In
<1>3. \/ job' = [job EXCEPT ![r] = NoRequest]
      \/ job' = [job EXCEPT ![r].at = "insert"]
  BY DEF Contesting!CheckContest, Contesting!Say, Contesting!Goto
<1>4. JobStep
  BY <1>1, <1>2, <1>3, ContestMoves
<1> QED BY <1>1, <1>4, BallotStays, ContestGoesOn DEF FilingStep

LEMMA FilingHolds ==
    ASSUME ContestInv, NEW r \in Requests, Contesting!InsertContestation(r)
    PROVE  ContestInv'
<1>1. UNCHANGED <<now, stage, cycle, closesAt, quorate, eligible>>
  BY DEF Contesting!InsertContestation, Contesting!ballot
<1>2. job[r] # NoRequest /\ job[r] \in JobRows /\ job' = [job EXCEPT ![r] = NoRequest]
  BY DEF Contesting!InsertContestation, Contesting!In, Contesting!Say, ContestInv, JobsHold
<1>3. JobStep
  BY <1>1, <1>2, ContestMoves
<1>4. job[r].by \in Accounts
  BY <1>2, JobFields
<1>5. FilingStep
  <2>1. CASE UNCHANGED contestation
    BY <2>1 DEF FilingStep
  <2>2. CASE /\ Contesting!GuardAllows(job[r].by)
             /\ contestation' = [contestation EXCEPT ![job[r].by] = "pending"]
    BY <1>1, <1>4, <2>2 DEF FilingStep, Contesting!GuardAllows, Contesting!MandateExists,
                            Contesting!IsCivicBallotEligibleActor
  <2> QED BY <2>1, <2>2 DEF Contesting!InsertContestation
<1> QED BY <1>1, <1>3, <1>5, BallotStays, ContestGoesOn

LEMMA DecisionHolds ==
    ASSUME ContestInv, NEW r \in Requests, Contesting!ResolveCivicMandateContestation(r)
    PROVE  ContestInv'
<1>1. UNCHANGED <<now, stage, cycle, closesAt, quorate, eligible>>
  BY DEF Contesting!ResolveCivicMandateContestation, Contesting!ballot
<1>2. /\ job[r] # NoRequest /\ job[r] \in JobRows /\ job[r].kind = "resolve"
      /\ job' = [job EXCEPT ![r] = NoRequest]
  BY DEF Contesting!ResolveCivicMandateContestation, Contesting!Say, ContestInv, JobsHold
<1>3. JobStep
  BY <1>1, <1>2, ContestMoves
<1>4. job[r].by \in Accounts /\ job[r].at \in Contesting!Outcomes
  BY <1>2, JobFields
<1>5. FilingStep
  <2>1. CASE UNCHANGED contestation
    BY <2>1 DEF FilingStep
  <2>2. CASE /\ contestation[job[r].by] = "pending"
             /\ contestation' = [contestation EXCEPT ![job[r].by] = job[r].at]
    BY <1>1, <1>4, <2>2 DEF FilingStep
  <2> QED BY <2>1, <2>2 DEF Contesting!ResolveCivicMandateContestation
<1> QED BY <1>1, <1>3, <1>5, BallotStays, ContestGoesOn

LEMMA BeginResolveHolds ==
    ASSUME ContestInv, NEW r \in Requests, NEW a \in Accounts, NEW outcome \in Contesting!Outcomes,
           Contesting!BeginResolve(r, a, outcome)
    PROVE  ContestInv'
<1>0. PICK new : new = [kind |-> "resolve", by |-> a, at |-> outcome, found |-> stage, asked |-> now]
  OBVIOUS
<1>1. /\ UNCHANGED <<now, stage, cycle, closesAt, quorate, eligible, contestation>>
      /\ job' = [job EXCEPT ![r] = new]
  BY <1>0 DEF Contesting!BeginResolve, Contesting!ballot
<1>2. new \in JobRows /\ new.kind = "resolve"
  BY <1>0, ContestConstants DEF ContestInv, BallotHolds, JobRows
<1>3. JobStep
  BY <1>1, <1>2 DEF JobStep
<1> QED BY <1>1, <1>3, BallotStays, ContestGoesOn DEF FilingStep

\* Time passes, and the ballot goes on by itself.
LEMMA PlansHold ==
    ASSUME ContestInv, Contesting!Tick \/ Contesting!Freeze \/ Contesting!ReadProcess \/ Contesting!Vote
    PROVE  ContestInv'
<1>1. UNCHANGED <<contestation, job>>
  BY DEF Contesting!Tick, Contesting!Freeze, Contesting!ReadProcess, Contesting!Vote
<1>2. JobStep /\ FilingStep
  BY <1>1 DEF JobStep, FilingStep
<1>3. quorate \in BOOLEAN /\ now \in Nat /\ closesAt \in Nat /\ stage \in Ballots
  BY ContestConstants DEF ContestInv, BallotHolds
<1>4. CASE Contesting!Tick
  <2>1. UNCHANGED <<stage, cycle, closesAt, quorate, eligible>> /\ now' = now + 1 /\ now' \in 0..MaxNow
    BY <1>4, ContestConstants DEF Contesting!Tick, Contesting!ballot, ContestInv, BallotHolds
  <2>2. quorate' \in BOOLEAN
    BY <1>3, <2>1
  <2>3. BallotHolds'
    BY <2>1, <2>2 DEF ContestInv, BallotHolds
  <2> QED BY <1>1, <1>2, <1>3, <2>1, <2>3, BallotGoesNowhere, ContestGoesOn
<1>5. CASE Contesting!Freeze
  <2>1. /\ stage = "deliberation" /\ cycle <= MaxCycle /\ stage' = "ballot_preparation"
        /\ closesAt' = now + FreezeWindow + VotingWindow /\ quorate' = FALSE
        /\ UNCHANGED <<now, cycle, eligible>>
    BY <1>5 DEF Contesting!Freeze
  <2>2. quorate' \in BOOLEAN
    BY <2>1
  <2>3. closesAt' \in Nat /\ closesAt' > now
    BY <1>3, <2>1, ContestConstants
  <2>4. BallotHolds' /\ BallotGoesOn
    BY <1>3, <2>1, <2>2, <2>3 DEF ContestInv, BallotHolds, BallotGoesOn, Ballots
  <2> QED BY <1>1, <1>2, <2>1, <2>4, ContestGoesOn
<1>6. CASE Contesting!ReadProcess
  <2>1. BallotHolds' /\ BallotGoesOn /\ stage # "mandate"
    BY <1>6, OpeningHolds, ClosingHolds DEF Contesting!ReadProcess
  <2> QED BY <1>1, <1>2, <2>1, ContestGoesOn
<1>7. CASE Contesting!Vote
  <2>1. quorate' = TRUE /\ UNCHANGED <<now, stage, cycle, closesAt, eligible>>
    BY <1>7 DEF Contesting!Vote
  <2>2. quorate' \in BOOLEAN
    BY <2>1
  <2>3. BallotHolds' /\ BallotGoesOn
    BY <1>3, <2>1, <2>2, BallotGoesNowhere DEF ContestInv, BallotHolds
  <2> QED BY <1>2, <2>1, <2>3, ContestGoesOn
<1> QED BY <1>4, <1>5, <1>6, <1>7

LEMMA ContestStep == ContestInv /\ [Contesting!Next]_Contesting!vars => ContestInv'
<1> SUFFICES ASSUME ContestInv, [Contesting!Next]_Contesting!vars PROVE ContestInv'
  OBVIOUS
<1>1. CASE Contesting!Tick \/ Contesting!Freeze \/ Contesting!ReadProcess \/ Contesting!Vote
  BY <1>1, PlansHold
<1>2. ASSUME NEW r \in Requests, Contesting!Request(r) PROVE ContestInv'
  BY <1>2, ContestHolds, BeginResolveHolds, CheckHolds, FilingHolds, DecisionHolds DEF Contesting!Request
<1>3. CASE UNCHANGED Contesting!vars
  <2>1. UNCHANGED <<now, stage, cycle, closesAt, quorate, eligible, contestation, job>>
    BY <1>3 DEF Contesting!vars, Contesting!ballot
  <2>2. JobStep /\ FilingStep
    BY <2>1 DEF JobStep, FilingStep
  <2> QED BY <2>1, <2>2, BallotStays, ContestGoesOn
<1> QED BY <1>1, <1>2, <1>3 DEF Contesting!Next

LEMMA ContestInvariant == Contesting!Spec => []ContestInv
BY ContestStarts, ContestStep, PTL DEF Contesting!Spec

\* What decides changes a filing that is pending, and a request that found the
\* voting open is told the truth.
LEMMA AnswersHold ==
    ASSUME ContestInv, [Contesting!Next]_Contesting!vars
    PROVE  Contesting!DecisionStays /\ Contesting!NotTooEarly
<1>1. Contesting!NotTooEarly
  <2>1. ASSUME NEW r \in Requests, Contesting!In(r, "contest", "check"), job[r].found = "voting",
               stage = "voting", closesAt <= job[r].asked
        PROVE  FALSE
    <3>1. job[r] \in JobRows /\ job[r].kind = "contest" /\ JobHolds(job[r])
      BY <2>1 DEF Contesting!In, ContestInv, JobsHold
    <3>2. job[r].asked \in Nat /\ closesAt \in Nat
      BY <3>1, JobFields DEF ContestInv, BallotHolds
    <3> QED BY <2>1, <3>1, <3>2 DEF JobHolds
  <2> QED BY <2>1 DEF Contesting!NotTooEarly
<1>2. Contesting!DecisionStays
  <2>1. CASE UNCHANGED contestation
    BY <2>1 DEF Contesting!DecisionStays
  <2>2. ASSUME NEW r \in Requests, NEW new,
               contestation[job[r].by] \in {"none", "pending"},
               contestation' = [contestation EXCEPT ![job[r].by] = new]
        PROVE  Contesting!DecisionStays
    <3>1. contestation \in [Accounts -> {"none", "pending"} \cup Contesting!Outcomes]
      BY DEF ContestInv, FilingsHold, Contesting!ContestationRows
    <3>2. \A a \in Accounts : a # job[r].by => contestation'[a] = contestation[a]
      BY <2>2, <3>1
    <3> QED BY <2>2, <3>2 DEF Contesting!DecisionStays, Contesting!Outcomes
  <2>3. UNCHANGED contestation
        \/ \E r \in Requests : Contesting!InsertContestation(r) \/ Contesting!ResolveCivicMandateContestation(r)
    BY DEF Contesting!Next, Contesting!vars, Contesting!Tick, Contesting!Freeze, Contesting!ReadProcess,
           Contesting!Vote, Contesting!Request, Contesting!Contest, Contesting!BeginResolve,
           Contesting!CheckContest
  <2>4. ASSUME NEW r \in Requests, Contesting!InsertContestation(r) PROVE Contesting!DecisionStays
    BY <2>1, <2>2, <2>4 DEF Contesting!InsertContestation
  <2>5. ASSUME NEW r \in Requests, Contesting!ResolveCivicMandateContestation(r)
        PROVE  Contesting!DecisionStays
    BY <2>1, <2>2, <2>5 DEF Contesting!ResolveCivicMandateContestation
  <2> QED BY <2>1, <2>3, <2>4, <2>5
<1> QED BY <1>1, <1>2

\* The decision of a contestation is permanent, and who asks after the end of a
\* voting is not told that it is too early, for any number of members, requests
\* and ballots and any windows.
THEOREM ContestationsAlwaysAnswered == CommunitySpec => ContestationsAreAnswered
<1>1. ContestInv /\ [Contesting!Next]_Contesting!vars => Contesting!DecisionStays /\ Contesting!NotTooEarly
  BY AnswersHold
<1> QED BY <1>1, ContestInvariant, PTL DEF CommunitySpec, Contesting!Spec, ContestationsAreAnswered

-----------------------------------------------------------------------------
(* The community.                                                            *)

\* Rows belong together in the signals, their discussion and the contestations
\* of a mandate, for any number of members, requests, photos, media and ballots.
THEOREM RowsAlwaysBelongTogether == CommunitySpec => []RowsBelongTogether
<1>1. TalkInv => /\ Discussing!TypeOK /\ Discussing!ConfirmationsAreStable
                 /\ Discussing!OneDiscussion /\ Discussing!MediaHaveOneContribution
  BY TalkInvImplies
<1>2. ContestInv => Contesting!TypeOK /\ Contesting!FilersCouldVote
  BY ContestInvImplies
<1> QED
  BY <1>1, <1>2, SignalsTypeCorrect, TalkInvariant, ContestInvariant, PTL DEF CommunitySpec, RowsBelongTogether
=============================================================================
