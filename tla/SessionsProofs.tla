--------------------------- MODULE SessionsProofs ---------------------------
(* What holds of the sessions of an account for every number of requests,    *)
(* passkeys and sessions, and all time limits.                               *)
EXTENDS Sessions, FiniteSetTheorems, SequenceTheorems, TLAPS

-----------------------------------------------------------------------------
(* The rows and the requests in flight.                                      *)

KeyStates == {"none", "active", "revoked"}
AccountTyped ==
    /\ clock \in 0..MaxTime /\ status \in {"active", "suspended"}
    /\ password \in 1..MaxPasswords
    /\ keys \in [Keys -> KeyStates]

RowTyped(s) ==
    /\ sessions[s].created <= sessions[s].seen /\ sessions[s].created <= clock
    /\ sessions[s].idle <= sessions[s].until
    /\ sessions[s].chain \in 1..Len(sessions)
    /\ sessions[s].until = sessions[sessions[s].chain].created + AbsoluteTimeout

RowsTyped ==
    /\ sessions \in Seq(Session)
    /\ \A s \in 1..Len(sessions) : RowTyped(s)
    /\ \A c \in ceremonies : c.session \in 1..Len(sessions)

\* A request that works with a session captured its time no earlier than the
\* session was created; so did the read that its touch relies on.
RequestTyped(q) ==
    /\ q.now <= clock
    /\ q.op \in SessionOperations =>
         q.session \in 1..Len(sessions) /\ sessions[q.session].created <= q.now
    /\ q.at = "touch" =>
         q.op \in SessionOperations /\ sessions[q.session].created <= q.seen
    /\ q.op = "passwordSignIn" => q.key = NoKey

RequestsTyped ==
    /\ requests \in [Requests -> Request \cup {Idle}]
    /\ \A r \in Requests : requests[r] # Idle => RequestTyped(requests[r])

Typed == AccountTyped /\ RowsTyped /\ RequestsTyped

\* What the runs check of the rows, one by one.
Valid(row) ==
    ~row.revoked =>
        /\ status = "active" /\ ~row.ended
        /\ row.key # NoKey => row.key \in ActiveKeys
        /\ row.password \in {0, password}
Earned(row) == row.fresh # Never => row.fresh = row.proof
Alone ==
    \A s, t \in 1..Len(sessions) :
        ~sessions[s].revoked /\ ~sessions[t].revoked /\ sessions[s].chain = sessions[t].chain => s = t

RowsHold == \A s \in 1..Len(sessions) : Valid(sessions[s]) /\ Earned(sessions[s])

SessionInv == Typed /\ RowsHold /\ Alone /\ ActiveKeys # {}

-----------------------------------------------------------------------------
(* What the operators on rows return.                                        *)

\* A function on 1..n is a sequence of length n.
LEMMA IsRows ==
    ASSUME NEW n \in Nat, NEW f \in [1..n -> Session]
    PROVE  f \in Seq(Session) /\ Len(f) = n
<1>1. f \in Seq(Session)
  BY SeqDef
<1>2. Len(f) \in Nat /\ 1..Len(f) = 1..n
  BY <1>1, LenProperties
<1> QED BY <1>1, <1>2

\* The fields of a row that no later operation changes.
SameSignIn(old, new) == new.chain = old.chain /\ new.created = old.created /\ new.until = old.until
SameProof(old, new) == new.fresh = old.fresh /\ new.proof = old.proof
SameWindow(old, new) == new.seen = old.seen /\ new.idle = old.idle

LEMMA RevokeMatchingIs ==
    ASSUME NEW rows \in Seq(Session), NEW kept
    PROVE  /\ RevokeMatching(rows, kept) \in Seq(Session)
           /\ Len(RevokeMatching(rows, kept)) = Len(rows)
           /\ \A t \in 1..Len(rows) :
                LET new == RevokeMatching(rows, kept)[t] IN
                IF t = kept THEN new = rows[t]
                ELSE /\ new.revoked /\ SameSignIn(rows[t], new) /\ SameProof(rows[t], new)
                     /\ SameWindow(rows[t], new)
<1>1. Len(rows) \in Nat /\ DOMAIN rows = 1..Len(rows) /\ \A t \in 1..Len(rows) : rows[t] \in Session
  BY LenProperties
<1>2. RevokeMatching(rows, kept) \in [1..Len(rows) -> Session]
  BY <1>1 DEF RevokeMatching, Session
<1>3. ASSUME NEW t \in 1..Len(rows)
      PROVE  LET new == RevokeMatching(rows, kept)[t] IN
             IF t = kept THEN new = rows[t]
             ELSE /\ new.revoked /\ SameSignIn(rows[t], new) /\ SameProof(rows[t], new)
                  /\ SameWindow(rows[t], new)
  <2>1. CASE t = kept
    BY <1>1, <2>1 DEF RevokeMatching
  <2>2. CASE t # kept
    <3>1. RevokeMatching(rows, kept)[t] = [rows[t] EXCEPT !.revoked = TRUE] /\ rows[t] \in Session
      BY <1>1, <2>2 DEF RevokeMatching
    <3> QED BY <2>2, <3>1 DEF Session, SameSignIn, SameProof, SameWindow
  <2> QED BY <2>1, <2>2
<1> QED BY <1>1, <1>2, <1>3, IsRows

LEMMA EndedIs ==
    ASSUME NEW rows \in Seq(Session), NEW kept
    PROVE  /\ Ended(rows, kept) \in Seq(Session)
           /\ Len(Ended(rows, kept)) = Len(rows)
           /\ \A t \in 1..Len(rows) :
                LET new == Ended(rows, kept)[t] IN
                /\ SameSignIn(rows[t], new) /\ SameProof(rows[t], new) /\ SameWindow(rows[t], new)
                /\ new.revoked = rows[t].revoked /\ new.ended = (t # kept)
                /\ new.key = rows[t].key /\ new.password = rows[t].password
<1>1. Len(rows) \in Nat /\ DOMAIN rows = 1..Len(rows) /\ \A t \in 1..Len(rows) : rows[t] \in Session
  BY LenProperties
<1>2. Ended(rows, kept) \in [1..Len(rows) -> Session]
  BY <1>1 DEF Ended, Session
<1>3. ASSUME NEW t \in 1..Len(rows)
      PROVE  LET new == Ended(rows, kept)[t] IN
             /\ SameSignIn(rows[t], new) /\ SameProof(rows[t], new) /\ SameWindow(rows[t], new)
             /\ new.revoked = rows[t].revoked /\ new.ended = (t # kept)
             /\ new.key = rows[t].key /\ new.password = rows[t].password
  <2>1. Ended(rows, kept)[t] = [rows[t] EXCEPT !.ended = (t # kept)] /\ rows[t] \in Session
    BY <1>1 DEF Ended
  <2> QED BY <2>1 DEF Session, SameSignIn, SameProof, SameWindow
<1> QED BY <1>1, <1>2, <1>3, IsRows

LEMMA IdleIsBounded ==
    ASSUME NEW at \in Nat, NEW until \in Nat
    PROVE  ComputeIdleExpiresAt(at, until) \in Nat /\ ComputeIdleExpiresAt(at, until) <= until
BY SessionsAssumption DEF ComputeIdleExpiresAt, Min2

\* rows are the sessions after a rotation of session s.
Rotation(rows, s, now, fresh, key) ==
    /\ rows \in Seq(Session) /\ Len(rows) = Len(sessions) + 1
    /\ \A t \in 1..Len(sessions) : t # s => rows[t] = sessions[t]
    /\ rows[s].revoked /\ SameSignIn(sessions[s], rows[s]) /\ SameProof(sessions[s], rows[s])
    /\ SameWindow(sessions[s], rows[s])
    /\ LET new == rows[Len(sessions) + 1] IN
         /\ SameSignIn(sessions[s], new) /\ new.seen = now /\ new.idle <= new.until
         /\ new.fresh = fresh /\ new.proof = sessions[s].proof
         /\ new.key = key /\ new.password = sessions[s].password
         /\ ~new.revoked /\ new.ended = sessions[s].ended

LEMMA RotatedIs ==
    ASSUME sessions \in Seq(Session), NEW s \in 1..Len(sessions), NEW now \in Nat,
           NEW fresh \in Nat \cup {Never}, NEW key \in Keys \cup {NoKey}
    PROVE  Rotation(Rotated(s, now, fresh, key), s, now, fresh, key)
<1> DEFINE old == [sessions EXCEPT ![s].revoked = TRUE]
           row == [sessions[s] EXCEPT !.seen = now, !.fresh = fresh, !.key = key,
                       !.revoked = FALSE, !.idle = ComputeIdleExpiresAt(now, sessions[s].until)]
<1>1. Len(sessions) \in Nat /\ sessions \in [1..Len(sessions) -> Session] /\ sessions[s] \in Session
  BY LenProperties
<1>2. old \in Seq(Session) /\ Len(old) = Len(sessions)
  <2>1. old \in [1..Len(sessions) -> Session]
    BY <1>1 DEF Session
  <2> QED BY <1>1, <2>1, IsRows
<1>3. /\ \A t \in 1..Len(sessions) : t # s => old[t] = sessions[t]
      /\ old[s].revoked /\ SameSignIn(sessions[s], old[s]) /\ SameProof(sessions[s], old[s])
      /\ SameWindow(sessions[s], old[s])
  BY <1>1 DEF Session, SameSignIn, SameProof, SameWindow
<1>4. sessions[s].until \in Nat
  BY <1>1 DEF Session
<1>5. row \in Session
  BY <1>1, <1>4, IdleIsBounded DEF Session
<1>6. /\ SameSignIn(sessions[s], row) /\ row.seen = now /\ row.idle <= row.until
      /\ row.fresh = fresh /\ row.key = key /\ ~row.revoked
      /\ row.ended = sessions[s].ended /\ row.proof = sessions[s].proof
      /\ row.password = sessions[s].password
  BY <1>1, <1>4, IdleIsBounded DEF Session, SameSignIn
<1>7. Rotated(s, now, fresh, key) = Append(old, row)
  BY DEF Rotated
<1> HIDE DEF old, row
<1>8. /\ Append(old, row) \in Seq(Session) /\ Len(Append(old, row)) = Len(old) + 1
      /\ \A t \in 1..Len(old) : Append(old, row)[t] = old[t]
      /\ Append(old, row)[Len(old) + 1] = row
  BY <1>2, <1>5
<1> QED BY <1>1, <1>2, <1>3, <1>6, <1>7, <1>8 DEF Rotation

\* Everything but the replacement is revoked, and the replacement is session s
\* with what is new about it.
Replacement(s, now, fresh, key, proof, current) ==
    LET n == Len(sessions)
        new == sessions'[n + 1] IN
    /\ sessions' \in Seq(Session) /\ Len(sessions') = n + 1
    /\ \A t \in 1..n : /\ sessions'[t].revoked /\ SameSignIn(sessions[t], sessions'[t])
                       /\ SameProof(sessions[t], sessions'[t])
                       /\ SameWindow(sessions[t], sessions'[t])
    /\ SameSignIn(sessions[s], new) /\ new.seen = now /\ new.idle <= new.until
    /\ new.fresh = fresh /\ new.proof = proof /\ new.key = key /\ ~new.revoked /\ ~new.ended
    /\ new.password = IF sessions[s].password = 0 THEN 0 ELSE current

LEMMA OnlyReplacementIs ==
    ASSUME Typed, NEW r \in Requests, NEW fresh \in Nat \cup {Never}, NEW key \in Keys \cup {NoKey},
           NEW proof \in Nat \cup {Never}, NEW current \in Nat,
           Own(r) \in 1..Len(sessions), Now(r) \in Nat, KeepOnlyReplacement(r, fresh, key, proof, current)
    PROVE  Replacement(Own(r), Now(r), fresh, key, proof, current)
<1> DEFINE n == Len(sessions)
           rows == Rotated(Own(r), Now(r), fresh, key)
           kept == RevokeMatching(rows, n + 1)
           shown == IF rows[n + 1].password = 0 THEN 0 ELSE current
           with == [kept EXCEPT ![n + 1].password = shown, ![n + 1].proof = proof]
<1>1. sessions \in Seq(Session) /\ n \in Nat
  BY LenProperties DEF Typed, RowsTyped
<1>2. /\ rows \in Seq(Session) /\ Len(rows) = n + 1
      /\ \A t \in 1..n : /\ SameSignIn(sessions[t], rows[t]) /\ SameProof(sessions[t], rows[t])
                         /\ SameWindow(sessions[t], rows[t])
      /\ SameSignIn(sessions[Own(r)], rows[n + 1]) /\ rows[n + 1].seen = Now(r)
      /\ rows[n + 1].idle <= rows[n + 1].until
      /\ rows[n + 1].fresh = fresh /\ rows[n + 1].key = key /\ ~rows[n + 1].revoked
      /\ rows[n + 1].password = sessions[Own(r)].password
  <2>1. /\ rows \in Seq(Session) /\ Len(rows) = n + 1
        /\ \A t \in 1..n : t # Own(r) => rows[t] = sessions[t]
        /\ SameSignIn(sessions[Own(r)], rows[Own(r)]) /\ SameProof(sessions[Own(r)], rows[Own(r)])
        /\ SameWindow(sessions[Own(r)], rows[Own(r)])
        /\ SameSignIn(sessions[Own(r)], rows[n + 1]) /\ rows[n + 1].seen = Now(r)
        /\ rows[n + 1].idle <= rows[n + 1].until
        /\ rows[n + 1].fresh = fresh /\ rows[n + 1].key = key /\ ~rows[n + 1].revoked
        /\ rows[n + 1].password = sessions[Own(r)].password
    <3>1. Rotation(rows, Own(r), Now(r), fresh, key)
      BY <1>1, RotatedIs
    <3> HIDE DEF rows
    <3> QED BY <3>1 DEF Rotation
  <2> HIDE DEF rows
  <2>2. ASSUME NEW t \in 1..n
        PROVE  /\ SameSignIn(sessions[t], rows[t]) /\ SameProof(sessions[t], rows[t])
               /\ SameWindow(sessions[t], rows[t])
    <3>1. CASE t = Own(r)
      BY <2>1, <3>1
    <3>2. CASE t # Own(r)
      BY <2>1, <3>2 DEF SameSignIn, SameProof, SameWindow
    <3> QED BY <3>1, <3>2
  <2> QED BY <2>1, <2>2
<1>3. /\ kept \in Seq(Session) /\ Len(kept) = n + 1 /\ kept[n + 1] = rows[n + 1]
      /\ \A t \in 1..n : /\ kept[t].revoked /\ SameSignIn(sessions[t], kept[t])
                         /\ SameProof(sessions[t], kept[t]) /\ SameWindow(sessions[t], kept[t])
  <2> HIDE DEF rows
  <2>1. \A t \in 1..n : t \in 1..Len(rows) /\ t # n + 1
    BY <1>1, <1>2
  <2> QED BY <1>1, <1>2, <2>1, RevokeMatchingIs DEF SameSignIn, SameProof, SameWindow
<1>4. /\ with \in Seq(Session) /\ Len(with) = n + 1 /\ \A t \in 1..n : with[t] = kept[t]
      /\ with[n + 1].password = shown /\ with[n + 1].proof = proof
      /\ with[n + 1].key = key /\ with[n + 1].fresh = fresh /\ ~with[n + 1].revoked
      /\ SameSignIn(sessions[Own(r)], with[n + 1])
      /\ with[n + 1].seen = Now(r) /\ with[n + 1].idle <= with[n + 1].until
  <2> HIDE DEF rows, kept
  <2>1. kept \in [1..(n + 1) -> Session] /\ kept[n + 1] \in Session /\ n + 1 \in 1..(n + 1) /\ n + 1 \in Nat
    BY <1>1, <1>3, LenProperties
  <2>2. shown \in Nat
    BY <1>3, <2>1 DEF Session
  <2>3. with \in [1..(n + 1) -> Session]
    BY <2>1, <2>2 DEF Session
  <2>4. with \in Seq(Session) /\ Len(with) = n + 1
    BY <2>1, <2>3, IsRows
  <2>5. \A t \in 1..n : with[t] = kept[t]
    BY <1>1, <2>1
  <2> HIDE DEF shown
  <2>6. /\ with[n + 1].password = shown /\ with[n + 1].proof = proof
        /\ with[n + 1].key = kept[n + 1].key /\ with[n + 1].fresh = kept[n + 1].fresh
        /\ with[n + 1].revoked = kept[n + 1].revoked
        /\ with[n + 1].seen = kept[n + 1].seen /\ with[n + 1].idle = kept[n + 1].idle
        /\ SameSignIn(kept[n + 1], with[n + 1])
    BY <2>1 DEF Session, SameSignIn
  <2> QED BY <1>2, <1>3, <2>4, <2>5, <2>6 DEF SameSignIn
<1>5. sessions' = Ended(with, n + 1)
  BY <1>2 DEF KeepOnlyReplacement
<1>6. shown = IF sessions[Own(r)].password = 0 THEN 0 ELSE current
  BY <1>2
<1> HIDE DEF with, kept, rows, shown
<1>7. n + 1 \in 1..Len(with) /\ \A t \in 1..n : t \in 1..Len(with) /\ t # n + 1
  BY <1>1, <1>4
<1>8. /\ sessions' \in Seq(Session) /\ Len(sessions') = n + 1
      /\ \A t \in 1..(n + 1) :
           /\ SameSignIn(with[t], sessions'[t]) /\ SameProof(with[t], sessions'[t])
           /\ SameWindow(with[t], sessions'[t])
           /\ sessions'[t].revoked = with[t].revoked /\ sessions'[t].ended = (t # n + 1)
           /\ sessions'[t].key = with[t].key /\ sessions'[t].password = with[t].password
  BY <1>4, <1>5, EndedIs
<1>9. ASSUME NEW t \in 1..n
      PROVE  /\ sessions'[t].revoked /\ SameSignIn(sessions[t], sessions'[t])
             /\ SameProof(sessions[t], sessions'[t]) /\ SameWindow(sessions[t], sessions'[t])
  <2>1. t \in 1..(n + 1) /\ with[t] = kept[t]
    BY <1>1, <1>4
  <2> QED BY <1>3, <1>8, <2>1 DEF SameSignIn, SameProof, SameWindow
<1>10. n + 1 \in 1..(n + 1)
  BY <1>1
<1> QED BY <1>4, <1>6, <1>8, <1>9, <1>10 DEF Replacement, SameSignIn, SameProof, SameWindow

-----------------------------------------------------------------------------
(* The three ways the rows change: old ones are kept or revoked, a sign-in   *)
(* adds one, a rotation replaces one.                                        *)

Kept(old, new) ==
    /\ SameSignIn(old, new) /\ SameProof(old, new)
    /\ new.created <= new.seen /\ new.idle <= new.until
    /\ ~new.revoked =>
         ~old.revoked /\ new.ended = old.ended /\ new.key = old.key /\ new.password = old.password

\* The rows that were there stay, and those of them that stay live keep an
\* account that suits them.
OldRowsKept ==
    /\ \A t \in 1..Len(sessions) : Kept(sessions[t], sessions'[t])
    /\ UNCHANGED account \/ \A t \in 1..Len(sessions) : sessions'[t].revoked
    /\ \A c \in ceremonies' : c.session \in 1..Len(sessions)

NewestHolds(row) ==
    /\ row.created <= row.seen /\ row.created <= clock /\ row.idle <= row.until
    /\ Valid(row) /\ Earned(row)
SignedIn(row, n) == row.chain = n + 1 /\ row.until = row.created + AbsoluteTimeout
RotatedFrom(row, s) == SameSignIn(sessions[s], row) /\ ~sessions[s].revoked /\ sessions'[s].revoked

RowsInv == RowsTyped /\ RowsHold /\ Alone

LEMMA KeptRowHolds ==
    ASSUME AccountTyped, AccountTyped', clock <= clock', RowsInv,
           sessions' \in Seq(Session), Len(sessions) <= Len(sessions'), OldRowsKept,
           NEW t \in 1..Len(sessions)
    PROVE  RowTyped(t)' /\ Valid(sessions[t])' /\ Earned(sessions[t])'
           /\ sessions'[t].chain = sessions[t].chain /\ sessions'[t].chain \in 1..Len(sessions)
<1>1. /\ sessions \in Seq(Session) /\ RowTyped(t) /\ Valid(sessions[t]) /\ Earned(sessions[t])
      /\ Kept(sessions[t], sessions'[t])
      /\ Len(sessions) \in Nat /\ Len(sessions') \in Nat
  BY LenProperties DEF RowsInv, RowsTyped, RowsHold, OldRowsKept
<1>2. sessions[t] \in Session /\ sessions[t].chain \in 1..Len(sessions)
  BY <1>1, LenProperties DEF RowTyped
<1>3. Kept(sessions[sessions[t].chain], sessions'[sessions[t].chain])
  BY <1>2 DEF OldRowsKept
<1>4. clock \in Nat /\ clock' \in Nat /\ sessions[t].created \in Nat
  <2>1. clock \in Nat /\ clock' \in Nat
    BY SessionsAssumption DEF AccountTyped
  <2>2. sessions[t].created \in Nat
    BY <1>2 DEF Session
  <2> QED BY <2>1, <2>2
<1>5. RowTyped(t)'
  BY <1>1, <1>2, <1>3, <1>4 DEF RowTyped, Kept, SameSignIn
<1>6. Earned(sessions[t])'
  BY <1>1 DEF Kept, Earned, SameProof
<1>7. Valid(sessions[t])'
  <2>1. CASE UNCHANGED account
    BY <1>1, <2>1 DEF Kept, Valid, account, ActiveKeys
  <2>2. CASE sessions'[t].revoked
    BY <2>2 DEF Valid
  <2> QED BY <2>1, <2>2 DEF OldRowsKept
<1> QED BY <1>1, <1>2, <1>5, <1>6, <1>7 DEF Kept, SameSignIn

\* Rows are only touched, or revoked.
LEMMA NoNewRow ==
    ASSUME AccountTyped, AccountTyped', clock <= clock', RowsInv,
           sessions' \in Seq(Session), Len(sessions') = Len(sessions), OldRowsKept
    PROVE  RowsInv'
<1>1. Len(sessions) \in Nat
  BY LenProperties DEF RowsInv, RowsTyped
<1>2. \A t \in 1..Len(sessions) :
        RowTyped(t)' /\ Valid(sessions[t])' /\ Earned(sessions[t])'
        /\ sessions'[t].chain = sessions[t].chain
  BY <1>1, KeptRowHolds
<1>3. RowsTyped' /\ RowsHold'
  BY <1>2 DEF RowsTyped, RowsHold, OldRowsKept
<1>4. Alone'
  BY <1>2 DEF RowsInv, Alone, OldRowsKept, Kept
<1> QED BY <1>3, <1>4 DEF RowsInv

\* A row is added, by a sign-in or by the rotation of another.
LEMMA OneNewRow ==
    ASSUME AccountTyped, AccountTyped', clock <= clock', RowsInv,
           NEW n \in Nat, n = Len(sessions),
           sessions' \in Seq(Session), Len(sessions') = n + 1, OldRowsKept,
           NewestHolds(sessions[n + 1])',
           \/ SignedIn(sessions'[n + 1], n)
           \/ \E s \in 1..n : RotatedFrom(sessions'[n + 1], s)
    PROVE  RowsInv'
<1>1. sessions'[n + 1] \in Session /\ n + 1 \in Nat
  BY LenProperties
<1>2. ASSUME NEW t \in 1..n
      PROVE  /\ RowTyped(t)' /\ Valid(sessions[t])' /\ Earned(sessions[t])'
             /\ sessions'[t].chain = sessions[t].chain /\ sessions'[t].chain \in 1..n
             /\ ~sessions'[t].revoked => ~sessions[t].revoked
             /\ sessions'[t].created = sessions[t].created
  <2>1. Kept(sessions[t], sessions'[t])
    BY DEF OldRowsKept
  <2> QED BY <2>1, KeptRowHolds DEF Kept, SameSignIn
<1>3. /\ Valid(sessions[n + 1])' /\ Earned(sessions[n + 1])'
      /\ sessions'[n + 1].created <= sessions'[n + 1].seen /\ sessions'[n + 1].created <= clock'
      /\ sessions'[n + 1].idle <= sessions'[n + 1].until
  BY DEF NewestHolds
<1>4. /\ RowTyped(n + 1)'
      /\ \A t \in 1..n : ~sessions'[t].revoked => sessions'[t].chain # sessions'[n + 1].chain
  <2>1. CASE SignedIn(sessions'[n + 1], n)
    <3>1. RowTyped(n + 1)'
      BY <1>3, <2>1 DEF SignedIn, RowTyped
    <3>2. ASSUME NEW t \in 1..n PROVE sessions'[t].chain # n + 1
      BY <1>2
    <3> QED BY <2>1, <3>1, <3>2 DEF SignedIn
  <2>2. ASSUME NEW s \in 1..n, RotatedFrom(sessions'[n + 1], s)
        PROVE  /\ RowTyped(n + 1)'
               /\ \A t \in 1..n : ~sessions'[t].revoked => sessions'[t].chain # sessions'[n + 1].chain
    <3>1. RowTyped(s) /\ sessions[s].chain \in 1..n /\ SameSignIn(sessions[s], sessions'[n + 1])
      BY <2>2 DEF RowsInv, RowsTyped, RowTyped, RotatedFrom
    <3>2. sessions'[sessions[s].chain].created = sessions[sessions[s].chain].created
      BY <1>2, <3>1
    <3>3. RowTyped(n + 1)'
      BY <1>3, <3>1, <3>2 DEF SameSignIn, RowTyped
    <3>4. ASSUME NEW t \in 1..n, ~sessions'[t].revoked
          PROVE  sessions'[t].chain # sessions'[n + 1].chain
      BY <1>2, <2>2, <3>1, <3>4 DEF RotatedFrom, SameSignIn, RowsInv, Alone
    <3> QED BY <3>3, <3>4
  <2> QED BY <2>1, <2>2
<1>5. \A t \in 1..(n + 1) : t \in 1..n \/ t = n + 1
  OBVIOUS
<1>6. RowsTyped' /\ RowsHold'
  <2>1. \A t \in 1..(n + 1) : RowTyped(t)' /\ Valid(sessions[t])' /\ Earned(sessions[t])'
    BY <1>2, <1>3, <1>4, <1>5
  <2> QED BY <2>1 DEF RowsTyped, RowsHold, OldRowsKept
<1>7. Alone'
  <2>1. ASSUME NEW s \in 1..(n + 1), NEW t \in 1..(n + 1), ~sessions'[s].revoked,
               ~sessions'[t].revoked, sessions'[s].chain = sessions'[t].chain
        PROVE  s = t
    BY <1>2, <1>4, <1>5, <2>1 DEF RowsInv, Alone
  <2> QED BY <2>1 DEF Alone
<1> QED BY <1>6, <1>7 DEF RowsInv

-----------------------------------------------------------------------------
(* Requests in flight.                                                       *)

\* No row goes away, and its creation does not move.
RowsStay ==
    /\ clock <= clock' /\ clock \in Nat /\ clock' \in Nat
    /\ Len(sessions) \in Nat /\ Len(sessions') \in Nat /\ Len(sessions) <= Len(sessions')
    /\ \A t \in 1..Len(sessions) : sessions'[t].created = sessions[t].created

LEMMA RequestsStay ==
    ASSUME RequestsTyped, RowsStay, requests' \in [Requests -> Request \cup {Idle}],
           \A r \in Requests :
              requests'[r] \in {requests[r], Idle} \/ RequestTyped(requests[r])'
    PROVE  RequestsTyped'
<1>1. ASSUME NEW r \in Requests, requests'[r] # Idle, requests'[r] = requests[r]
      PROVE  RequestTyped(requests[r])'
  <2>1. RequestTyped(requests[r]) /\ requests[r] \in Request
    BY <1>1 DEF RequestsTyped
  <2>2. requests[r].now \in Nat /\ requests[r].now <= clock'
    BY <2>1 DEF Request, RequestTyped, RowsStay
  <2>3. ASSUME requests[r].op \in SessionOperations
        PROVE  /\ requests[r].session \in 1..Len(sessions)
               /\ requests[r].session \in 1..Len(sessions')
               /\ sessions'[requests[r].session].created = sessions[requests[r].session].created
    BY <2>1, <2>3 DEF RequestTyped, RowsStay
  <2> QED BY <1>1, <2>1, <2>2, <2>3 DEF RequestTyped
<1> QED BY <1>1 DEF RequestsTyped

LEMMA EndIs ==
    ASSUME RequestsTyped, NEW r \in Requests, End(r)
    PROVE  /\ requests' \in [Requests -> Request \cup {Idle}]
           /\ \A i \in Requests : requests'[i] \in {requests[i], Idle}
BY DEF RequestsTyped, End

\* A request begins with a session that is there, or with none.
LEMMA BeginKeepsInv ==
    ASSUME SessionInv, NEW r \in Requests, NEW op \in SessionOperations \cup SignIns \cup Revocations,
           NEW at \in {"touch", "begun"}, NEW s \in Nat, NEW key \in Keys \cup {NoKey},
           op \in SessionOperations => s \in 1..Len(sessions),
           at = "touch" => op \in SessionOperations, op = "passwordSignIn" => key = NoKey,
           Begin(r, op, at, s, key)
    PROVE  SessionInv'
<1> DEFINE q == [op |-> op, at |-> at, now |-> clock, session |-> s, key |-> key,
                 password |-> IF op \in {"passwordSignIn", "changePassword"} THEN password ELSE 0,
                 seen |-> IF at = "touch" THEN sessions[s].seen ELSE 0]
<1>1. /\ UNCHANGED <<clock, account, sessions, ceremonies>>
      /\ requests' = [requests EXCEPT ![r] = q]
  BY DEF Begin
<1>2. clock \in Nat /\ password \in Nat /\ Len(sessions) \in Nat /\ sessions \in Seq(Session)
  BY SessionsAssumption, LenProperties DEF SessionInv, Typed, AccountTyped, RowsTyped
<1>3. s \in 1..Len(sessions) => sessions[s].seen \in Nat /\ RowTyped(s)
  <2>1. s \in 1..Len(sessions) => sessions[s] \in Session
    BY <1>2, LenProperties
  <2>2. s \in 1..Len(sessions) => sessions[s].seen \in Nat
    BY <2>1 DEF Session
  <2> QED BY <2>2 DEF SessionInv, Typed, RowsTyped
<1>4. q \in Request
  BY <1>2, <1>3 DEF Request
<1>5. q.now = clock /\ q.op = op /\ q.at = at /\ q.session = s /\ q.key = key
      /\ (at = "touch" => q.seen = sessions[s].seen)
  OBVIOUS
<1> HIDE DEF q
<1>6. RequestTyped(q)
  BY <1>2, <1>3, <1>5 DEF RequestTyped, RowTyped
<1>7. /\ requests' \in [Requests -> Request \cup {Idle}] /\ requests'[r] = q
      /\ \A i \in Requests : i # r => requests'[i] = requests[i]
  BY <1>1, <1>4 DEF SessionInv, Typed, RequestsTyped
<1>8. RequestTyped(requests[r])'
  BY <1>1, <1>6, <1>7 DEF RequestTyped
<1>9. RowsStay
  BY <1>1, <1>2 DEF RowsStay
<1>10. RequestsTyped'
  BY <1>7, <1>8, <1>9, RequestsStay DEF SessionInv, Typed
<1> QED BY <1>1, <1>10 DEF SessionInv, Typed, AccountTyped, RowsTyped, RowTyped, RowsHold, Valid,
          Earned, Alone, ActiveKeys, account

-----------------------------------------------------------------------------
(* What the operations have in common.                                       *)

LEMMA SessionBasics ==
    ASSUME SessionInv
    PROVE  /\ AccountTyped /\ RowsInv /\ RequestsTyped /\ sessions \in Seq(Session)
           /\ clock \in Nat /\ password \in Nat /\ Len(sessions) \in Nat
           /\ DOMAIN sessions = 1..Len(sessions)
           /\ \A t \in 1..Len(sessions) : sessions[t] \in Session
<1>1. AccountTyped /\ RowsInv /\ RequestsTyped /\ sessions \in Seq(Session)
  BY DEF SessionInv, Typed, RowsInv, RowsTyped
<1>2. clock \in Nat /\ password \in Nat
  BY <1>1, SessionsAssumption DEF AccountTyped
<1> QED BY <1>1, <1>2, LenProperties

\* A request that names an operation on a session has that session, and
\* captured its time after the session was created.
LEMMA RequestIs ==
    ASSUME SessionInv, NEW r \in Requests, requests[r] # Idle
    PROVE  /\ requests[r] \in Request /\ Now(r) \in Nat /\ Now(r) <= clock
           /\ requests[r].key \in Keys \cup {NoKey} /\ requests[r].password \in Nat
           /\ requests[r].op \in SessionOperations =>
                Own(r) \in 1..Len(sessions) /\ sessions[Own(r)].created <= Now(r)
<1>1. requests[r] \in Request /\ RequestTyped(requests[r])
  BY SessionBasics DEF RequestsTyped
<1> QED BY <1>1 DEF Request, RequestTyped, Own, Now

\* The last step of a request keeps the invariant if its effect on the account
\* and on the rows does.
LEMMA EndKeepsInv ==
    ASSUME SessionInv, NEW r \in Requests, End(r), AccountTyped', RowsStay, RowsInv', (ActiveKeys # {})'
    PROVE  SessionInv'
<1>1. RequestsTyped'
  BY SessionBasics, EndIs, RequestsStay
<1> QED BY <1>1 DEF SessionInv, Typed, RowsInv

\* So it does when the rows are only touched, or revoked.
LEMMA KeptRowsKeepInv ==
    ASSUME SessionInv, NEW r \in Requests, End(r), AccountTyped', (ActiveKeys # {})', clock' = clock,
           sessions' \in Seq(Session), Len(sessions') = Len(sessions), OldRowsKept
    PROVE  SessionInv'
<1>1. RowsInv'
  BY SessionBasics, NoNewRow
<1>2. RowsStay
  BY SessionBasics DEF RowsStay, OldRowsKept, Kept, SameSignIn
<1> QED BY <1>1, <1>2, EndKeepsInv

LEMMA SameRowsAreKept ==
    ASSUME SessionInv, UNCHANGED <<account, sessions>>,
           \A c \in ceremonies' : c.session \in 1..Len(sessions)
    PROVE  OldRowsKept
<1>1. \A t \in 1..Len(sessions) : RowTyped(t)
  BY DEF SessionInv, Typed, RowsTyped
<1> QED BY <1>1 DEF OldRowsKept, Kept, SameSignIn, SameProof, RowTyped

\* All sessions are revoked at once.
LEMMA AllRevoked ==
    ASSUME SessionInv, sessions' = Ended(RevokeMatching(sessions, 0), 0), UNCHANGED ceremonies
    PROVE  sessions' \in Seq(Session) /\ Len(sessions') = Len(sessions) /\ OldRowsKept
<1> DEFINE rows == RevokeMatching(sessions, 0)
<1>1. /\ sessions \in Seq(Session) /\ Len(sessions) \in Nat
      /\ \A t \in 1..Len(sessions) : RowTyped(t) /\ t # 0
      /\ \A c \in ceremonies' : c.session \in 1..Len(sessions)
  BY SessionBasics DEF SessionInv, Typed, RowsTyped
<1>2. /\ rows \in Seq(Session) /\ Len(rows) = Len(sessions)
      /\ \A t \in 1..Len(sessions) :
           /\ rows[t].revoked /\ SameSignIn(sessions[t], rows[t]) /\ SameProof(sessions[t], rows[t])
           /\ SameWindow(sessions[t], rows[t])
  BY <1>1, RevokeMatchingIs
<1> HIDE DEF rows
<1>3. /\ sessions' \in Seq(Session) /\ Len(sessions') = Len(sessions)
      /\ \A t \in 1..Len(sessions) :
           /\ sessions'[t].revoked = rows[t].revoked /\ SameSignIn(rows[t], sessions'[t])
           /\ SameProof(rows[t], sessions'[t]) /\ SameWindow(rows[t], sessions'[t])
  BY <1>2, EndedIs DEF rows
<1>4. \A t \in 1..Len(sessions) : Kept(sessions[t], sessions'[t]) /\ sessions'[t].revoked
  BY <1>1, <1>2, <1>3 DEF Kept, SameSignIn, SameProof, SameWindow, RowTyped
<1> QED BY <1>1, <1>3, <1>4 DEF OldRowsKept

\* One live session is replaced, and the account suits the replacement.
LEMMA ReplacementKeepsInv ==
    ASSUME SessionInv, NEW r \in Requests, requests[r] # Idle, requests[r].op \in SessionOperations,
           NEW fresh \in Nat \cup {Never}, NEW key \in Keys \cup {NoKey},
           NEW proof \in Nat \cup {Never}, NEW current \in Nat,
           KeepOnlyReplacement(r, fresh, key, proof, current),
           AccountTyped', (ActiveKeys # {})', clock' = clock, ceremonies' \subseteq ceremonies,
           fresh # Never => fresh = proof, status' = "active", current = password',
           (key # NoKey => key \in ActiveKeys)'
    PROVE  SessionInv'
<1>1. PICK n \in Nat : n = Len(sessions)
  BY SessionBasics
<1>2. PICK s \in 1..n : s = Own(r)
  BY <1>1, RequestIs
<1>3. /\ End(r) /\ Now(r) \in Nat /\ sessions[s].created <= Now(r) /\ sessions[s].created <= clock
      /\ RowTyped(s) /\ sessions[s].created \in Nat /\ ~sessions[s].revoked
  <2>1. RowTyped(s) /\ sessions[s].created \in Nat
    BY <1>1, SessionBasics DEF RowsInv, RowsTyped, Session
  <2> QED BY <1>1, <1>2, <2>1, RequestIs DEF KeepOnlyReplacement, Rotatable, IsSessionActive, RowTyped
<1>4. Replacement(Own(r), Now(r), fresh, key, proof, current)
  BY <1>1, <1>2, <1>3, OnlyReplacementIs DEF SessionInv
<1>5. /\ sessions' \in Seq(Session) /\ Len(sessions') = n + 1
      /\ \A t \in 1..n : /\ sessions'[t].revoked /\ SameSignIn(sessions[t], sessions'[t])
                         /\ SameProof(sessions[t], sessions'[t]) /\ SameWindow(sessions[t], sessions'[t])
  BY <1>1, <1>4 DEF Replacement
<1>6. /\ SameSignIn(sessions[s], sessions'[n + 1]) /\ sessions'[n + 1].seen = Now(r)
      /\ sessions'[n + 1].idle <= sessions'[n + 1].until
      /\ sessions'[n + 1].fresh = fresh /\ sessions'[n + 1].proof = proof
      /\ sessions'[n + 1].key = key /\ ~sessions'[n + 1].revoked /\ ~sessions'[n + 1].ended
      /\ sessions'[n + 1].password \in {0, current}
  BY <1>1, <1>2, <1>4 DEF Replacement
<1>7. OldRowsKept
  <2>1. \A t \in 1..n : RowTyped(t)
    BY <1>1, SessionBasics DEF RowsInv, RowsTyped
  <2>2. \A t \in 1..n : Kept(sessions[t], sessions'[t])
    BY <1>5, <2>1 DEF Kept, SameSignIn, SameWindow, RowTyped
  <2> QED BY <1>1, <1>5, <2>2, SessionBasics DEF OldRowsKept, RowsInv, RowsTyped
<1>8. NewestHolds(sessions[n + 1])'
  BY <1>3, <1>6 DEF NewestHolds, SameSignIn, Valid, Earned
<1>9. RotatedFrom(sessions'[n + 1], s)
  BY <1>3, <1>5, <1>6 DEF RotatedFrom
<1>10. RowsInv'
  <2>1. AccountTyped /\ RowsInv /\ clock <= clock'
    BY SessionBasics
  <2>2. \E t \in 1..n : RotatedFrom(sessions'[n + 1], t)
    BY <1>9
  <2> QED BY <1>1, <1>5, <1>7, <1>8, <2>1, <2>2, OneNewRow
<1>11. RowsStay
  BY <1>1, <1>5, SessionBasics DEF RowsStay, SameSignIn
<1> QED BY <1>3, <1>10, <1>11, EndKeepsInv

-----------------------------------------------------------------------------
(* Every operation keeps the invariant.                                      *)

LEMMA TickKeepsInv ==
    ASSUME SessionInv, Tick
    PROVE  SessionInv'
<1>1. AccountTyped' /\ clock <= clock' /\ clock' \in Nat
  BY SessionBasics, SessionsAssumption DEF Tick, AccountTyped, account
<1>2. UNCHANGED <<status, password, keys, sessions, ceremonies, requests>>
  BY DEF Tick, account
<1>3. OldRowsKept
  BY <1>2, SessionBasics, SameRowsAreKept DEF account, RowsInv, RowsTyped
<1>4. RowsInv'
  BY <1>1, <1>2, <1>3, SessionBasics, NoNewRow
<1>5. RequestsTyped'
  BY <1>1, <1>2, SessionBasics, RequestsStay DEF RowsStay, RequestsTyped
<1> QED BY <1>1, <1>2, <1>4, <1>5 DEF SessionInv, Typed, RowsInv, ActiveKeys

LEMMA ReactivateKeepsInv ==
    ASSUME SessionInv, ReactivateAccount
    PROVE  SessionInv'
<1>1. /\ status = "suspended" /\ UNCHANGED <<clock, password, keys, sessions, ceremonies, requests>>
      /\ AccountTyped'
  BY SessionBasics DEF ReactivateAccount, AccountTyped
<1>2. \A t \in 1..Len(sessions) : RowTyped(t) /\ sessions[t].revoked
  BY <1>1 DEF SessionInv, Typed, RowsTyped, RowsHold, Valid
<1>3. OldRowsKept
  BY <1>1, <1>2, SessionBasics
     DEF OldRowsKept, Kept, SameSignIn, SameProof, RowTyped, RowsInv, RowsTyped
<1>4. RowsInv'
  BY <1>1, <1>3, SessionBasics, NoNewRow
<1>5. RequestsTyped'
  BY <1>1, SessionBasics DEF RequestsTyped, RequestTyped
<1> QED BY <1>1, <1>4, <1>5 DEF SessionInv, Typed, RowsInv, ActiveKeys

\* The account, the rows and the ceremonies stay as they are.
LEMMA RefuseKeepsInv ==
    ASSUME SessionInv, NEW r \in Requests, Refuse(r)
    PROVE  SessionInv'
<1>1. End(r) /\ UNCHANGED <<clock, status, password, keys, sessions, ceremonies>>
  BY DEF Refuse, account
<1>2. OldRowsKept
  BY <1>1, SessionBasics, SameRowsAreKept DEF account, RowsInv, RowsTyped
<1>3. AccountTyped' /\ (ActiveKeys # {})'
  BY <1>1 DEF SessionInv, Typed, AccountTyped, ActiveKeys
<1> QED BY <1>1, <1>2, <1>3, SessionBasics, KeptRowsKeepInv

LEMMA CreateOptionsKeepsInv ==
    ASSUME SessionInv, NEW r \in Requests, CreateOptions(r)
    PROVE  SessionInv'
<1>1. PICK purpose \in {"reauthenticate", "addPasskey"} :
        /\ In(r, "options", "begun")
        /\ ceremonies' =
             {c \in ceremonies : c.session # Own(r) \/ c.purpose # purpose \/ Now(r) >= c.expires}
             \cup {[session |-> Own(r), purpose |-> purpose, expires |-> Now(r) + CeremonyTTL]}
        /\ End(r) /\ UNCHANGED <<clock, status, password, keys, sessions>>
  BY DEF CreateOptions, account
<1>2. Own(r) \in 1..Len(sessions)
  BY <1>1, RequestIs DEF In, SessionOperations
<1>3. OldRowsKept
  <2>1. \A c \in ceremonies' : c.session \in 1..Len(sessions)
    BY <1>1, <1>2, SessionBasics DEF RowsInv, RowsTyped
  <2> QED BY <1>1, <2>1, SameRowsAreKept DEF account
<1>4. AccountTyped' /\ (ActiveKeys # {})'
  BY <1>1 DEF SessionInv, Typed, AccountTyped, ActiveKeys
<1> QED BY <1>1, <1>3, <1>4, SessionBasics, KeptRowsKeepInv

LEMMA BeginningsKeepInv ==
    ASSUME SessionInv, NEW r \in Requests,
           ResolveActiveSession(r) \/ BeginSignIn(r) \/ BeginRevocation(r)
    PROVE  SessionInv'
<1>1. CASE ResolveActiveSession(r)
  <2>1. PICK op \in SessionOperations, s \in 1..Len(sessions), key \in Keys, at \in {"touch", "begun"} :
          Begin(r, op, at, s, key)
    BY <1>1, SessionBasics DEF ResolveActiveSession
  <2> QED BY <2>1, BeginKeepsInv DEF SessionOperations
<1>2. CASE BeginSignIn(r)
  <2>1. PICK op \in SignIns, key \in Keys \cup {NoKey} :
          Begin(r, op, "begun", 0, key) /\ (op = "passwordSignIn" => key = NoKey)
    BY <1>2 DEF BeginSignIn, SignIns, ActiveKeys
  <2> QED BY <2>1, BeginKeepsInv DEF SignIns, SessionOperations
<1>3. CASE BeginRevocation(r)
  <2>1. PICK op \in Revocations, key \in Keys \cup {NoKey} : Begin(r, op, "begun", 0, key)
    BY <1>3 DEF BeginRevocation, Revocations
  <2> QED BY <2>1, BeginKeepsInv DEF Revocations, SessionOperations
<1> QED BY <1>1, <1>2, <1>3

LEMMA LogoutKeepsInv ==
    ASSUME SessionInv, NEW r \in Requests, LogoutCurrentSession(r)
    PROVE  SessionInv'
<1>1. /\ sessions' = [sessions EXCEPT ![Own(r)].revoked = TRUE]
      /\ End(r) /\ UNCHANGED <<clock, status, password, keys, ceremonies>>
  BY DEF LogoutCurrentSession, account
<1>2. Own(r) \in 1..Len(sessions)
  BY RequestIs DEF LogoutCurrentSession, In, SessionOperations
<1>3. /\ sessions' \in [1..Len(sessions) -> Session]
      /\ \A t \in 1..Len(sessions) : Kept(sessions[t], sessions'[t])
  <2>1. sessions \in [1..Len(sessions) -> Session] /\ \A t \in 1..Len(sessions) : RowTyped(t)
    BY SessionBasics, LenProperties DEF RowsInv, RowsTyped
  <2>2. sessions' \in [1..Len(sessions) -> Session]
    BY <1>1, <1>2, <2>1 DEF Session
  <2>3. ASSUME NEW t \in 1..Len(sessions) PROVE Kept(sessions[t], sessions'[t])
    <3>1. CASE t = Own(r)
      <4>1. sessions[t] \in Session /\ RowTyped(t) /\ sessions'[t] = [sessions[t] EXCEPT !.revoked = TRUE]
        BY <1>1, <2>1, <3>1
      <4> QED BY <4>1 DEF Session, Kept, SameSignIn, SameProof, RowTyped
    <3>2. CASE t # Own(r)
      BY <1>1, <2>1, <3>2 DEF Kept, SameSignIn, SameProof, RowTyped
    <3> QED BY <3>1, <3>2
  <2> QED BY <2>2, <2>3
<1>4. sessions' \in Seq(Session) /\ Len(sessions') = Len(sessions)
  BY <1>3, SessionBasics, IsRows
<1>5. OldRowsKept
  BY <1>1, <1>3, SessionBasics DEF OldRowsKept, account, RowsInv, RowsTyped
<1>6. AccountTyped' /\ (ActiveKeys # {})'
  BY <1>1 DEF SessionInv, Typed, AccountTyped, ActiveKeys
<1> QED BY <1>1, <1>4, <1>5, <1>6, KeptRowsKeepInv

\* All sessions are revoked: a sign-out everywhere, a suspension, a recovery.
LEMMA LogoutAllKeepsInv ==
    ASSUME SessionInv, NEW r \in Requests, LogoutAllSessions(r)
    PROVE  SessionInv'
<1>1. AccountTyped' /\ (ActiveKeys # {})'
  BY DEF LogoutAllSessions, account, SessionInv, Typed, AccountTyped, ActiveKeys
<1> QED BY <1>1, AllRevoked, KeptRowsKeepInv DEF LogoutAllSessions, account

LEMMA SuspendKeepsInv ==
    ASSUME SessionInv, NEW r \in Requests, SuspendAccount(r)
    PROVE  SessionInv'
<1>1. AccountTyped' /\ (ActiveKeys # {})'
  BY DEF SuspendAccount, SessionInv, Typed, AccountTyped, ActiveKeys
<1> QED BY <1>1, AllRevoked, KeptRowsKeepInv DEF SuspendAccount

LEMMA RecoveryKeepsInv ==
    ASSUME SessionInv, NEW r \in Requests, CompleteRecovery(r)
    PROVE  SessionInv'
<1>1. keys' = [keys EXCEPT ![requests[r].key] = "active"] /\ UNCHANGED <<clock, status, password>>
  BY DEF CompleteRecovery
<1>2. AccountTyped'
  BY <1>1, SessionBasics DEF AccountTyped, KeyStates
<1>3. (ActiveKeys # {})'
  BY <1>1, SessionBasics DEF SessionInv, AccountTyped, ActiveKeys
<1> QED BY <1>2, <1>3, AllRevoked, KeptRowsKeepInv DEF CompleteRecovery

\* What a touch writes was computed from a row that may have been touched since.
LEMMA TouchKeepsInv ==
    ASSUME SessionInv, NEW r \in Requests, TouchAccountSession(r)
    PROVE  SessionInv'
<1>1. PICK s \in 1..Len(sessions) : s = Own(r)
  BY SessionBasics, RequestIs DEF TouchAccountSession, RequestsTyped, RequestTyped, Own
<1>2. PICK seen \in Nat : /\ seen = (IF requests[r].seen < Now(r) THEN Now(r) ELSE requests[r].seen)
                         /\ sessions[s].created <= seen
  <2>1. requests[r].seen \in Nat /\ Now(r) \in Nat
    BY RequestIs DEF TouchAccountSession, Request
  <2>2. sessions[s].created <= Now(r) /\ sessions[s].created <= requests[r].seen
    BY <1>1, SessionBasics, RequestIs
       DEF TouchAccountSession, RequestsTyped, RequestTyped, Own, Now
  <2> QED BY <2>1, <2>2
<1>3. PICK idle \in Nat : /\ idle = ComputeIdleExpiresAt(seen, sessions[s].until)
                         /\ idle <= sessions[s].until
  <2>1. sessions[s].until \in Nat
    BY SessionBasics DEF Session
  <2> QED BY <2>1, IdleIsBounded
<1>4. /\ sessions' = [sessions EXCEPT ![s].seen = seen, ![s].idle = idle]
      /\ UNCHANGED <<clock, status, password, keys, ceremonies>>
  BY <1>1, <1>2, <1>3 DEF TouchAccountSession, account
<1>5. sessions \in [1..Len(sessions) -> Session] /\ \A t \in 1..Len(sessions) : RowTyped(t)
  BY SessionBasics, LenProperties DEF RowsInv, RowsTyped
<1>6. sessions' \in [1..Len(sessions) -> Session]
  <2>1. sessions[s] \in Session
    BY <1>5
  <2>2. [[sessions[s] EXCEPT !.seen = seen] EXCEPT !.idle = idle] \in Session
    BY <2>1 DEF Session
  <2>3. \A t \in 1..Len(sessions) : sessions'[t] \in Session
    <3> SUFFICES ASSUME NEW t \in 1..Len(sessions) PROVE sessions'[t] \in Session
      OBVIOUS
    <3>1. CASE t = s
      BY <1>4, <1>5, <2>2, <3>1
    <3>2. CASE t # s
      BY <1>4, <1>5, <3>2
    <3> QED BY <3>1, <3>2
  <2>4. sessions' = [t \in 1..Len(sessions) |-> sessions'[t]]
    BY <1>4, <1>5
  <2> QED BY <2>3, <2>4
<1>7. ASSUME NEW t \in 1..Len(sessions) PROVE Kept(sessions[t], sessions'[t])
  <2>1. CASE t = s
    <3>1. /\ sessions[t] \in Session /\ RowTyped(t)
          /\ sessions'[t] = [sessions[t] EXCEPT !.seen = seen, !.idle = idle]
      BY <1>4, <1>5, <2>1
    <3> QED BY <1>2, <1>3, <2>1, <3>1 DEF Session, Kept, SameSignIn, SameProof
  <2>2. CASE t # s
    BY <1>4, <1>5, <2>2 DEF Kept, SameSignIn, SameProof, RowTyped
  <2> QED BY <2>1, <2>2
<1>8. /\ sessions' \in Seq(Session) /\ Len(sessions') = Len(sessions) /\ OldRowsKept
  BY <1>4, <1>6, <1>7, SessionBasics, IsRows DEF OldRowsKept, account, RowsInv, RowsTyped
<1>9. AccountTyped' /\ (ActiveKeys # {})'
  BY <1>4 DEF SessionInv, Typed, AccountTyped, ActiveKeys
<1>10. RowsInv' /\ RowsStay
  BY <1>4, <1>8, <1>9, SessionBasics, NoNewRow DEF RowsStay, OldRowsKept, Kept, SameSignIn
<1>11. RequestsTyped'
  <2> DEFINE q == requests[r]
             at == IF q.op \in CaptureFirst THEN q.now ELSE clock
             next == [q EXCEPT !.at = "begun", !.seen = 0, !.now = at]
  <2>1. /\ requests \in [Requests -> Request \cup {Idle}] /\ q \in Request
        /\ q.at = "touch" /\ q.now \in Nat /\ q.now <= clock /\ clock \in Nat
        /\ q.op \in SessionOperations /\ q.session = s /\ sessions[s].created <= q.now
    BY <1>1, SessionBasics, RequestIs
       DEF TouchAccountSession, RequestsTyped, RequestTyped, Own, Now
  <2>2. requests' = [requests EXCEPT ![r] = IF q.op = "visit" THEN Idle ELSE next]
    BY <2>1 DEF TouchAccountSession, Now
  <2> HIDE DEF q
  <2>3. sessions[s].created \in Nat /\ sessions[s].created <= clock /\ sessions'[s].created = sessions[s].created
    BY <1>5, <1>7, SessionBasics DEF Session, RowTyped, Kept, SameSignIn
  <2>4. at \in Nat /\ at <= clock /\ sessions[s].created <= at
    BY <2>1, <2>3
  <2> HIDE DEF at
  <2>5. next \in Request /\ next.now = at /\ next.op = q.op /\ next.session = s /\ next.at = "begun"
    BY <2>1, <2>4 DEF Request
  <2> HIDE DEF next
  <2>6. /\ requests' \in [Requests -> Request \cup {Idle}]
        /\ requests'[r] \in {Idle, next} /\ \A i \in Requests : i # r => requests'[i] = requests[i]
    BY <2>1, <2>2, <2>5
  <2>7. requests'[r] = next => RequestTyped(requests[r])'
    BY <1>4, <1>8, <2>1, <2>3, <2>4, <2>5 DEF RequestTyped, SessionOperations
  <2> QED BY <1>10, <2>6, <2>7, SessionBasics, RequestsStay
<1> QED BY <1>9, <1>10, <1>11 DEF SessionInv, Typed, RowsInv

\* A sign-in adds a row that suits the account.
LEMMA SignInKeepsInv ==
    ASSUME SessionInv, NEW r \in Requests, CreateAccountSession(r), requests[r] # Idle,
           requests[r].key # NoKey => requests[r].key \in ActiveKeys,
           requests[r].key = NoKey => requests[r].password = password
    PROVE  SessionInv'
<1>1. PICK n \in Nat : n = Len(sessions)
  BY SessionBasics
<1>2. PICK now \in Nat, key \in Keys \cup {NoKey}, shown \in Nat :
        /\ now = Now(r) /\ now <= clock /\ key = requests[r].key
        /\ shown = (IF key = NoKey THEN requests[r].password ELSE 0)
        /\ shown \in {0, password} /\ (key # NoKey => key \in ActiveKeys)
  BY RequestIs
<1> DEFINE row == [chain |-> n + 1, created |-> now, seen |-> now,
                   idle |-> ComputeIdleExpiresAt(now, now + AbsoluteTimeout),
                   until |-> now + AbsoluteTimeout, fresh |-> Never,
                   key |-> key, revoked |-> FALSE, ended |-> FALSE, proof |-> Never,
                   password |-> shown]
<1>3. sessions' = Append(sessions, row)
  BY <1>1, <1>2 DEF CreateAccountSession
<1>4. /\ status = "active" /\ End(r)
      /\ UNCHANGED <<clock, status, password, keys, ceremonies>>
  BY DEF CreateAccountSession, account
<1>5. /\ row \in Session /\ row.created = now /\ row.seen = now /\ row.idle <= row.until
      /\ row.until = row.created + AbsoluteTimeout /\ row.chain = n + 1
      /\ ~row.revoked /\ ~row.ended /\ row.fresh = Never /\ row.key = key /\ row.password = shown
  <2>1. now + AbsoluteTimeout \in Nat
    BY SessionsAssumption
  <2> QED BY <2>1, IdleIsBounded DEF Session
<1> HIDE DEF row
<1>6. /\ sessions' \in Seq(Session) /\ Len(sessions') = n + 1 /\ sessions'[n + 1] = row
      /\ \A t \in 1..n : sessions'[t] = sessions[t]
  BY <1>1, <1>3, <1>5, SessionBasics
<1>7. OldRowsKept
  <2>1. \A t \in 1..n : RowTyped(t)
    BY <1>1, SessionBasics DEF RowsInv, RowsTyped
  <2> QED BY <1>1, <1>4, <1>6, <2>1, SessionBasics
          DEF OldRowsKept, Kept, SameSignIn, SameProof, RowTyped, account, RowsInv, RowsTyped
<1>8. NewestHolds(sessions[n + 1])'
  BY <1>2, <1>4, <1>5, <1>6, SessionBasics DEF NewestHolds, Valid, Earned, ActiveKeys
<1>9. SignedIn(sessions'[n + 1], n)
  BY <1>5, <1>6 DEF SignedIn
<1>10. AccountTyped' /\ (ActiveKeys # {})' /\ clock <= clock'
  BY <1>4, SessionBasics DEF SessionInv, AccountTyped, ActiveKeys
<1>11. RowsInv'
  BY <1>1, <1>6, <1>7, <1>8, <1>9, <1>10, SessionBasics, OneNewRow
<1>12. RowsStay
  BY <1>1, <1>4, <1>6, SessionBasics DEF RowsStay
<1> QED BY <1>4, <1>10, <1>11, <1>12, EndKeepsInv

LEMMA SignInsKeepInv ==
    ASSUME SessionInv, NEW r \in Requests,
           AuthenticateWithPassword(r) \/ VerifyPasskeyAuthentication(r)
    PROVE  SessionInv'
<1>1. CASE AuthenticateWithPassword(r)
  <2>1. requests[r] # Idle /\ requests[r].key = NoKey
    BY <1>1, SessionBasics DEF AuthenticateWithPassword, In, RequestsTyped, RequestTyped
  <2> QED BY <1>1, <2>1, SignInKeepsInv DEF AuthenticateWithPassword
<1>2. CASE VerifyPasskeyAuthentication(r)
  <2>1. requests[r] # Idle /\ requests[r].key \in ActiveKeys /\ requests[r].key # NoKey
    BY <1>2, SessionsAssumption DEF VerifyPasskeyAuthentication, In, ActiveKeys
  <2> QED BY <1>2, <2>1, SignInKeepsInv DEF VerifyPasskeyAuthentication
<1> QED BY <1>1, <1>2

\* A rotation that leaves the other sessions alone.
RotatedOnly(s) ==
    LET n == Len(sessions)
        new == sessions'[n + 1] IN
    /\ sessions' \in Seq(Session) /\ Len(sessions') = n + 1
    /\ \A t \in 1..n : t # s => sessions'[t] = sessions[t]
    /\ sessions'[s].revoked /\ SameSignIn(sessions[s], sessions'[s])
    /\ SameProof(sessions[s], sessions'[s]) /\ SameWindow(sessions[s], sessions'[s])
    /\ SameSignIn(sessions[s], new) /\ new.created <= new.seen /\ new.idle <= new.until
    /\ ~new.revoked /\ new.ended = sessions[s].ended /\ new.password = sessions[s].password
    /\ new.key # NoKey => new.key \in ActiveKeys
    /\ Earned(new)

LEMMA RotationKeepsInv ==
    ASSUME SessionInv, NEW r \in Requests, NEW s \in 1..Len(sessions), ~sessions[s].revoked,
           RotatedOnly(s), End(r), UNCHANGED <<clock, account>>, ceremonies' \subseteq ceremonies
    PROVE  SessionInv'
<1>1. PICK n \in Nat : n = Len(sessions)
  BY SessionBasics
<1>2. s \in 1..n /\ RowTyped(s) /\ Valid(sessions[s]) /\ sessions[s].created \in Nat
  BY <1>1, SessionBasics DEF RowsInv, RowsTyped, RowsHold, Session
<1>3. UNCHANGED <<clock, status, password, keys>>
  BY DEF account
<1>4. /\ sessions' \in Seq(Session) /\ Len(sessions') = n + 1
      /\ \A t \in 1..n : t # s => sessions'[t] = sessions[t]
      /\ sessions'[s].revoked /\ SameSignIn(sessions[s], sessions'[s])
      /\ SameProof(sessions[s], sessions'[s]) /\ SameWindow(sessions[s], sessions'[s])
      /\ SameSignIn(sessions[s], sessions'[n + 1])
  BY <1>1 DEF RotatedOnly
<1>5. OldRowsKept
  <2>1. ASSUME NEW t \in 1..n PROVE Kept(sessions[t], sessions'[t])
    <3>1. RowTyped(t)
      BY <1>1, SessionBasics DEF RowsInv, RowsTyped
    <3>2. CASE t = s
      BY <1>4, <3>1, <3>2 DEF Kept, SameSignIn, SameProof, SameWindow, RowTyped
    <3>3. CASE t # s
      BY <1>4, <3>1, <3>3 DEF Kept, SameSignIn, SameProof, RowTyped
    <3> QED BY <3>2, <3>3
  <2> QED BY <1>1, <2>1, SessionBasics DEF OldRowsKept, RowsInv, RowsTyped
<1>6. NewestHolds(sessions[n + 1])'
  BY <1>1, <1>2, <1>3, SessionBasics
     DEF RotatedOnly, NewestHolds, SameSignIn, Valid, Earned, ActiveKeys, RowTyped
<1>7. \E t \in 1..n : RotatedFrom(sessions'[n + 1], t)
  BY <1>2, <1>4 DEF RotatedFrom
<1>8. AccountTyped' /\ (ActiveKeys # {})' /\ clock <= clock'
  BY <1>3, SessionBasics DEF SessionInv, AccountTyped, ActiveKeys
<1>9. RowsInv'
  BY <1>1, <1>4, <1>5, <1>6, <1>7, <1>8, SessionBasics, OneNewRow
<1>10. RowsStay
  BY <1>1, <1>3, <1>4, <1>5, SessionBasics DEF RowsStay, OldRowsKept, Kept, SameSignIn
<1> QED BY <1>8, <1>9, <1>10, EndKeepsInv

LEMMA RotateKeepsInv ==
    ASSUME SessionInv, NEW r \in Requests, RotateCurrentSession(r)
    PROVE  SessionInv'
<1>1. PICK n \in Nat : n = Len(sessions)
  BY SessionBasics
<1>2. requests[r] # Idle /\ requests[r].op \in SessionOperations
  BY DEF RotateCurrentSession, In, SessionOperations
<1>3. PICK s \in 1..n, now \in Nat :
        s = Own(r) /\ now = Now(r) /\ sessions[s].created <= now
  BY <1>1, <1>2, RequestIs
<1>4. PICK fresh \in Nat \cup {Never}, key \in Keys \cup {NoKey} :
        fresh = sessions[s].fresh /\ key = sessions[s].key
  BY <1>1, SessionBasics DEF Session
<1>5. /\ ~sessions[s].revoked /\ End(r) /\ UNCHANGED <<clock, account, ceremonies>>
      /\ sessions' = Rotated(s, now, fresh, key)
  BY <1>3, <1>4 DEF RotateCurrentSession, Rotatable, IsSessionActive
<1>6. Rotation(Rotated(s, now, fresh, key), s, now, fresh, key)
  BY <1>1, SessionBasics, RotatedIs
<1>7. key # NoKey => key \in ActiveKeys
  BY <1>1, <1>4, <1>5, SessionBasics DEF RowsInv, RowsHold, Valid
<1>8. fresh # Never => fresh = sessions[s].proof
  BY <1>1, <1>4, SessionBasics DEF RowsInv, RowsHold, Earned
<1>9. RotatedOnly(s)
  BY <1>1, <1>3, <1>5, <1>6, <1>7, <1>8 DEF Rotation, RotatedOnly, SameSignIn, Earned
<1> QED BY <1>1, <1>5, <1>9, RotationKeepsInv

LEMMA ReauthenticateKeepsInv ==
    ASSUME SessionInv, NEW r \in Requests, VerifyPasskeyReauthentication(r)
    PROVE  SessionInv'
<1>1. PICK n \in Nat : n = Len(sessions)
  BY SessionBasics
<1>2. requests[r] # Idle /\ requests[r].op \in SessionOperations
  BY DEF VerifyPasskeyReauthentication, In, SessionOperations
<1>3. PICK s \in 1..n, now \in Nat, key \in Keys :
        /\ s = Own(r) /\ now = Now(r) /\ sessions[s].created <= now
        /\ key = requests[r].key /\ key \in ActiveKeys
  BY <1>1, <1>2, RequestIs DEF VerifyPasskeyReauthentication, ActiveKeys
<1> DEFINE rows == Rotated(s, now, now, key)
<1>4. /\ ~sessions[s].revoked /\ End(r) /\ UNCHANGED <<clock, account>>
      /\ ceremonies' \subseteq ceremonies
      /\ sessions' = [rows EXCEPT ![Len(rows)].proof = now]
  BY <1>3 DEF VerifyPasskeyReauthentication, ConsumeCeremony, Rotatable, IsSessionActive
<1>5. Rotation(rows, s, now, now, key)
  BY <1>1, SessionBasics, RotatedIs
<1> HIDE DEF rows
<1>6. /\ rows \in [1..(n + 1) -> Session] /\ Len(rows) = n + 1
      /\ n + 1 \in 1..(n + 1) /\ \A t \in 1..n : t # n + 1 /\ t \in 1..(n + 1)
  BY <1>1, <1>5, LenProperties DEF Rotation
<1>7. sessions' \in [1..(n + 1) -> Session]
  BY <1>4, <1>6 DEF Session
<1>8. sessions' \in Seq(Session) /\ Len(sessions') = n + 1
  BY <1>7, IsRows
<1>9. \A t \in 1..n : sessions'[t] = rows[t]
  BY <1>4, <1>6
<1>10. /\ SameSignIn(rows[n + 1], sessions'[n + 1]) /\ SameWindow(rows[n + 1], sessions'[n + 1])
       /\ sessions'[n + 1].proof = now /\ sessions'[n + 1].fresh = rows[n + 1].fresh
       /\ sessions'[n + 1].key = rows[n + 1].key /\ sessions'[n + 1].revoked = rows[n + 1].revoked
       /\ sessions'[n + 1].ended = rows[n + 1].ended /\ sessions'[n + 1].password = rows[n + 1].password
  <2>1. rows[n + 1] \in Session /\ sessions'[n + 1] = [rows[n + 1] EXCEPT !.proof = now]
    BY <1>4, <1>6
  <2> QED BY <2>1 DEF Session, SameSignIn, SameWindow
<1>11. RotatedOnly(s)
  <2>1. /\ \A t \in 1..n : t # s => sessions'[t] = sessions[t]
        /\ sessions'[s].revoked /\ SameSignIn(sessions[s], sessions'[s])
        /\ SameProof(sessions[s], sessions'[s]) /\ SameWindow(sessions[s], sessions'[s])
    BY <1>1, <1>5, <1>9 DEF Rotation, SameSignIn, SameProof, SameWindow
  <2>2. /\ SameSignIn(sessions[s], sessions'[n + 1]) /\ sessions'[n + 1].seen = now
        /\ sessions'[n + 1].created <= now /\ sessions'[n + 1].idle <= sessions'[n + 1].until
        /\ ~sessions'[n + 1].revoked /\ sessions'[n + 1].ended = sessions[s].ended
        /\ sessions'[n + 1].password = sessions[s].password /\ sessions'[n + 1].key = key
        /\ sessions'[n + 1].fresh = now
    BY <1>1, <1>3, <1>5, <1>10 DEF Rotation, SameSignIn, SameWindow
  <2> QED BY <1>1, <1>3, <1>8, <1>10, <2>1, <2>2 DEF RotatedOnly, Earned
<1> QED BY <1>1, <1>4, <1>11, RotationKeepsInv

LEMMA ChangePasswordKeepsInv ==
    ASSUME SessionInv, NEW r \in Requests, ChangeAccountPassword(r)
    PROVE  SessionInv'
<1>1. requests[r] # Idle /\ requests[r].op \in SessionOperations
  BY DEF ChangeAccountPassword, In, SessionOperations
<1>2. Own(r) \in 1..Len(sessions) /\ sessions[Own(r)] \in Session
  BY <1>1, SessionBasics, RequestIs
<1>3. PICK now \in Nat, key \in Keys \cup {NoKey}, current \in Nat :
        now = Now(r) /\ key = sessions[Own(r)].key /\ current = password + 1
  <2>1. Now(r) \in Nat
    BY <1>1, RequestIs
  <2>2. sessions[Own(r)].key \in Keys \cup {NoKey}
    BY <1>2 DEF Session
  <2> QED BY <2>1, <2>2, SessionBasics
<1>4. /\ password < MaxPasswords /\ status = "active" /\ password' = current
      /\ KeepOnlyReplacement(r, now, key, now, current)
      /\ UNCHANGED <<clock, status, keys, ceremonies>>
  BY <1>3 DEF ChangeAccountPassword
<1>5. ~sessions[Own(r)].revoked
  BY <1>4 DEF KeepOnlyReplacement, Rotatable, IsSessionActive
<1>6. (key # NoKey => key \in ActiveKeys)'
  BY <1>2, <1>3, <1>4, <1>5, SessionBasics DEF RowsInv, RowsHold, Valid, ActiveKeys
<1>7. AccountTyped' /\ (ActiveKeys # {})'
  BY <1>3, <1>4, SessionBasics, SessionsAssumption DEF SessionInv, AccountTyped, ActiveKeys
<1> QED BY <1>1, <1>3, <1>4, <1>6, <1>7, ReplacementKeepsInv

LEMMA AddPasskeyKeepsInv ==
    ASSUME SessionInv, NEW r \in Requests, VerifyManagedPasskeyRegistration(r)
    PROVE  SessionInv'
<1>1. requests[r] # Idle /\ requests[r].op \in SessionOperations
  BY DEF VerifyManagedPasskeyRegistration, In, SessionOperations
<1>2. Own(r) \in 1..Len(sessions) /\ sessions[Own(r)] \in Session
  BY <1>1, SessionBasics, RequestIs
<1>3. PICK fresh \in Nat \cup {Never}, key \in Keys \cup {NoKey}, proof \in Nat \cup {Never}, current \in Nat :
        /\ fresh = sessions[Own(r)].fresh /\ key = sessions[Own(r)].key
        /\ proof = sessions[Own(r)].proof /\ current = password
  BY <1>1, <1>2, SessionBasics DEF Session
<1>4. /\ status = "active" /\ keys' = [keys EXCEPT ![requests[r].key] = "active"]
      /\ KeepOnlyReplacement(r, fresh, key, proof, current)
      /\ ceremonies' \subseteq ceremonies /\ UNCHANGED <<clock, status, password>>
  BY <1>3 DEF VerifyManagedPasskeyRegistration, ConsumeCeremony
<1>5. ~sessions[Own(r)].revoked
  BY <1>4 DEF KeepOnlyReplacement, Rotatable, IsSessionActive
<1>6. ActiveKeys \subseteq (ActiveKeys)'
  BY <1>4, SessionBasics DEF AccountTyped, ActiveKeys
<1>7. (key # NoKey => key \in ActiveKeys)' /\ (fresh # Never => fresh = proof)
  BY <1>2, <1>3, <1>5, <1>6, SessionBasics DEF RowsInv, RowsHold, Valid, Earned
<1>8. AccountTyped' /\ (ActiveKeys # {})'
  BY <1>4, <1>6, SessionBasics DEF SessionInv, AccountTyped, KeyStates
<1> QED BY <1>1, <1>3, <1>4, <1>7, <1>8, ReplacementKeepsInv

\* Of two active passkeys at least, one remains.
LEMMA AnotherKey ==
    ASSUME SessionInv, NEW k \in ActiveKeys, Cardinality(ActiveKeys) > 1
    PROVE  \E j \in ActiveKeys : j # k
<1>1. SUFFICES ASSUME ActiveKeys = {k} PROVE FALSE
  OBVIOUS
<1>2. Cardinality({k}) = 1
  BY FS_Singleton
<1> QED BY <1>1, <1>2

LEMMA RevokePasskeyKeepsInv ==
    ASSUME SessionInv, NEW r \in Requests, RevokeManagedPasskey(r)
    PROVE  SessionInv'
<1>1. requests[r] # Idle /\ requests[r].op \in SessionOperations
  BY DEF RevokeManagedPasskey, In, SessionOperations
<1>2. Own(r) \in 1..Len(sessions) /\ sessions[Own(r)] \in Session
  BY <1>1, SessionBasics, RequestIs
<1>3. PICK fresh \in Nat \cup {Never}, key \in Keys \cup {NoKey}, proof \in Nat \cup {Never}, current \in Nat :
        /\ fresh = (IF sessions[Own(r)].key = NoKey THEN Never ELSE sessions[Own(r)].fresh)
        /\ key = sessions[Own(r)].key /\ proof = sessions[Own(r)].proof /\ current = password
  BY <1>1, <1>2, SessionBasics DEF Session
<1>4. /\ status = "active" /\ keys' = [keys EXCEPT ![requests[r].key] = "revoked"]
      /\ KeepOnlyReplacement(r, fresh, key, proof, current)
      /\ key # requests[r].key /\ RevocablePasskey(requests[r].key)
      /\ UNCHANGED <<clock, status, password, ceremonies>>
  BY <1>3 DEF RevokeManagedPasskey
<1>5. ~sessions[Own(r)].revoked
  BY <1>4 DEF KeepOnlyReplacement, Rotatable, IsSessionActive
<1>6. \A k \in ActiveKeys : k # requests[r].key => k \in (ActiveKeys)'
  BY <1>4, SessionBasics DEF AccountTyped, ActiveKeys
<1>7. (key # NoKey => key \in ActiveKeys)' /\ (fresh # Never => fresh = proof)
  BY <1>2, <1>3, <1>4, <1>5, <1>6, SessionBasics DEF RowsInv, RowsHold, Valid, Earned
<1>8. AccountTyped'
  BY <1>4, SessionBasics DEF AccountTyped, KeyStates
<1>9. (ActiveKeys # {})'
  BY <1>4, <1>6, AnotherKey DEF RevocablePasskey
<1> QED BY <1>1, <1>3, <1>4, <1>7, <1>8, <1>9, ReplacementKeepsInv

LEMMA InitSessionInv == Init => SessionInv
<1> SUFFICES ASSUME Init PROVE SessionInv
  OBVIOUS
<1>1. Len(sessions) = 0 /\ sessions \in Seq(Session) /\ ceremonies = {} /\ 1..Len(sessions) = {}
  BY DEF Init
<1>2. AccountTyped /\ FirstKey \in ActiveKeys
  BY SessionsAssumption DEF Init, AccountTyped, KeyStates, ActiveKeys
<1>3. RequestsTyped
  BY DEF Init, RequestsTyped
<1> QED BY <1>1, <1>2, <1>3 DEF SessionInv, Typed, RowsTyped, RowsHold, Alone

LEMMA NextSessionInv == SessionInv /\ [Next]_vars => SessionInv'
<1> SUFFICES ASSUME SessionInv, [Next]_vars PROVE SessionInv'
  OBVIOUS
<1>1. CASE UNCHANGED vars
  BY <1>1 DEF vars, account, SessionInv, Typed, AccountTyped, RowsTyped, RowTyped, RequestsTyped,
              RequestTyped, RowsHold, Valid, Earned, Alone, ActiveKeys
<1>2. CASE Tick
  BY <1>2, TickKeepsInv
<1>3. CASE ReactivateAccount
  BY <1>3, ReactivateKeepsInv
<1>4. ASSUME NEW r \in Requests,
             \/ Refuse(r) \/ ResolveActiveSession(r) \/ TouchAccountSession(r)
             \/ BeginSignIn(r) \/ AuthenticateWithPassword(r) \/ VerifyPasskeyAuthentication(r)
             \/ RotateCurrentSession(r) \/ LogoutCurrentSession(r) \/ LogoutAllSessions(r)
             \/ ChangeAccountPassword(r) \/ CreateOptions(r)
             \/ VerifyPasskeyReauthentication(r) \/ VerifyManagedPasskeyRegistration(r)
             \/ RevokeManagedPasskey(r)
             \/ BeginRevocation(r) \/ CompleteRecovery(r) \/ SuspendAccount(r)
      PROVE  SessionInv'
  BY <1>4, RefuseKeepsInv, BeginningsKeepInv, TouchKeepsInv, SignInsKeepInv, RotateKeepsInv,
     LogoutKeepsInv, LogoutAllKeepsInv, ChangePasswordKeepsInv, CreateOptionsKeepsInv,
     ReauthenticateKeepsInv, AddPasskeyKeepsInv, RevokePasskeyKeepsInv, RecoveryKeepsInv,
     SuspendKeepsInv
<1> QED BY <1>1, <1>2, <1>3, <1>4 DEF Next

-----------------------------------------------------------------------------
(* The theorems.                                                             *)

\* The inductive invariant: types, the windows of rows and of requests, and
\* what the four properties below need to hold together.
THEOREM SessionInvariant == Spec => []SessionInv
<1>1. Init => SessionInv
  BY InitSessionInv
<1>2. SessionInv /\ [Next]_vars => SessionInv'
  BY NextSessionInv
<1> QED BY <1>1, <1>2, PTL DEF Spec

\* After a suspension, a recovery, a new password, a change of passkeys or a
\* sign-out everywhere, no session that began before is live again, for any
\* number of requests under way (revokeMatchingSessions, authenticateWithPassword).
THEOREM EndedSessionsStayEnded == Spec => []NothingOutlivesRevocation
<1>1. SessionInv => NothingOutlivesRevocation
  BY SessionBasics DEF RowsInv, RowsHold, Valid, NothingOutlivesRevocation, Live
<1> QED BY <1>1, SessionInvariant, PTL

\* However many rotations of a session race, one replacement is live at most,
\* and the chain's absolute expiry stays that of its sign-in (rotateAccountSessionTx).
THEOREM RotationsDoNotFork == Spec => []OneLiveSessionPerSignIn
<1>1. SessionInv => OneLiveSessionPerSignIn
  <2> SUFFICES ASSUME SessionInv PROVE OneLiveSessionPerSignIn
    OBVIOUS
  <2>1. TypeOK
    BY SessionBasics DEF TypeOK, AccountTyped, KeyStates, RowsInv, RowsTyped, RowTyped
  <2> QED BY <2>1, SessionBasics
          DEF OneLiveSessionPerSignIn, Live, RowsInv, RowsTyped, RowTyped, Alone
<1> QED BY <1>1, SessionInvariant, PTL

\* A live session's passkey is active and its password current, and an account
\* never loses its last passkey (revokeManagedPasskey, revokePasskey).
THEOREM CredentialsStayValid == Spec => []SessionsHoldValidCredentials
<1>1. SessionInv => SessionsHoldValidCredentials
  BY SessionBasics DEF SessionInv, RowsInv, RowsHold, Valid, SessionsHoldValidCredentials, Live
<1> QED BY <1>1, SessionInvariant, PTL

\* Freshness is the time of a proof of presence made in the same chain of
\* sessions, whatever touches and rotations came after it.
THEOREM FreshnessIsNeverMade == Spec => []FreshnessIsEarned
<1>1. SessionInv => FreshnessIsEarned
  BY SessionBasics DEF RowsInv, RowsHold, Earned, FreshnessIsEarned
<1> QED BY <1>1, SessionInvariant, PTL
=============================================================================
