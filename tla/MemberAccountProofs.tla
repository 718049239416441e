------------------------ MODULE MemberAccountProofs ------------------------
(***************************************************************************)
(* What holds of the identity of one member: of its set-up, its recovery,   *)
(* its passkeys and its rate limits, for any number of requests, rows,      *)
(* passkeys and labels, any limits and lifetimes, and any time.             *)
(***************************************************************************)
EXTENDS MemberAccount, OneTimeRows, FiniteSetTheorems, SequenceTheorems, TLAPS

-----------------------------------------------------------------------------
(* Tables of rows that are used once.                                      *)

States == {"active", "consumed", "revoked"}
RowsOf(P) == [purpose : P, created : Nat, expires : Nat, state : States, tries : Nat]

\* The rows of a purpose that were used, and those that still can be.
Spent(table, p) == {i \in DOMAIN table : table[i].purpose = p /\ table[i].state = "consumed"}
LiveAt(table, t) == {i \in DOMAIN table : Usable(table[i], t)}
Unspent(table) == {i \in DOMAIN table : table[i].state = "active"}

\* The parts use these operators.
LEMMA SameOperators ==
    /\ \A p, t, ttl : Recovery!Row(p, t, ttl) = Row(p, t, ttl) /\ Setup!Row(p, t, ttl) = Row(p, t, ttl)
    /\ \A row, t : (Recovery!Usable(row, t) <=> Usable(row, t)) /\ (Setup!Usable(row, t) <=> Usable(row, t))
    /\ \A table, p, t, i : /\ Recovery!ToRevoke(table, p, t, i) = ToRevoke(table, p, t, i)
                           /\ Setup!ToRevoke(table, p, t, i) = ToRevoke(table, p, t, i)
    /\ \A table, S, state : /\ Recovery!SetState(table, S, state) = SetState(table, S, state)
                            /\ Setup!SetState(table, S, state) = SetState(table, S, state)
BY DEF Recovery!Row, Setup!Row, Row, Recovery!Usable, Setup!Usable, Usable, Recovery!ToRevoke,
       Setup!ToRevoke, ToRevoke, Recovery!SetState, Setup!SetState, SetState

Fresh(row, P, p) ==
    row \in RowsOf(P) /\ row.purpose = p /\ row.state = "active" /\ row.tries = 0

LEMMA RowIs ==
    ASSUME NEW P, NEW p \in P, NEW t \in Nat, NEW ttl \in Nat
    PROVE  Fresh(Row(p, t, ttl), P, p)
BY DEF Row, RowsOf, States, Fresh

LEMMA RowFields ==
    ASSUME NEW P, NEW table \in Seq(RowsOf(P))
    PROVE  \A i \in DOMAIN table : /\ table[i] \in RowsOf(P) /\ table[i].purpose \in P
                                   /\ table[i].expires \in Nat /\ table[i].tries \in Nat
                                   /\ table[i].state \in States
<1>1. \A i \in DOMAIN table : table[i] \in RowsOf(P)
  OBVIOUS
<1>2. \A row \in RowsOf(P) : /\ row.purpose \in P /\ row.expires \in Nat /\ row.tries \in Nat
                             /\ row.state \in States
  BY DEF RowsOf
<1> QED BY <1>1, <1>2

\* SetState changes the state of the rows it is given, and nothing else.
LEMMA Turned ==
    ASSUME NEW P, NEW table \in Seq(RowsOf(P)), NEW S, NEW state \in States
    PROVE  LET new == SetState(table, S, state) IN
           /\ new \in Seq(RowsOf(P)) /\ DOMAIN new = DOMAIN table /\ Len(new) = Len(table)
           /\ \A i \in DOMAIN table :
                /\ new[i].purpose = table[i].purpose /\ new[i].expires = table[i].expires
                /\ new[i].tries = table[i].tries
                /\ new[i].state = IF i \in S THEN state ELSE table[i].state
<1> DEFINE new == SetState(table, S, state)
<1>1. /\ DOMAIN new = DOMAIN table
      /\ \A i \in DOMAIN table : new[i] = IF i \in S THEN [table[i] EXCEPT !.state = state] ELSE table[i]
  BY DEF SetState
<1>2. \A i \in DOMAIN table : table[i] \in RowsOf(P)
  OBVIOUS
<1>3. \A row \in RowsOf(P) : LET row2 == [row EXCEPT !.state = state] IN
          /\ row2 \in RowsOf(P) /\ row2.state = state /\ row2.purpose = row.purpose
          /\ row2.expires = row.expires /\ row2.tries = row.tries
  BY DEF RowsOf
<1>4. new \in [1..Len(table) -> RowsOf(P)] /\ DOMAIN table = 1..Len(table) /\ Len(table) \in Nat
  BY <1>1, <1>2, <1>3 DEF SetState
<1>5. new \in Seq(RowsOf(P))
  BY <1>4, SeqDef
<1>6. Len(new) = Len(table)
  BY <1>4, <1>5
<1> HIDE DEF new
<1> QED BY <1>1, <1>2, <1>3, <1>5, <1>6 DEF new

\* One row is used and some others are revoked.
IsUsed(new, table, k, S) ==
    /\ DOMAIN new = DOMAIN table /\ Len(new) = Len(table)
    /\ \A i \in DOMAIN table :
         /\ new[i].purpose = table[i].purpose /\ new[i].expires = table[i].expires
         /\ new[i].tries = table[i].tries
         /\ new[i].state = IF i = k THEN "consumed" ELSE IF i \in S THEN "revoked"
                           ELSE table[i].state

LEMMA Used ==
    ASSUME NEW P, NEW table \in Seq(RowsOf(P)), NEW k, NEW S, k \notin S,
           NEW new, new = SetState(SetState(table, {k}, "consumed"), S, "revoked")
    PROVE  new \in Seq(RowsOf(P)) /\ IsUsed(new, table, k, S)
<1>1. "consumed" \in States /\ "revoked" \in States
  BY DEF States
<1> DEFINE mid == SetState(table, {k}, "consumed")
<1>2. /\ mid \in Seq(RowsOf(P)) /\ DOMAIN mid = DOMAIN table /\ Len(mid) = Len(table)
      /\ \A i \in DOMAIN table :
            /\ mid[i].purpose = table[i].purpose /\ mid[i].expires = table[i].expires
            /\ mid[i].tries = table[i].tries
            /\ mid[i].state = IF i \in {k} THEN "consumed" ELSE table[i].state
  BY <1>1, Turned
<1> HIDE DEF mid
<1>3. PICK last : last = SetState(mid, S, "revoked")
  OBVIOUS
<1>4. /\ last \in Seq(RowsOf(P)) /\ DOMAIN last = DOMAIN mid /\ Len(last) = Len(mid)
      /\ \A i \in DOMAIN mid :
            /\ last[i].purpose = mid[i].purpose /\ last[i].expires = mid[i].expires
            /\ last[i].tries = mid[i].tries
            /\ last[i].state = IF i \in S THEN "revoked" ELSE mid[i].state
  BY <1>1, <1>2, <1>3, Turned
<1>5. last = new
  BY <1>3 DEF mid
<1>6. /\ new \in Seq(RowsOf(P)) /\ DOMAIN new = DOMAIN table /\ Len(new) = Len(table)
      /\ \A i \in DOMAIN table :
            /\ new[i].purpose = table[i].purpose /\ new[i].expires = table[i].expires
            /\ new[i].tries = table[i].tries
            /\ new[i].state = IF i = k THEN "consumed" ELSE IF i \in S THEN "revoked"
                              ELSE table[i].state
  BY <1>2, <1>4, <1>5
<1> QED BY <1>6 DEF IsUsed

LEMMA Added ==
    ASSUME NEW R, NEW table \in Seq(R), NEW row \in R
    PROVE  LET new == Append(table, row) IN
           /\ new \in Seq(R) /\ Len(new) = Len(table) + 1 /\ Len(table) + 1 \notin DOMAIN table
           /\ DOMAIN new = DOMAIN table \cup {Len(table) + 1} /\ Len(table) \in Nat
           /\ new[Len(table) + 1] = row
           /\ \A i \in DOMAIN table : new[i] = table[i]
OBVIOUS

LEMMA SpentIsFinite ==
    ASSUME NEW R, NEW table \in Seq(R), NEW p
    PROVE  IsFiniteSet(Spent(table, p)) /\ Cardinality(Spent(table, p)) \in Nat
<1>1. Spent(table, p) \subseteq 1..Len(table) /\ IsFiniteSet(1..Len(table))
  BY FS_Interval DEF Spent
<1> QED BY <1>1, FS_Subset, FS_CardinalityType

\* Rows that are not used do not count.
LEMMA CountsNone ==
    ASSUME NEW table, NEW new, NEW p, DOMAIN table \subseteq DOMAIN new,
           \A i \in DOMAIN table : /\ new[i].purpose = table[i].purpose
                                   /\ new[i].state = "consumed" <=> table[i].state = "consumed",
           \A i \in DOMAIN new \ DOMAIN table : new[i].state # "consumed"
    PROVE  Spent(new, p) = Spent(table, p)
BY DEF Spent

\* A row that is used counts once, for its purpose.
LEMMA CountsOne ==
    ASSUME NEW R, NEW table \in Seq(R), NEW new, NEW p, NEW k \in DOMAIN table,
           DOMAIN table \subseteq DOMAIN new, table[k].state # "consumed", new[k].state = "consumed",
           \A i \in DOMAIN table : new[i].purpose = table[i].purpose,
           \A i \in DOMAIN table \ {k} : new[i].state = "consumed" <=> table[i].state = "consumed",
           \A i \in DOMAIN new \ DOMAIN table : new[i].state # "consumed"
    PROVE  /\ table[k].purpose = p => Cardinality(Spent(new, p)) = Cardinality(Spent(table, p)) + 1
           /\ table[k].purpose # p => Spent(new, p) = Spent(table, p)
<1>1. table[k].purpose = p => Spent(new, p) = Spent(table, p) \cup {k}
  BY DEF Spent
<1>2. k \notin Spent(table, p)
  BY DEF Spent
<1>3. table[k].purpose = p => Cardinality(Spent(new, p)) = Cardinality(Spent(table, p)) + 1
  BY <1>1, <1>2, SpentIsFinite, FS_AddElement
<1>4. table[k].purpose # p => Spent(new, p) = Spent(table, p)
  BY DEF Spent
<1> QED BY <1>3, <1>4

\* What can be used now can be used at an earlier time, so that revoking what could be
\* used then leaves nothing of it.
LEMMA LateRevocation ==
    ASSUME NEW P, NEW table \in Seq(RowsOf(P)), NEW t \in Nat, NEW u \in Nat, u <= t,
           NEW p, NEW except
    PROVE  \A i \in LiveAt(table, t) : table[i].purpose = p /\ i # except => i \in ToRevoke(table, p, u, except)
<1>1. \A i \in DOMAIN table : table[i].expires \in Nat
  BY RowFields
<1>2. ASSUME NEW i \in LiveAt(table, t), table[i].purpose = p, i # except
      PROVE  i \in ToRevoke(table, p, u, except)
  <2>1. i \in DOMAIN table /\ table[i].state = "active" /\ t < table[i].expires
    BY DEF LiveAt, Usable
  <2>2. u < table[i].expires
    BY <1>1, <2>1
  <2> QED BY <1>2, <2>1, <2>2 DEF ToRevoke, Usable
<1> QED BY <1>2

LEMMA RevokedWereActive ==
    ASSUME NEW table, NEW p, NEW t, NEW except
    PROVE  /\ ToRevoke(table, p, t, except) \subseteq Unspent(table)
           /\ except \notin ToRevoke(table, p, t, except)
BY DEF ToRevoke, Usable, Unspent

\* Rows stay usable or become unusable; time only takes away.
LEMMA LiveShrinks ==
    ASSUME NEW P, NEW table \in Seq(RowsOf(P)), NEW new, NEW t \in Nat, NEW u \in Nat, t <= u,
           DOMAIN new = DOMAIN table,
           \A i \in DOMAIN table : new[i].expires = table[i].expires
                                   /\ (new[i].state = "active" => table[i].state = "active")
    PROVE  LiveAt(new, u) \subseteq LiveAt(table, t)
<1>1. \A i \in DOMAIN table : table[i].expires \in Nat
  BY RowFields
<1>2. ASSUME NEW i \in LiveAt(new, u)  PROVE  i \in LiveAt(table, t)
  <2>1. i \in DOMAIN table /\ table[i].state = "active" /\ u < table[i].expires
    BY DEF LiveAt, Usable
  <2>2. t < table[i].expires
    BY <1>1, <2>1
  <2> QED BY <2>1, <2>2 DEF LiveAt, Usable
<1> QED BY <1>2

LEMMA AtMostOne ==
    ASSUME NEW S, \A i, j \in S : i = j
    PROVE  Cardinality(S) <= 1
<1>1. CASE S = {}
  BY <1>1, FS_EmptySet
<1>2. CASE S # {}
  <2>1. PICK x : S = {x}
    BY <1>2
  <2> QED BY <2>1, FS_Singleton
<1> QED BY <1>1, <1>2

-----------------------------------------------------------------------------
(* What the statements do to a table.                                      *)

\* The rows are the same but for their states.
Keeps(new, table) ==
    /\ DOMAIN new = DOMAIN table /\ Len(new) = Len(table)
    /\ \A i \in DOMAIN table : new[i].purpose = table[i].purpose /\ new[i].tries = table[i].tries

\* The rows of S cannot be used, and no row can that could not before.
Loses(new, table, S) ==
    \A t, u \in Nat : t <= u => LiveAt(new, u) \subseteq LiveAt(table, t) \ S

SpendsNone(new, table) == \A p : Spent(new, p) = Spent(table, p)

SpendsOne(new, table, k) ==
    \A p : /\ table[k].purpose = p => Cardinality(Spent(new, p)) = Cardinality(Spent(table, p)) + 1
           /\ table[k].purpose # p => Spent(new, p) = Spent(table, p)

Extends(new, table, row) ==
    /\ Len(new) = Len(table) + 1 /\ Len(table) \in Nat
    /\ DOMAIN new = DOMAIN table \cup {Len(table) + 1} /\ Len(table) + 1 \notin DOMAIN table
    /\ new[Len(table) + 1] = row
    /\ \A i \in DOMAIN table : new[i] = table[i]
    /\ \A u : LiveAt(new, u) \subseteq LiveAt(table, u) \cup {Len(table) + 1}

\* Rows that were active are revoked.
Revokes(P, new, table, S) ==
    new \in Seq(RowsOf(P)) /\ Keeps(new, table) /\ Loses(new, table, S) /\ SpendsNone(new, table)

LEMMA Revoking ==
    ASSUME NEW P, NEW table \in Seq(RowsOf(P)), NEW S, S \subseteq Unspent(table)
    PROVE  Revokes(P, SetState(table, S, "revoked"), table, S)
<1> DEFINE new == SetState(table, S, "revoked")
<1>1. /\ new \in Seq(RowsOf(P)) /\ DOMAIN new = DOMAIN table /\ Len(new) = Len(table)
      /\ \A i \in DOMAIN table :
            /\ new[i].purpose = table[i].purpose /\ new[i].expires = table[i].expires
            /\ new[i].tries = table[i].tries
            /\ new[i].state = IF i \in S THEN "revoked" ELSE table[i].state
  BY Turned DEF States
<1> HIDE DEF new
<1>2. SpendsNone(new, table)
  BY <1>1, CountsNone DEF Unspent, SpendsNone
<1>3. ASSUME NEW t \in Nat, NEW u \in Nat, t <= u
      PROVE  LiveAt(new, u) \subseteq LiveAt(table, t) \ S
  <2>1. LiveAt(new, u) \subseteq LiveAt(table, t)
    BY <1>1, <1>3, LiveShrinks
  <2>2. \A i \in LiveAt(new, u) : i \in DOMAIN table /\ new[i].state = "active"
    BY <1>1 DEF LiveAt, Usable
  <2> QED BY <1>1, <2>1, <2>2
<1>4. Revokes(P, new, table, S)
  BY <1>1, <1>2, <1>3 DEF Keeps, Loses, Revokes
<1> QED BY <1>4 DEF new

\* A row is used, and others that were active are revoked.
Uses(P, new, table, k, S) ==
    /\ new \in Seq(RowsOf(P)) /\ Keeps(new, table) /\ Loses(new, table, S \cup {k})
    /\ SpendsOne(new, table, k)

LEMMA Using ==
    ASSUME NEW P, NEW table \in Seq(RowsOf(P)), NEW k \in Unspent(table),
           NEW S, k \notin S, S \subseteq Unspent(table)
    PROVE  Uses(P, SetState(SetState(table, {k}, "consumed"), S, "revoked"), table, k, S)
<1> DEFINE new == SetState(SetState(table, {k}, "consumed"), S, "revoked")
<1>1. new \in Seq(RowsOf(P)) /\ IsUsed(new, table, k, S)
  BY Used
<1> HIDE DEF new
<1>2. /\ new \in Seq(RowsOf(P)) /\ DOMAIN new = DOMAIN table /\ Len(new) = Len(table)
      /\ \A i \in DOMAIN table :
            /\ new[i].purpose = table[i].purpose /\ new[i].expires = table[i].expires
            /\ new[i].tries = table[i].tries
            /\ new[i].state = IF i = k THEN "consumed" ELSE IF i \in S THEN "revoked"
                              ELSE table[i].state
  BY <1>1 DEF IsUsed
<1>3. /\ new[k].state = "consumed" /\ table[k].state # "consumed"
      /\ \A i \in DOMAIN table \ {k} : new[i].state = "consumed" <=> table[i].state = "consumed"
      /\ \A i \in DOMAIN new \ DOMAIN table : new[i].state # "consumed"
      /\ \A i \in DOMAIN table : new[i].purpose = table[i].purpose
      /\ DOMAIN table \subseteq DOMAIN new /\ k \in DOMAIN table
  BY <1>2 DEF Unspent
<1>4. SpendsOne(new, table, k)
  BY <1>3, CountsOne DEF SpendsOne
<1>5. ASSUME NEW t \in Nat, NEW u \in Nat, t <= u
      PROVE  LiveAt(new, u) \subseteq LiveAt(table, t) \ (S \cup {k})
  <2>1. LiveAt(new, u) \subseteq LiveAt(table, t)
    BY <1>2, <1>5, LiveShrinks
  <2>2. \A i \in LiveAt(new, u) : i \in DOMAIN table /\ new[i].state = "active"
    BY <1>2 DEF LiveAt, Usable
  <2> QED BY <1>2, <2>1, <2>2
<1>6. Uses(P, new, table, k, S)
  BY <1>2, <1>4, <1>5 DEF Keeps, Loses, Uses
<1> QED BY <1>6 DEF new

\* An active row is inserted.
Inserts(P, new, table, row) ==
    new \in Seq(RowsOf(P)) /\ Extends(new, table, row) /\ SpendsNone(new, table)

LEMMA Inserting ==
    ASSUME NEW P, NEW table \in Seq(RowsOf(P)), NEW row \in RowsOf(P), row.state = "active"
    PROVE  Inserts(P, Append(table, row), table, row)
<1>1. row.state # "consumed"
  OBVIOUS
<1> DEFINE new == Append(table, row)
<1>2. /\ new \in Seq(RowsOf(P)) /\ Len(new) = Len(table) + 1 /\ Len(table) + 1 \notin DOMAIN table
      /\ DOMAIN new = DOMAIN table \cup {Len(table) + 1} /\ Len(table) \in Nat
      /\ new[Len(table) + 1] = row
      /\ \A i \in DOMAIN table : new[i] = table[i]
  BY Added
<1> HIDE DEF new
<1>3. SpendsNone(new, table)
  <2>1. \A i \in DOMAIN new \ DOMAIN table : new[i].state # "consumed"
    BY <1>1, <1>2
  <2> QED BY <1>2, <2>1, CountsNone DEF SpendsNone
<1>4. \A u : LiveAt(new, u) \subseteq LiveAt(table, u) \cup {Len(table) + 1}
  BY <1>2 DEF LiveAt
<1>5. Inserts(P, new, table, row)
  BY <1>2, <1>3, <1>4 DEF Extends, Inserts
<1> QED BY <1>5 DEF new

-----------------------------------------------------------------------------
(* The rows of one purpose at a late request: what could be used when it    *)
(* began includes what still can.                                           *)

OthersLive(table, p, t) == {i \in LiveAt(table, t) : table[i].purpose # p}

LEMMA NoOthers ==
    ASSUME NEW p, NEW table \in Seq(RowsOf({p})), NEW t
    PROVE  OthersLive(table, p, t) = {}
<1>1. \A i \in DOMAIN table : table[i].purpose \in {p}
  BY RowFields
<1> QED BY <1>1 DEF OthersLive, LiveAt

\* All of them are revoked,
Closes(P, new, table, p, t) ==
    /\ new \in Seq(RowsOf(P)) /\ Keeps(new, table) /\ SpendsNone(new, table)
    /\ LiveAt(new, t) \subseteq OthersLive(table, p, t)

LEMMA Closing ==
    ASSUME NEW P, NEW table \in Seq(RowsOf(P)), NEW p, NEW t \in Nat, NEW u \in Nat, u <= t
    PROVE  Closes(P, SetState(table, ToRevoke(table, p, u, 0), "revoked"), table, p, t)
<1> DEFINE S == ToRevoke(table, p, u, 0)
           new == SetState(table, S, "revoked")
<1>1. S \subseteq Unspent(table)
  BY RevokedWereActive
<1>2. \A i \in LiveAt(table, t) : table[i].purpose = p /\ i # 0 => i \in S
  BY LateRevocation
<1>3. Revokes(P, new, table, S)
  BY <1>1, Revoking
<1> HIDE DEF new, S
<1>4. \A i \in LiveAt(table, t) : i # 0
  BY DEF LiveAt
<1>5. /\ new \in Seq(RowsOf(P)) /\ Keeps(new, table) /\ SpendsNone(new, table)
      /\ LiveAt(new, t) \subseteq LiveAt(table, t) \ S
  BY <1>3 DEF Loses, Revokes
<1>6. Closes(P, new, table, p, t)
  BY <1>2, <1>4, <1>5 DEF OthersLive, Closes
<1> QED BY <1>6 DEF new, S

\* or all but the one that is used,
Spends(P, new, table, p, t, k) ==
    /\ new \in Seq(RowsOf(P)) /\ Keeps(new, table) /\ SpendsOne(new, table, k)
    /\ LiveAt(new, t) \subseteq OthersLive(table, p, t) \ {k}

LEMMA Spending ==
    ASSUME NEW P, NEW table \in Seq(RowsOf(P)), NEW p, NEW t \in Nat, NEW u \in Nat, u <= t,
           NEW k \in Unspent(table)
    PROVE  Spends(P, SetState(SetState(table, {k}, "consumed"), ToRevoke(table, p, u, k), "revoked"),
                  table, p, t, k)
<1> DEFINE S == ToRevoke(table, p, u, k)
           new == SetState(SetState(table, {k}, "consumed"), S, "revoked")
<1>1. S \subseteq Unspent(table) /\ k \notin S
  BY RevokedWereActive
<1>2. \A i \in LiveAt(table, t) : table[i].purpose = p /\ i # k => i \in S
  BY LateRevocation
<1>3. Uses(P, new, table, k, S)
  BY <1>1, Using
<1> HIDE DEF new, S
<1>4. /\ new \in Seq(RowsOf(P)) /\ Keeps(new, table) /\ SpendsOne(new, table, k)
      /\ LiveAt(new, t) \subseteq LiveAt(table, t) \ (S \cup {k})
  BY <1>3 DEF Loses, Uses
<1>5. Spends(P, new, table, p, t, k)
  BY <1>2, <1>4 DEF OthersLive, Spends
<1> QED BY <1>5 DEF new, S

\* or they make room for a new one.
Supersedes(P, new, table, p, t, row) ==
    /\ new \in Seq(RowsOf(P)) /\ Len(new) = Len(table) + 1 /\ Len(table) \in Nat
    /\ DOMAIN new = DOMAIN table \cup {Len(table) + 1} /\ new[Len(table) + 1] = row
    /\ \A i \in DOMAIN table : new[i].purpose = table[i].purpose
    /\ SpendsNone(new, table)
    /\ LiveAt(new, t) \subseteq OthersLive(table, p, t) \cup {Len(table) + 1}

LEMMA Superseding ==
    ASSUME NEW P, NEW table \in Seq(RowsOf(P)), NEW p, NEW t \in Nat, NEW u \in Nat, u <= t,
           NEW row \in RowsOf(P), row.state = "active"
    PROVE  Supersedes(P, Append(SetState(table, ToRevoke(table, p, u, 0), "revoked"), row),
                      table, p, t, row)
<1> DEFINE mid == SetState(table, ToRevoke(table, p, u, 0), "revoked")
           new == Append(mid, row)
<1>1. Closes(P, mid, table, p, t)
  BY Closing
<1> HIDE DEF mid
<1>2. mid \in Seq(RowsOf(P))
  BY <1>1 DEF Closes
<1>3. Inserts(P, new, mid, row)
  BY <1>2, Inserting
<1> HIDE DEF new
<1>4. /\ DOMAIN mid = DOMAIN table /\ Len(mid) = Len(table)
      /\ LiveAt(mid, t) \subseteq OthersLive(table, p, t)
      /\ \A i \in DOMAIN table : mid[i].purpose = table[i].purpose
  BY <1>1 DEF Closes, Keeps
<1>5. /\ Len(new) = Len(mid) + 1 /\ Len(mid) \in Nat
      /\ DOMAIN new = DOMAIN mid \cup {Len(mid) + 1} /\ new[Len(mid) + 1] = row
      /\ \A i \in DOMAIN mid : new[i] = mid[i]
      /\ LiveAt(new, t) \subseteq LiveAt(mid, t) \cup {Len(mid) + 1}
  BY <1>3 DEF Inserts, Extends
<1>6. SpendsNone(new, table)
  BY <1>1, <1>3 DEF Inserts, Closes, SpendsNone
<1>7. new \in Seq(RowsOf(P))
  BY <1>3 DEF Inserts
<1>8. \A i \in DOMAIN table : new[i].purpose = table[i].purpose
  BY <1>4, <1>5
<1>9. Supersedes(P, new, table, p, t, row)
  BY <1>4, <1>5, <1>6, <1>7, <1>8 DEF Supersedes
<1> QED BY <1>9 DEF new, mid

-----------------------------------------------------------------------------
(* Recovery.                                                               *)

\* A request has captured its time before, and names rows that are there.
RecoveryRequestRows ==
    [op : {"request", "code", "options", "verify"}, at : {"begun", "create"},
     now : Nat, id : Nat, ceremony : Nat]

RecoveryAsks(q) ==
    /\ q \in RecoveryRequestRows /\ q.now <= clock
    /\ q.op = "code" => q.id \in DOMAIN recoveryCodes
    /\ q.op \in {"options", "verify"} => q.id \in DOMAIN recoveryGrants
    /\ q.op = "verify" => q.ceremony \in DOMAIN recoveryCeremonies

RecoveryTables ==
    /\ clock \in 0..MaxTime /\ passkeys \in Nat /\ sessions \in BOOLEAN
    /\ status \in {"active", "suspended"}
    /\ recoveryCodes \in Seq(RowsOf({"recover_account"}))
    /\ recoveryGrants \in Seq(RowsOf({"account_recovery"}))
    /\ recoveryCeremonies \in Seq(RowsOf({"recover_register"}))
    /\ \A c \in DOMAIN recoveryCodes : recoveryCodes[c].tries <= MaxAttempts

RecoveryPaid ==
    /\ Len(recoveryGrants) = Cardinality(Spent(recoveryCodes, "recover_account"))
    /\ passkeys = Cardinality(Spent(recoveryGrants, "account_recovery"))
    /\ passkeys = Cardinality(Spent(recoveryCeremonies, "recover_register"))

RecoveryLive ==
    /\ \A i, j \in LiveAt(recoveryGrants, clock) : i = j
    /\ \A i, j \in LiveAt(recoveryCeremonies, clock) : i = j

RecoveryInv ==
    /\ RecoveryTables /\ RecoveryPaid /\ RecoveryLive
    /\ recoveryRequests \in [Requests -> RecoveryRequestRows \cup {Idle}]
    /\ \A r \in Requests : recoveryRequests[r] # Idle => RecoveryAsks(recoveryRequests[r])

LEMMA RecoveryConstants ==
    {CodeTTL, GrantTTL, CeremonyTTL, MaxAttempts} \subseteq Nat /\ MaxTime \in Nat
BY MemberAssumption DEF Recovery!RecoveryAssumption

LEMMA SameCardinality ==
    ASSUME NEW S
    PROVE  Recovery!Cardinality(S) = Cardinality(S) /\ Setup!Cardinality(S) = Cardinality(S)
BY DEF Recovery!Cardinality, Setup!Cardinality, Cardinality

LEMMA SpentRows ==
    ASSUME NEW p, NEW table \in Seq(RowsOf({p}))
    PROVE  /\ Recovery!Consumed(table) = Cardinality(Spent(table, p))
           /\ Recovery!Live(table) = LiveAt(table, clock)
<1>1. \A i \in DOMAIN table : table[i].purpose \in {p}
  BY RowFields
<1>2. {i \in DOMAIN table : table[i].state = "consumed"} = Spent(table, p)
  BY <1>1 DEF Spent
<1>3. Recovery!Consumed(table) = Cardinality(Spent(table, p))
  BY <1>2, SameCardinality DEF Recovery!Consumed
<1>4. Recovery!Live(table) = LiveAt(table, clock)
  BY DEF Recovery!Live, LiveAt, Recovery!Usable, Usable
<1> QED BY <1>3, <1>4

LEMMA RecoveryImplied ==
    ASSUME RecoveryInv
    PROVE  Recovery!TypeOK /\ Recovery!EveryStepIsPaidFor /\ Recovery!OneLiveRecovery
<1>1. Recovery!TypeOK
  BY DEF RecoveryInv, RecoveryTables, RecoveryAsks, Recovery!TypeOK, Recovery!Rows, RowsOf, States
<1>2. Recovery!EveryStepIsPaidFor
  BY SpentRows DEF RecoveryInv, RecoveryTables, RecoveryPaid, Recovery!EveryStepIsPaidFor
<1>3. Recovery!OneLiveRecovery
  <2>1. /\ Cardinality(LiveAt(recoveryGrants, clock)) <= 1
        /\ Cardinality(LiveAt(recoveryCeremonies, clock)) <= 1
    BY AtMostOne DEF RecoveryInv, RecoveryLive
  <2> QED BY <2>1, SpentRows, SameCardinality DEF RecoveryInv, RecoveryTables, Recovery!OneLiveRecovery
<1> QED BY <1>1, <1>2, <1>3

LEMMA RecoveryStarts ==
    ASSUME Recovery!Init PROVE RecoveryInv
<1>0. DOMAIN << >> = {} /\ \A R : << >> \in Seq(R)
  OBVIOUS
<1>1. \A p : Spent(<< >>, p) = {} /\ LiveAt(<< >>, clock) = {}
  BY <1>0 DEF Spent, LiveAt
<1>2. RecoveryTables
  BY <1>0, RecoveryConstants DEF Recovery!Init, RecoveryTables
<1>3. RecoveryPaid
  BY <1>0, <1>1, FS_EmptySet DEF Recovery!Init, RecoveryPaid
<1>4. RecoveryLive
  BY <1>1 DEF Recovery!Init, RecoveryLive
<1> QED BY <1>2, <1>3, <1>4 DEF Recovery!Init, RecoveryInv

\* A request begins, goes on or ends.
RecoveryMove(r) ==
    \E new : /\ recoveryRequests' = [recoveryRequests EXCEPT ![r] = new]
             /\ new = Idle \/ RecoveryAsks(new)

\* A step that lets tables only grow and starts, moves or ends at most one request.
LEMMA RecoveryAsksStay ==
    ASSUME RecoveryInv, clock' \in Nat, clock <= clock',
           DOMAIN recoveryCodes \subseteq DOMAIN recoveryCodes',
           DOMAIN recoveryGrants \subseteq DOMAIN recoveryGrants',
           DOMAIN recoveryCeremonies \subseteq DOMAIN recoveryCeremonies',
           UNCHANGED recoveryRequests \/ \E r \in Requests : RecoveryMove(r)
    PROVE  /\ recoveryRequests' \in [Requests -> RecoveryRequestRows \cup {Idle}]
           /\ \A r \in Requests : recoveryRequests'[r] # Idle => RecoveryAsks(recoveryRequests[r])'
<1>1. ASSUME NEW q, RecoveryAsks(q)
      PROVE  /\ q \in RecoveryRequestRows /\ q.now <= clock'
             /\ q.op = "code" => q.id \in DOMAIN recoveryCodes'
             /\ q.op \in {"options", "verify"} => q.id \in DOMAIN recoveryGrants'
             /\ q.op = "verify" => q.ceremony \in DOMAIN recoveryCeremonies'
  <2>1. q.now \in Nat
    BY <1>1 DEF RecoveryAsks, RecoveryRequestRows
  <2> QED BY <1>1, <2>1 DEF RecoveryAsks, RecoveryInv, RecoveryTables
<1>2. CASE UNCHANGED recoveryRequests
  BY <1>1, <1>2 DEF RecoveryInv, RecoveryAsks
<1>3. ASSUME NEW r \in Requests, NEW new, new = Idle \/ RecoveryAsks(new),
             recoveryRequests' = [recoveryRequests EXCEPT ![r] = new]
      PROVE  /\ recoveryRequests' \in [Requests -> RecoveryRequestRows \cup {Idle}]
             /\ \A q \in Requests : recoveryRequests'[q] # Idle => RecoveryAsks(recoveryRequests[q])'
  <2>1. \A q \in Requests : recoveryRequests'[q] = IF q = r THEN new ELSE recoveryRequests[q]
    BY <1>3 DEF RecoveryInv
  <2>2. \A q \in Requests : recoveryRequests'[q] = Idle \/ RecoveryAsks(recoveryRequests'[q])
    BY <1>3, <2>1 DEF RecoveryInv
  <2>3. recoveryRequests' \in [Requests -> RecoveryRequestRows \cup {Idle}]
    BY <1>3 DEF RecoveryInv, RecoveryAsks
  <2> QED BY <1>1, <2>2, <2>3 DEF RecoveryAsks
<1>4. CASE \E r \in Requests : RecoveryMove(r)
  <2>1. PICK r \in Requests : RecoveryMove(r)
    BY <1>4
  <2>2. PICK new : /\ recoveryRequests' = [recoveryRequests EXCEPT ![r] = new]
                   /\ new = Idle \/ RecoveryAsks(new)
    BY <2>1, Zenon DEF RecoveryMove
  <2> QED BY <1>3, <2>2
<1> QED BY <1>2, <1>4

\* A step that changes no table, but for the clock.
LEMMA RecoveryTablesStay ==
    ASSUME RecoveryInv, clock' \in 0..MaxTime, clock <= clock', status' \in {"active", "suspended"},
           sessions' \in BOOLEAN,
           UNCHANGED <<passkeys, recoveryCodes, recoveryGrants, recoveryCeremonies>>
    PROVE  RecoveryTables' /\ RecoveryPaid' /\ RecoveryLive'
<1>1. clock \in Nat /\ clock' \in Nat
  BY RecoveryConstants DEF RecoveryInv, RecoveryTables
<1>2. /\ LiveAt(recoveryGrants, clock') \subseteq LiveAt(recoveryGrants, clock)
      /\ LiveAt(recoveryCeremonies, clock') \subseteq LiveAt(recoveryCeremonies, clock)
  BY <1>1, LiveShrinks DEF RecoveryInv, RecoveryTables
<1>3. RecoveryTables'
  BY DEF RecoveryInv, RecoveryTables
<1>4. RecoveryPaid'
  BY DEF RecoveryInv, RecoveryPaid
<1>5. RecoveryLive'
  BY <1>2 DEF RecoveryInv, RecoveryLive
<1> QED BY <1>3, <1>4, <1>5

\* What a request knows.
LEMMA RecoveryRequest ==
    ASSUME RecoveryInv, NEW r \in Requests, recoveryRequests[r] # Idle
    PROVE  /\ RecoveryAsks(recoveryRequests[r])
           /\ Recovery!Now(r) = recoveryRequests[r].now
           /\ Recovery!Now(r) \in Nat /\ clock \in Nat /\ Recovery!Now(r) <= clock
<1>1. RecoveryAsks(recoveryRequests[r])
  BY DEF RecoveryInv
<1>2. recoveryRequests[r].now \in Nat /\ recoveryRequests[r].now <= clock
  BY <1>1 DEF RecoveryAsks, RecoveryRequestRows
<1>3. clock \in Nat
  BY RecoveryConstants DEF RecoveryInv, RecoveryTables
<1> QED BY <1>1, <1>2, <1>3 DEF Recovery!Now

LEMMA RecoveryMoves ==
    ASSUME RecoveryInv, NEW r \in Requests, recoveryRequests[r] # Idle
    PROVE  Recovery!End(r) \/ Recovery!Goto(r, "create") => RecoveryMove(r)
<1>1. RecoveryAsks(recoveryRequests[r])
  BY DEF RecoveryInv
<1>2. \A q : RecoveryAsks(q) => RecoveryAsks([q EXCEPT !.at = "create"])
  BY DEF RecoveryAsks, RecoveryRequestRows
<1>3. Recovery!Goto(r, "create") =>
        recoveryRequests' = [recoveryRequests EXCEPT ![r] = [recoveryRequests[r] EXCEPT !.at = "create"]]
  BY DEF Recovery!Goto
<1> QED BY <1>1, <1>2, <1>3 DEF Recovery!End, RecoveryMove

LEMMA RecoveryQuiet ==
    ASSUME RecoveryInv,
           \/ Recovery!Tick \/ Recovery!SuspendAccount \/ Recovery!ReactivateAccount
           \/ Recovery!SignIn \/ UNCHANGED Recovery!vars
    PROVE  RecoveryInv' /\ Recovery!DoorsClose
<1>1. /\ clock' \in 0..MaxTime /\ clock <= clock' /\ status' \in {"active", "suspended"}
      /\ sessions' \in BOOLEAN
      /\ UNCHANGED <<passkeys, recoveryCodes, recoveryGrants, recoveryCeremonies, recoveryRequests>>
  <2>1. clock \in 0..MaxTime /\ status \in {"active", "suspended"} /\ sessions \in BOOLEAN
    BY DEF RecoveryInv, RecoveryTables
  <2>2. MaxTime \in Nat
    BY RecoveryConstants
  <2>3. CASE Recovery!Tick
    BY <2>1, <2>2, <2>3 DEF Recovery!Tick, Recovery!tables
  <2>4. CASE Recovery!SuspendAccount
    <3>1. sessions' = FALSE /\ status' = "suspended"
      BY <2>4 DEF Recovery!SuspendAccount
    <3>2. sessions' \in BOOLEAN
      BY <3>1
    <3>3. /\ clock' \in 0..MaxTime /\ clock <= clock'
          /\ UNCHANGED <<passkeys, recoveryCodes, recoveryGrants, recoveryCeremonies, recoveryRequests>>
      BY <2>1, <2>2, <2>4 DEF Recovery!SuspendAccount
    <3> QED BY <3>1, <3>2, <3>3
  <2>5. CASE Recovery!ReactivateAccount
    BY <2>1, <2>2, <2>5 DEF Recovery!ReactivateAccount
  <2>6. CASE Recovery!SignIn
    BY <2>1, <2>2, <2>6 DEF Recovery!SignIn
  <2>7. CASE UNCHANGED Recovery!vars
    BY <2>1, <2>2, <2>7 DEF Recovery!vars, Recovery!tables
  <2> QED BY <2>3, <2>4, <2>5, <2>6, <2>7
<1>2. RecoveryTables' /\ RecoveryPaid' /\ RecoveryLive'
  BY <1>1, RecoveryTablesStay
<1>3. clock' \in Nat
  BY <1>1, RecoveryConstants
<1>4. /\ recoveryRequests' \in [Requests -> RecoveryRequestRows \cup {Idle}]
      /\ \A r \in Requests : recoveryRequests'[r] # Idle => RecoveryAsks(recoveryRequests[r])'
  BY <1>1, <1>3, RecoveryAsksStay
<1> QED BY <1>1, <1>2, <1>4 DEF RecoveryInv, Recovery!DoorsClose

\* Requests begin and are refused.
LEMMA RecoveryBegins ==
    ASSUME RecoveryInv, NEW r \in Requests,
           \/ Recovery!Refuse(r) \/ Recovery!RequestAccountRecovery(r) \/ Recovery!VerifyEmail(r)
           \/ Recovery!ResolveAuthorizedRecovery(r)
    PROVE  RecoveryInv' /\ Recovery!DoorsClose
<1>1. clock \in 0..MaxTime /\ clock \in Nat /\ status \in {"active", "suspended"} /\ sessions \in BOOLEAN
  BY RecoveryConstants DEF RecoveryInv, RecoveryTables
<1>2. /\ UNCHANGED <<clock, status, passkeys, sessions, recoveryCodes, recoveryGrants, recoveryCeremonies>>
      /\ RecoveryMove(r)
  <2>1. CASE Recovery!Refuse(r)
    BY <2>1 DEF Recovery!Refuse, Recovery!End, Recovery!tables, RecoveryMove
  <2>2. ASSUME NEW op \in {"request", "code", "options", "verify"}, NEW id \in Nat, NEW k \in Nat,
               op = "code" => id \in DOMAIN recoveryCodes,
               op \in {"options", "verify"} => id \in DOMAIN recoveryGrants,
               op = "verify" => k \in DOMAIN recoveryCeremonies,
               Recovery!Start(r, op, id, k)
        PROVE  /\ UNCHANGED <<clock, status, passkeys, sessions, recoveryCodes, recoveryGrants, recoveryCeremonies>>
               /\ RecoveryMove(r)
    <3>1. PICK new : new = [op |-> op, at |-> "begun", now |-> clock, id |-> id, ceremony |-> k]
      OBVIOUS
    <3>2. RecoveryAsks(new)
      BY <1>1, <2>2, <3>1 DEF RecoveryAsks, RecoveryRequestRows
    <3> QED BY <2>2, <3>1, <3>2 DEF Recovery!Start, Recovery!tables, RecoveryMove
  <2>3. CASE Recovery!RequestAccountRecovery(r)
    BY <2>2, <2>3 DEF Recovery!RequestAccountRecovery
  <2>4. CASE Recovery!VerifyEmail(r)
    <3>1. PICK c \in DOMAIN recoveryCodes : Recovery!Start(r, "code", c, 0)
      BY <2>4 DEF Recovery!VerifyEmail
    <3>2. c \in Nat
      BY DEF RecoveryInv, RecoveryTables
    <3> QED BY <2>2, <3>1, <3>2
  <2>5. CASE Recovery!ResolveAuthorizedRecovery(r)
    <3>1. PICK g \in DOMAIN recoveryGrants, op \in {"options", "verify"},
               k \in DOMAIN recoveryCeremonies \cup {0} :
            (op = "options" <=> k = 0) /\ Recovery!Start(r, op, g, k)
      BY <2>5 DEF Recovery!ResolveAuthorizedRecovery
    <3>2. g \in Nat /\ k \in Nat
      BY DEF RecoveryInv, RecoveryTables
    <3> QED BY <2>2, <3>1, <3>2
  <2> QED BY <2>1, <2>3, <2>4, <2>5
<1>3. RecoveryTables' /\ RecoveryPaid' /\ RecoveryLive'
  BY <1>1, <1>2, RecoveryTablesStay
<1>4. /\ recoveryRequests' \in [Requests -> RecoveryRequestRows \cup {Idle}]
      /\ \A q \in Requests : recoveryRequests'[q] # Idle => RecoveryAsks(recoveryRequests[q])'
  BY <1>1, <1>2, RecoveryAsksStay
<1> QED BY <1>2, <1>3, <1>4 DEF RecoveryInv, Recovery!DoorsClose

\* What is left to show of a step that changes tables.
RecoveryStep ==
    /\ recoveryCodes' \in Seq(RowsOf({"recover_account"}))
    /\ recoveryGrants' \in Seq(RowsOf({"account_recovery"}))
    /\ recoveryCeremonies' \in Seq(RowsOf({"recover_register"}))
    /\ \A c \in DOMAIN recoveryCodes' : recoveryCodes'[c].tries <= MaxAttempts
    /\ DOMAIN recoveryCodes \subseteq DOMAIN recoveryCodes'
    /\ DOMAIN recoveryGrants \subseteq DOMAIN recoveryGrants'
    /\ DOMAIN recoveryCeremonies \subseteq DOMAIN recoveryCeremonies'
    /\ \A i, j \in LiveAt(recoveryGrants', clock) : i = j
    /\ \A i, j \in LiveAt(recoveryCeremonies', clock) : i = j

LEMMA RecoverySteps ==
    ASSUME RecoveryInv, NEW r \in Requests, recoveryRequests[r] # Idle,
           Recovery!End(r) \/ Recovery!Goto(r, "create"),
           UNCHANGED <<clock, status>>, passkeys' \in Nat, sessions' \in BOOLEAN,
           RecoveryStep, RecoveryPaid'
    PROVE  RecoveryInv'
<1>1. RecoveryMove(r)
  BY RecoveryMoves
<1>2. clock \in Nat
  BY RecoveryConstants DEF RecoveryInv, RecoveryTables
<1>3. /\ recoveryRequests' \in [Requests -> RecoveryRequestRows \cup {Idle}]
      /\ \A q \in Requests : recoveryRequests'[q] # Idle => RecoveryAsks(recoveryRequests[q])'
  BY <1>1, <1>2, RecoveryAsksStay DEF RecoveryStep
<1>4. RecoveryTables'
  BY DEF RecoveryInv, RecoveryTables, RecoveryStep
<1>5. RecoveryLive'
  BY DEF RecoveryLive, RecoveryStep
<1> QED BY <1>3, <1>4, <1>5 DEF RecoveryInv

\* The facts about the tables that the steps start from.
LEMMA RecoveryFacts ==
    ASSUME RecoveryInv
    PROVE  /\ recoveryCodes \in Seq(RowsOf({"recover_account"}))
           /\ recoveryGrants \in Seq(RowsOf({"account_recovery"}))
           /\ recoveryCeremonies \in Seq(RowsOf({"recover_register"}))
           /\ \A c \in DOMAIN recoveryCodes : recoveryCodes[c].tries <= MaxAttempts
           /\ \A i, j \in LiveAt(recoveryGrants, clock) : i = j
           /\ \A i, j \in LiveAt(recoveryCeremonies, clock) : i = j
           /\ passkeys \in Nat /\ clock \in Nat /\ sessions \in BOOLEAN
           /\ OthersLive(recoveryCodes, "recover_account", clock) = {}
           /\ OthersLive(recoveryGrants, "account_recovery", clock) = {}
           /\ OthersLive(recoveryCeremonies, "recover_register", clock) = {}
BY RecoveryConstants, NoOthers DEF RecoveryInv, RecoveryTables, RecoveryLive

LEMMA RecoveryRevokesCodes ==
    ASSUME RecoveryInv, NEW r \in Requests, Recovery!RevokeActiveEmailChallenges(r)
    PROVE  RecoveryInv' /\ Recovery!DoorsClose
<1>1. /\ recoveryRequests[r] # Idle /\ Recovery!Goto(r, "create")
      /\ UNCHANGED <<clock, status, passkeys, sessions, recoveryGrants, recoveryCeremonies>>
      /\ recoveryCodes' = SetState(recoveryCodes,
            ToRevoke(recoveryCodes, "recover_account", Recovery!Now(r), 0), "revoked")
  BY SameOperators DEF Recovery!RevokeActiveEmailChallenges, Recovery!In
<1>2. Recovery!Now(r) \in Nat /\ clock \in Nat /\ Recovery!Now(r) <= clock
  BY <1>1, RecoveryRequest
<1>3. Closes({"recover_account"}, recoveryCodes', recoveryCodes, "recover_account", clock)
  BY <1>1, <1>2, RecoveryFacts, Closing
<1>4. RecoveryStep
  BY <1>1, <1>3, RecoveryFacts DEF RecoveryStep, Closes, Keeps
<1>5. RecoveryPaid'
  BY <1>1, <1>3 DEF RecoveryInv, RecoveryPaid, Closes, SpendsNone
<1> QED BY <1>1, <1>4, <1>5, RecoveryFacts, RecoverySteps DEF Recovery!DoorsClose

LEMMA RecoveryInsertsCode ==
    ASSUME RecoveryInv, NEW r \in Requests, Recovery!CreateEmailChallenge(r)
    PROVE  RecoveryInv' /\ Recovery!DoorsClose
<1>1. /\ recoveryRequests[r] # Idle /\ Recovery!End(r)
      /\ UNCHANGED <<clock, status, passkeys, sessions, recoveryGrants, recoveryCeremonies>>
      /\ recoveryCodes' = Append(recoveryCodes, Row("recover_account", Recovery!Now(r), CodeTTL))
  BY SameOperators DEF Recovery!CreateEmailChallenge, Recovery!In
<1>2. Recovery!Now(r) \in Nat /\ CodeTTL \in Nat /\ MaxAttempts \in Nat
  BY <1>1, RecoveryRequest, RecoveryConstants
<1>3. PICK row : row = Row("recover_account", Recovery!Now(r), CodeTTL) /\ Fresh(row, {"recover_account"}, "recover_account")
  BY <1>2, RowIs
<1>4. row \in RowsOf({"recover_account"}) /\ row.state = "active" /\ row.tries = 0
  BY <1>3 DEF Fresh
<1>5. Inserts({"recover_account"}, recoveryCodes', recoveryCodes, row)
  BY <1>1, <1>3, <1>4, RecoveryFacts, Inserting
<1>6. RecoveryStep
  BY <1>1, <1>2, <1>4, <1>5, RecoveryFacts DEF RecoveryStep, Inserts, Extends
<1>7. RecoveryPaid'
  BY <1>1, <1>5 DEF RecoveryInv, RecoveryPaid, Inserts, SpendsNone
<1> QED BY <1>1, <1>6, <1>7, RecoveryFacts, RecoverySteps DEF Recovery!DoorsClose

\* A wrong code is counted.
Counts(P, new, table, c) ==
    /\ new \in Seq(RowsOf(P)) /\ DOMAIN new = DOMAIN table /\ Len(new) = Len(table)
    /\ SpendsNone(new, table)
    /\ \A i \in DOMAIN table :
         /\ new[i].purpose = table[i].purpose /\ new[i].expires = table[i].expires
         /\ new[i].state = table[i].state
         /\ new[i].tries = IF i = c THEN table[i].tries + 1 ELSE table[i].tries

LEMMA Counted ==
    ASSUME NEW P, NEW table \in Seq(RowsOf(P)), NEW c \in DOMAIN table
    PROVE  Counts(P, [table EXCEPT ![c].tries = @ + 1], table, c)
<1> DEFINE new == [table EXCEPT ![c].tries = @ + 1]
<1>1. /\ DOMAIN new = DOMAIN table
      /\ \A i \in DOMAIN table : new[i] = IF i = c THEN [table[i] EXCEPT !.tries = @ + 1] ELSE table[i]
  OBVIOUS
<1>2. \A i \in DOMAIN table : table[i] \in RowsOf(P)
  OBVIOUS
<1>3. \A row \in RowsOf(P), n \in Nat : LET row2 == [row EXCEPT !.tries = n] IN
          /\ row2 \in RowsOf(P) /\ row2.purpose = row.purpose
          /\ row2.expires = row.expires /\ row2.state = row.state /\ row2.tries = n
  BY DEF RowsOf
<1>9. \A i \in DOMAIN table : table[i].tries + 1 \in Nat
  BY RowFields
<1> HIDE DEF new
<1>4. ASSUME NEW i \in DOMAIN table
      PROVE  /\ new[i] \in RowsOf(P) /\ new[i].purpose = table[i].purpose
             /\ new[i].expires = table[i].expires
             /\ new[i].state = table[i].state
             /\ new[i].tries = IF i = c THEN table[i].tries + 1 ELSE table[i].tries
  <2>1. CASE i # c
    BY <1>1, <1>2, <2>1
  <2>2. CASE i = c
    <3>1. PICK n \in Nat : n = table[i].tries + 1
      BY <1>9
    <3>2. new[i] = [table[i] EXCEPT !.tries = n]
      BY <1>1, <2>2, <3>1
    <3> QED BY <1>2, <1>3, <2>2, <3>1, <3>2
  <2> QED BY <2>1, <2>2
<1>5. DOMAIN table = 1..Len(table) /\ Len(table) \in Nat
  OBVIOUS
<1>6. new \in [1..Len(table) -> RowsOf(P)]
  BY <1>4, <1>5 DEF new
<1>7. new \in Seq(RowsOf(P)) /\ Len(new) = Len(table)
  BY <1>5, <1>6, SeqDef
<1>8. SpendsNone(new, table)
  BY <1>1, <1>4, CountsNone DEF SpendsNone
<1> QED BY <1>1, <1>4, <1>7, <1>8 DEF new, Counts

LEMMA RecoveryCountsTries ==
    ASSUME RecoveryInv, NEW r \in Requests, Recovery!WrongCode(r)
    PROVE  RecoveryInv' /\ Recovery!DoorsClose
<1> DEFINE c == recoveryRequests[r].id
<1>1. /\ recoveryRequests[r] # Idle /\ recoveryRequests[r].op = "code" /\ Recovery!End(r)
      /\ UNCHANGED <<clock, status, passkeys, sessions, recoveryGrants, recoveryCeremonies>>
      /\ recoveryCodes[c].tries < MaxAttempts
      /\ recoveryCodes' = [recoveryCodes EXCEPT ![c].tries = @ + 1]
  BY DEF Recovery!WrongCode, Recovery!ChallengeAccepted, Recovery!In
<1>2. c \in DOMAIN recoveryCodes
  BY <1>1, RecoveryRequest DEF RecoveryAsks
<1>3. MaxAttempts \in Nat /\ recoveryCodes[c].tries \in Nat
  BY <1>2, RecoveryConstants, RecoveryFacts, RowFields
<1>4. Counts({"recover_account"}, recoveryCodes', recoveryCodes, c)
  BY <1>1, <1>2, RecoveryFacts, Counted
<1> HIDE DEF c
<1>5. \A i \in DOMAIN recoveryCodes' : recoveryCodes'[i].tries <= MaxAttempts
  BY <1>1, <1>3, <1>4, RecoveryFacts DEF Counts
<1>6. RecoveryStep
  BY <1>1, <1>4, <1>5, RecoveryFacts DEF RecoveryStep, Counts
<1>7. RecoveryPaid'
  BY <1>1, <1>4 DEF RecoveryInv, RecoveryPaid, Counts, SpendsNone
<1> QED BY <1>1, <1>6, <1>7, RecoveryFacts, RecoverySteps DEF Recovery!DoorsClose

LEMMA RecoveryBuysGrant ==
    ASSUME RecoveryInv, NEW r \in Requests, Recovery!VerifyRecoveryEmail(r)
    PROVE  RecoveryInv' /\ Recovery!DoorsClose
<1>1. PICK c, t : c = recoveryRequests[r].id /\ t = Recovery!Now(r)
  OBVIOUS
<1>2. /\ recoveryRequests[r] # Idle /\ recoveryRequests[r].op = "code" /\ Recovery!End(r)
      /\ UNCHANGED <<clock, status, passkeys, sessions, recoveryCeremonies>>
      /\ recoveryCodes[c].state = "active"
      /\ recoveryCodes' = SetState(SetState(recoveryCodes, {c}, "consumed"),
            ToRevoke(recoveryCodes, "recover_account", t, c), "revoked")
      /\ recoveryGrants' = Append(SetState(recoveryGrants,
            ToRevoke(recoveryGrants, "account_recovery", t, 0), "revoked"),
            Row("account_recovery", t, GrantTTL))
  BY <1>1, SameOperators DEF Recovery!VerifyRecoveryEmail, Recovery!ChallengeAccepted, Recovery!In,
       Recovery!SupersededGrants, Usable
<1>3. c \in DOMAIN recoveryCodes /\ t \in Nat /\ clock \in Nat /\ t <= clock /\ GrantTTL \in Nat
  BY <1>1, <1>2, RecoveryRequest, RecoveryConstants DEF RecoveryAsks
<1>4. c \in Unspent(recoveryCodes) /\ recoveryCodes[c].purpose \in {"recover_account"}
  BY <1>2, <1>3, RecoveryFacts, RowFields DEF Unspent
<1>5. Spends({"recover_account"}, recoveryCodes', recoveryCodes, "recover_account", clock, c)
  BY <1>2, <1>3, <1>4, RecoveryFacts, Spending
<1>6. PICK row : row = Row("account_recovery", t, GrantTTL) /\ Fresh(row, {"account_recovery"}, "account_recovery")
  BY <1>3, RowIs
<1>7. row \in RowsOf({"account_recovery"}) /\ row.state = "active"
  BY <1>6 DEF Fresh
<1>8. Supersedes({"account_recovery"}, recoveryGrants', recoveryGrants, "account_recovery", clock, row)
  BY <1>2, <1>3, <1>6, <1>7, RecoveryFacts, Superseding
<1>9. RecoveryStep
  <2>1. \A i, j \in LiveAt(recoveryGrants', clock) : i = j
    BY <1>8, RecoveryFacts DEF Supersedes
  <2> QED BY <1>2, <1>5, <1>8, <2>1, RecoveryFacts DEF RecoveryStep, Spends, Keeps, Supersedes
<1>10. /\ Cardinality(Spent(recoveryCodes', "recover_account")) =
             Cardinality(Spent(recoveryCodes, "recover_account")) + 1
       /\ Spent(recoveryGrants', "account_recovery") = Spent(recoveryGrants, "account_recovery")
       /\ Len(recoveryGrants') = Len(recoveryGrants) + 1
  BY <1>4, <1>5, <1>8 DEF Spends, SpendsOne, Supersedes, SpendsNone
<1>11. RecoveryPaid'
  BY <1>2, <1>10 DEF RecoveryInv, RecoveryPaid
<1> QED BY <1>2, <1>9, <1>11, RecoveryFacts, RecoverySteps DEF Recovery!DoorsClose

LEMMA RecoveryRevokesGrant ==
    ASSUME RecoveryInv, NEW r \in Requests, Recovery!RevokeThrottledGrant(r)
    PROVE  RecoveryInv' /\ Recovery!DoorsClose
<1>1. PICK g : g = recoveryRequests[r].id
  OBVIOUS
<1>2. /\ recoveryRequests[r] # Idle /\ recoveryRequests[r].op \in {"options", "verify"} /\ Recovery!End(r)
      /\ UNCHANGED <<clock, status, passkeys, sessions, recoveryCodes, recoveryCeremonies>>
      /\ recoveryGrants[g].state = "active"
      /\ recoveryGrants' = SetState(recoveryGrants, {g}, "revoked")
  BY <1>1, SameOperators DEF Recovery!RevokeThrottledGrant
<1>3. {g} \subseteq Unspent(recoveryGrants)
  BY <1>1, <1>2, RecoveryRequest DEF RecoveryAsks, Unspent
<1>4. Revokes({"account_recovery"}, recoveryGrants', recoveryGrants, {g})
  BY <1>2, <1>3, RecoveryFacts, Revoking
<1>5. LiveAt(recoveryGrants', clock) \subseteq LiveAt(recoveryGrants, clock)
  BY <1>4, RecoveryFacts DEF Revokes, Loses
<1>6. RecoveryStep
  BY <1>2, <1>4, <1>5, RecoveryFacts DEF RecoveryStep, Revokes, Keeps
<1>7. RecoveryPaid'
  BY <1>2, <1>4 DEF RecoveryInv, RecoveryPaid, Revokes, SpendsNone, Keeps
<1> QED BY <1>2, <1>6, <1>7, RecoveryFacts, RecoverySteps DEF Recovery!DoorsClose

LEMMA RecoveryOffersCeremony ==
    ASSUME RecoveryInv, NEW r \in Requests, Recovery!CreateRecoveryPasskeyRegistrationOptions(r)
    PROVE  RecoveryInv' /\ Recovery!DoorsClose
<1>1. PICK t : t = Recovery!Now(r)
  OBVIOUS
<1>2. /\ recoveryRequests[r] # Idle /\ Recovery!End(r)
      /\ UNCHANGED <<clock, status, passkeys, sessions, recoveryCodes, recoveryGrants>>
      /\ recoveryCeremonies' = Append(SetState(recoveryCeremonies,
            ToRevoke(recoveryCeremonies, "recover_register", t, 0), "revoked"),
            Row("recover_register", t, CeremonyTTL))
  BY <1>1, SameOperators DEF Recovery!CreateRecoveryPasskeyRegistrationOptions, Recovery!In
<1>3. t \in Nat /\ clock \in Nat /\ t <= clock /\ CeremonyTTL \in Nat
  BY <1>1, <1>2, RecoveryRequest, RecoveryConstants
<1>4. PICK row : row = Row("recover_register", t, CeremonyTTL) /\ Fresh(row, {"recover_register"}, "recover_register")
  BY <1>3, RowIs
<1>5. row \in RowsOf({"recover_register"}) /\ row.state = "active"
  BY <1>4 DEF Fresh
<1>6. Supersedes({"recover_register"}, recoveryCeremonies', recoveryCeremonies, "recover_register", clock, row)
  BY <1>2, <1>3, <1>4, <1>5, RecoveryFacts, Superseding
<1>7. RecoveryStep
  <2>1. \A i, j \in LiveAt(recoveryCeremonies', clock) : i = j
    BY <1>6, RecoveryFacts DEF Supersedes
  <2> QED BY <1>2, <1>6, <2>1, RecoveryFacts DEF RecoveryStep, Supersedes
<1>8. RecoveryPaid'
  BY <1>2, <1>6 DEF RecoveryInv, RecoveryPaid, Supersedes, SpendsNone
<1> QED BY <1>2, <1>7, <1>8, RecoveryFacts, RecoverySteps DEF Recovery!DoorsClose

\* The transaction that recovers the account leaves nothing of what could be used.
LEMMA RecoveryCompletes ==
    ASSUME RecoveryInv, NEW r \in Requests, Recovery!VerifyRecoveryPasskeyRegistration(r)
    PROVE  RecoveryInv' /\ Recovery!DoorsClose
<1>1. PICK g, k, t : g = recoveryRequests[r].id /\ k = recoveryRequests[r].ceremony /\ t = Recovery!Now(r)
  OBVIOUS
<1>2. /\ recoveryRequests[r] # Idle /\ recoveryRequests[r].op = "verify" /\ Recovery!End(r)
      /\ UNCHANGED <<clock, status>> /\ passkeys' = passkeys + 1 /\ sessions' = FALSE
      /\ recoveryGrants[g].state = "active" /\ recoveryCeremonies[k].state = "active"
      /\ recoveryCodes' = SetState(recoveryCodes,
            ToRevoke(recoveryCodes, "recover_account", t, 0), "revoked")
      /\ recoveryGrants' = SetState(SetState(recoveryGrants, {g}, "consumed"),
            ToRevoke(recoveryGrants, "account_recovery", t, g), "revoked")
      /\ recoveryCeremonies' = SetState(SetState(recoveryCeremonies, {k}, "consumed"),
            ToRevoke(recoveryCeremonies, "recover_register", t, k), "revoked")
  BY <1>1, SameOperators DEF Recovery!VerifyRecoveryPasskeyRegistration, Recovery!Completable,
       Recovery!In, Recovery!CodesToClose, Usable
<1>3. /\ g \in DOMAIN recoveryGrants /\ k \in DOMAIN recoveryCeremonies
      /\ t \in Nat /\ clock \in Nat /\ t <= clock
  BY <1>1, <1>2, RecoveryRequest DEF RecoveryAsks
<1>4. /\ g \in Unspent(recoveryGrants) /\ recoveryGrants[g].purpose \in {"account_recovery"}
      /\ k \in Unspent(recoveryCeremonies) /\ recoveryCeremonies[k].purpose \in {"recover_register"}
  BY <1>2, <1>3, RecoveryFacts, RowFields DEF Unspent
<1>5. Closes({"recover_account"}, recoveryCodes', recoveryCodes, "recover_account", clock)
  BY <1>2, <1>3, RecoveryFacts, Closing
<1>6. Spends({"account_recovery"}, recoveryGrants', recoveryGrants, "account_recovery", clock, g)
  BY <1>2, <1>3, <1>4, RecoveryFacts, Spending
<1>7. Spends({"recover_register"}, recoveryCeremonies', recoveryCeremonies, "recover_register", clock, k)
  BY <1>2, <1>3, <1>4, RecoveryFacts, Spending
<1>8. /\ LiveAt(recoveryCodes', clock) = {} /\ LiveAt(recoveryGrants', clock) = {}
      /\ LiveAt(recoveryCeremonies', clock) = {}
  BY <1>5, <1>6, <1>7, RecoveryFacts DEF Closes, Spends
<1>9. RecoveryStep
  BY <1>2, <1>5, <1>6, <1>7, <1>8, RecoveryFacts DEF RecoveryStep, Closes, Spends, Keeps
<1>10. /\ Spent(recoveryCodes', "recover_account") = Spent(recoveryCodes, "recover_account")
       /\ Cardinality(Spent(recoveryGrants', "account_recovery")) =
             Cardinality(Spent(recoveryGrants, "account_recovery")) + 1
       /\ Cardinality(Spent(recoveryCeremonies', "recover_register")) =
             Cardinality(Spent(recoveryCeremonies, "recover_register")) + 1
       /\ Len(recoveryGrants') = Len(recoveryGrants)
  BY <1>4, <1>5, <1>6, <1>7 DEF Closes, SpendsNone, Spends, SpendsOne, Keeps
<1>11. RecoveryPaid'
  BY <1>2, <1>10 DEF RecoveryInv, RecoveryPaid
<1>12. sessions' \in BOOLEAN /\ passkeys' \in Nat
  <2>1. sessions' = FALSE
    BY <1>2
  <2>2. sessions' \in BOOLEAN
    BY <2>1
  <2>3. passkeys' \in Nat
    BY <1>2, RecoveryFacts
  <2> QED BY <2>2, <2>3
<1>13. RecoveryInv'
  BY <1>2, <1>9, <1>11, <1>12, RecoverySteps
<1>14. /\ Recovery!Live(recoveryCodes)' = {} /\ Recovery!Live(recoveryGrants)' = {}
       /\ Recovery!Live(recoveryCeremonies)' = {}
  BY <1>2, <1>8 DEF Recovery!Live, Recovery!Usable, LiveAt, Usable
<1> QED BY <1>2, <1>13, <1>14 DEF Recovery!DoorsClose

\* Every step keeps what was paid, and a recovery closes every other way in.
LEMMA RecoveryKept ==
    ASSUME RecoveryInv, [Recovery!Next]_Recovery!vars
    PROVE  RecoveryInv' /\ Recovery!DoorsClose
<1>1. CASE \/ Recovery!Tick \/ Recovery!SuspendAccount \/ Recovery!ReactivateAccount
           \/ Recovery!SignIn \/ UNCHANGED Recovery!vars
  BY <1>1, RecoveryQuiet
<1>2. ASSUME NEW r \in Requests,
             \/ Recovery!Refuse(r) \/ Recovery!RequestAccountRecovery(r) \/ Recovery!VerifyEmail(r)
             \/ Recovery!ResolveAuthorizedRecovery(r)
      PROVE  RecoveryInv' /\ Recovery!DoorsClose
  BY <1>2, RecoveryBegins
<1>3. ASSUME NEW r \in Requests,
             \/ Recovery!RevokeActiveEmailChallenges(r) \/ Recovery!CreateEmailChallenge(r)
             \/ Recovery!WrongCode(r) \/ Recovery!VerifyRecoveryEmail(r)
             \/ Recovery!RevokeThrottledGrant(r)
             \/ Recovery!CreateRecoveryPasskeyRegistrationOptions(r)
             \/ Recovery!VerifyRecoveryPasskeyRegistration(r)
      PROVE  RecoveryInv' /\ Recovery!DoorsClose
  BY <1>3, RecoveryRevokesCodes, RecoveryInsertsCode, RecoveryCountsTries, RecoveryBuysGrant,
     RecoveryRevokesGrant, RecoveryOffersCeremony, RecoveryCompletes
<1> QED BY <1>1, <1>2, <1>3 DEF Recovery!Next

-----------------------------------------------------------------------------
(* Passkeys.                                                               *)

CredentialRow == [status : {"none", "active", "revoked"}, count : Nat, backed : BOOLEAN, label : Nat]

PasskeyRequestRows ==
    [kind : {"signIn", "reauthenticate", "add", "rename", "revoke"},
     at : {"revoke", "insert", "check", "commit", "update"},
     time : Nat, session : Nat, challenge : Nat, key : Keys, count : Nat, backed : BOOLEAN]

AcceptedRows ==
    [kind : {"signIn", "reauthenticate", "add", "rename", "revoke"}, key : Keys, challenge : Nat, count : Nat]

\* No request signed with a higher counter than its authenticator has reached, and
\* one that answers a challenge names a row.
SigningAsks(q, counts, table) ==
    /\ q \in PasskeyRequestRows /\ q.count <= counts[q.key]
    /\ q.at \in {"revoke", "insert"} => q.kind \in Signing!Purposes
    /\ q.kind \in Signing!Purposes /\ q.at \in {"check", "commit"} => q.challenge \in DOMAIN table

SigningCredentials ==
    /\ session \in Nat /\ credentials \in [Keys -> CredentialRow] /\ devices \in [Keys -> Nat]
    /\ \A k \in Keys : credentials[k].count <= devices[k]
    /\ \A k \in Keys : credentials[k].status = "none" => credentials[k].count = 0
    /\ \E k \in Keys : credentials[k].status = "active"

SigningChallenges ==
    /\ challenges \in Seq(Signing!ChallengeRows) /\ accepted \in Seq(AcceptedRows)
    /\ \A i \in DOMAIN accepted : accepted[i].challenge \in DOMAIN challenges
    /\ \A i, j \in DOMAIN accepted : accepted[i].challenge = accepted[j].challenge => i = j
    /\ \A c \in DOMAIN challenges : challenges[c].state = "consumed" <=>
         \E i \in DOMAIN accepted : accepted[i].challenge = c

SigningRequests ==
    /\ passkeyRequests \in [Requests -> PasskeyRequestRows \cup {Idle}]
    /\ \A r \in Requests : passkeyRequests[r] = Idle \/ SigningAsks(passkeyRequests[r], devices, challenges)

SigningInv ==
    clock \in 0..MaxTime /\ SigningCredentials /\ SigningChallenges /\ SigningRequests

LEMMA SigningConstants ==
    /\ First \in Keys /\ Backups \subseteq BOOLEAN /\ ChallengeTTL \in Nat /\ MaxTime \in Nat
BY MemberAssumption DEF Signing!PasskeysAssumption

LEMMA SigningImplied ==
    ASSUME SigningInv
    PROVE  Signing!TypeOK /\ Signing!ChallengesAreUsedOnce
BY DEF SigningInv, SigningCredentials, SigningChallenges, Signing!TypeOK, Signing!CredentialRows,
       CredentialRow, Signing!ChallengesAreUsedOnce

LEMMA SigningStarts ==
    ASSUME Signing!Init PROVE SigningInv
<1>1. \A k \in Keys : LET row == [status |-> IF k = First THEN "active" ELSE "none", count |-> 0,
                                  backed |-> FALSE, label |-> 0]
                      IN  row \in CredentialRow /\ row.count = 0 /\ (k = First => row.status = "active")
  BY DEF CredentialRow
<1>2. /\ \A k \in Keys : /\ credentials[k] \in CredentialRow /\ credentials[k].count = 0
                         /\ k = First => credentials[k].status = "active"
      /\ credentials \in [Keys -> CredentialRow]
  BY <1>1 DEF Signing!Init
<1>3. devices \in [Keys -> Nat] /\ \A k \in Keys : devices[k] = 0
  BY DEF Signing!Init
<1>4. SigningCredentials
  BY <1>2, <1>3, SigningConstants DEF Signing!Init, SigningCredentials
<1>5. SigningChallenges
  BY DEF Signing!Init, SigningChallenges
<1>6. SigningRequests
  BY DEF Signing!Init, SigningRequests
<1>7. clock \in 0..MaxTime
  BY SigningConstants DEF Signing!Init
<1> QED BY <1>4, <1>5, <1>6, <1>7 DEF SigningInv

\* A request begins, goes on or ends.
SigningMove(r) ==
    \E new : /\ passkeyRequests' = [passkeyRequests EXCEPT ![r] = new]
             /\ new = Idle \/ SigningAsks(new, devices', challenges')

LEMMA SigningRequestsStay ==
    ASSUME SigningInv, devices' \in [Keys -> Nat], \A k \in Keys : devices[k] <= devices'[k],
           DOMAIN challenges \subseteq DOMAIN challenges',
           UNCHANGED passkeyRequests \/ \E r \in Requests : SigningMove(r)
    PROVE  SigningRequests'
<1>1. ASSUME NEW q, SigningAsks(q, devices, challenges)
      PROVE  SigningAsks(q, devices', challenges')
  <2>1. q.key \in Keys /\ q.count \in Nat
    BY <1>1 DEF SigningAsks, PasskeyRequestRows
  <2>2. devices[q.key] \in Nat /\ devices'[q.key] \in Nat
    BY <2>1 DEF SigningInv, SigningCredentials
  <2> QED BY <1>1, <2>1, <2>2 DEF SigningAsks
<1>2. /\ passkeyRequests \in [Requests -> PasskeyRequestRows \cup {Idle}]
      /\ \A r \in Requests : passkeyRequests[r] = Idle \/ SigningAsks(passkeyRequests[r], devices', challenges')
  BY <1>1 DEF SigningInv, SigningRequests
<1>3. CASE UNCHANGED passkeyRequests
  BY <1>2, <1>3 DEF SigningRequests
<1>4. ASSUME NEW r \in Requests, NEW new, new = Idle \/ SigningAsks(new, devices', challenges'),
             passkeyRequests' = [passkeyRequests EXCEPT ![r] = new]
      PROVE  SigningRequests'
  <2>1. \A q \in Requests : passkeyRequests'[q] = IF q = r THEN new ELSE passkeyRequests[q]
    BY <1>2, <1>4
  <2>2. new \in PasskeyRequestRows \cup {Idle}
    BY <1>4 DEF SigningAsks
  <2>3. passkeyRequests' \in [Requests -> PasskeyRequestRows \cup {Idle}]
    BY <1>2, <1>4, <2>2
  <2> QED BY <1>2, <1>4, <2>1, <2>3 DEF SigningRequests
<1>5. CASE \E r \in Requests : SigningMove(r)
  <2>1. PICK r \in Requests : SigningMove(r)
    BY <1>5
  <2>2. PICK new : /\ passkeyRequests' = [passkeyRequests EXCEPT ![r] = new]
                   /\ new = Idle \/ SigningAsks(new, devices', challenges')
    BY <2>1 DEF SigningMove
  <2> QED BY <1>4, <2>2
<1> QED BY <1>3, <1>5

\* The rows and what a request knows.
LEMMA SigningRequest ==
    ASSUME SigningInv, NEW r \in Requests, passkeyRequests[r] # Idle
    PROVE  /\ SigningAsks(passkeyRequests[r], devices, challenges)
           /\ passkeyRequests[r] \in PasskeyRequestRows /\ passkeyRequests[r].key \in Keys
           /\ passkeyRequests[r].count \in Nat /\ passkeyRequests[r].count <= devices[passkeyRequests[r].key]
           /\ passkeyRequests[r].time \in Nat /\ passkeyRequests[r].session \in Nat
           /\ passkeyRequests[r].backed \in BOOLEAN /\ passkeyRequests[r].challenge \in Nat
<1>1. SigningAsks(passkeyRequests[r], devices, challenges)
  BY DEF SigningInv, SigningRequests
<1> QED BY <1>1 DEF SigningAsks, PasskeyRequestRows

\* Nothing of the credentials changes.
LEMMA SigningCredentialsStay ==
    ASSUME SigningInv, UNCHANGED credentials, session' \in Nat, devices' \in [Keys -> Nat],
           \A k \in Keys : devices[k] <= devices'[k]
    PROVE  SigningCredentials' /\ Signing!RevokedStays /\ Signing!SignInRaises
<1>1. \A k \in Keys : credentials[k].count \in Nat
  BY DEF SigningInv, SigningCredentials, CredentialRow
<1>2. SigningCredentials'
  BY <1>1 DEF SigningInv, SigningCredentials
<1>3. Signing!RevokedStays
  BY DEF SigningInv, SigningCredentials, Signing!RevokedStays, Signing!Active
<1>4. Signing!SignInRaises
  BY <1>1 DEF Signing!SignInRaises
<1> QED BY <1>2, <1>3, <1>4

\* A request begins.
LEMMA SigningBegins ==
    ASSUME SigningInv, NEW r \in Requests,
           NEW kind \in {"signIn", "reauthenticate", "add", "rename", "revoke"},
           NEW at \in {"revoke", "insert", "check", "commit", "update"},
           NEW c \in Nat, NEW k \in Keys, NEW n \in Nat, NEW backed \in BOOLEAN,
           devices' \in [Keys -> Nat], \A j \in Keys : devices[j] <= devices'[j], n <= devices'[k],
           at \in {"revoke", "insert"} => kind \in Signing!Purposes,
           kind \in Signing!Purposes /\ at \in {"check", "commit"} => c \in DOMAIN challenges,
           Signing!Begin(r, kind, at, c, k, n, backed)
    PROVE  SigningInv' /\ Signing!RevokedStays /\ Signing!SignInRaises
<1>1. clock \in Nat /\ session \in Nat
  BY SigningConstants DEF SigningInv, SigningCredentials
<1>2. PICK new : new = [kind |-> kind, at |-> at, time |-> clock, session |-> session,
                        challenge |-> c, key |-> k, count |-> n, backed |-> backed]
  OBVIOUS
<1>3. /\ UNCHANGED <<clock, credentials, challenges, session, accepted>>
      /\ passkeyRequests' = [passkeyRequests EXCEPT ![r] = new]
  BY <1>2 DEF Signing!Begin
<1>4. new \in PasskeyRequestRows /\ new.key = k /\ new.count = n /\ new.at = at /\ new.kind = kind
      /\ new.challenge = c
  BY <1>1, <1>2 DEF PasskeyRequestRows
<1> HIDE <1>2
<1>5. SigningAsks(new, devices', challenges')
  BY <1>3, <1>4 DEF SigningAsks
<1>6. SigningRequests'
  <2>1. SigningMove(r)
    BY <1>3, <1>5 DEF SigningMove
  <2> QED BY <1>3, <2>1, SigningRequestsStay
<1>7. SigningChallenges'
  BY <1>3 DEF SigningInv, SigningChallenges
<1>8. SigningCredentials' /\ Signing!RevokedStays /\ Signing!SignInRaises
  BY <1>1, <1>3, SigningCredentialsStay
<1> QED BY <1>3, <1>6, <1>7, <1>8 DEF SigningInv

SigningStep == SigningInv' /\ Signing!RevokedStays /\ Signing!SignInRaises

\* The requests that only begin.
LEMMA SigningOptions ==
    ASSUME SigningInv, NEW r \in Requests,
           \/ Signing!SignInOptions(r) \/ Signing!ReauthenticationOptions(r) \/ Signing!RegistrationOptions(r)
    PROVE  SigningStep
<1>1. /\ devices \in [Keys -> Nat] /\ First \in Keys
      /\ \A k \in Keys : devices[k] \in Nat
  BY SigningConstants DEF SigningInv, SigningCredentials
<1>2. /\ UNCHANGED devices
      /\ \/ Signing!Begin(r, "signIn", "insert", 0, First, 0, FALSE)
         \/ Signing!Begin(r, "reauthenticate", "revoke", 0, First, 0, FALSE)
         \/ Signing!Begin(r, "add", "revoke", 0, First, 0, FALSE)
  BY DEF Signing!SignInOptions, Signing!ReauthenticationOptions, Signing!RegistrationOptions
<1>3. /\ devices' \in [Keys -> Nat] /\ \A k \in Keys : devices[k] <= devices'[k] /\ 0 <= devices'[k]
  BY <1>1, <1>2
<1>4. {"signIn", "reauthenticate", "add"} \subseteq Signing!Purposes /\ FALSE \in BOOLEAN /\ 0 \in Nat
  BY DEF Signing!Purposes
<1>5. CASE Signing!Begin(r, "signIn", "insert", 0, First, 0, FALSE)
  BY <1>1, <1>3, <1>4, <1>5, SigningBegins DEF SigningStep
<1>6. CASE Signing!Begin(r, "reauthenticate", "revoke", 0, First, 0, FALSE)
  BY <1>1, <1>3, <1>4, <1>6, SigningBegins DEF SigningStep
<1>7. CASE Signing!Begin(r, "add", "revoke", 0, First, 0, FALSE)
  BY <1>1, <1>3, <1>4, <1>7, SigningBegins DEF SigningStep
<1> QED BY <1>2, <1>5, <1>6, <1>7

LEMMA SigningManages ==
    ASSUME SigningInv, NEW r \in Requests, NEW k \in Keys,
           Signing!RenamePasskey(r, k) \/ Signing!RevokePasskey(r, k)
    PROVE  SigningStep
<1>1. /\ devices \in [Keys -> Nat] /\ \A j \in Keys : devices[j] \in Nat
  BY DEF SigningInv, SigningCredentials
<1>2. /\ UNCHANGED devices
      /\ \/ Signing!Begin(r, "rename", "update", 0, k, 0, FALSE)
         \/ Signing!Begin(r, "revoke", "commit", 0, k, 0, FALSE)
  BY DEF Signing!RenamePasskey, Signing!RevokePasskey
<1>3. /\ devices' \in [Keys -> Nat] /\ \A j \in Keys : devices[j] <= devices'[j] /\ 0 <= devices'[j]
  BY <1>1, <1>2
<1>4. "rename" \notin Signing!Purposes /\ "revoke" \notin Signing!Purposes /\ FALSE \in BOOLEAN /\ 0 \in Nat
  BY DEF Signing!Purposes
<1>5. CASE Signing!Begin(r, "rename", "update", 0, k, 0, FALSE)
  BY <1>1, <1>3, <1>4, <1>5, SigningBegins DEF SigningStep
<1>6. CASE Signing!Begin(r, "revoke", "commit", 0, k, 0, FALSE)
  BY <1>1, <1>3, <1>4, <1>6, SigningBegins DEF SigningStep
<1> QED BY <1>2, <1>5, <1>6

LEMMA SigningSigns ==
    ASSUME SigningInv, NEW r \in Requests, NEW k \in Keys, NEW c \in DOMAIN challenges, NEW backed \in Backups,
           Signing!SignIn(r, c, k, backed) \/ Signing!Reauthenticate(r, c, k, backed)
    PROVE  SigningStep
<1>1. /\ devices \in [Keys -> Nat] /\ \A j \in Keys : devices[j] \in Nat
      /\ c \in Nat /\ backed \in BOOLEAN
  BY SigningConstants DEF SigningInv, SigningCredentials, SigningChallenges
<1>2. /\ devices' = IF k \in Counting THEN [devices EXCEPT ![k] = @ + 1] ELSE devices
      /\ \/ Signing!Begin(r, "signIn", "check", c, k, devices'[k], backed)
         \/ Signing!Begin(r, "reauthenticate", "check", c, k, devices'[k], backed)
  BY DEF Signing!SignIn, Signing!Reauthenticate, Signing!Sign
<1>3. devices' \in [Keys -> Nat] /\ \A j \in Keys : devices[j] <= devices'[j]
  BY <1>1, <1>2
<1>4. PICK n \in Nat : n = devices'[k]
  BY <1>3
<1>5. n <= devices'[k]
  BY <1>4
<1>6. CASE Signing!Begin(r, "signIn", "check", c, k, n, backed)
  BY <1>1, <1>3, <1>5, <1>6, SigningBegins DEF SigningStep
<1>7. CASE Signing!Begin(r, "reauthenticate", "check", c, k, n, backed)
  BY <1>1, <1>3, <1>5, <1>7, SigningBegins DEF SigningStep
<1> QED BY <1>2, <1>4, <1>6, <1>7

LEMMA SigningAdds ==
    ASSUME SigningInv, NEW r \in Requests, NEW k \in Keys, NEW c \in DOMAIN challenges, NEW backed \in Backups,
           Signing!AddPasskey(r, c, k, backed)
    PROVE  SigningStep
<1>1. /\ devices \in [Keys -> Nat] /\ \A j \in Keys : devices[j] \in Nat
      /\ c \in Nat /\ backed \in BOOLEAN
  BY SigningConstants DEF SigningInv, SigningCredentials, SigningChallenges
<1>2. UNCHANGED devices /\ Signing!Begin(r, "add", "check", c, k, devices[k], backed)
  BY DEF Signing!AddPasskey
<1>3. devices' \in [Keys -> Nat] /\ \A j \in Keys : devices[j] <= devices'[j]
  BY <1>1, <1>2
<1>4. PICK n \in Nat : n = devices[k]
  BY <1>1
<1>5. n <= devices'[k] /\ Signing!Begin(r, "add", "check", c, k, n, backed)
  BY <1>2, <1>4
<1> QED BY <1>1, <1>3, <1>5, SigningBegins DEF SigningStep

\* A request that only goes on or ends.
LEMMA SigningQuiet ==
    ASSUME SigningInv, clock' \in 0..MaxTime, UNCHANGED <<credentials, devices, challenges, session, accepted>>,
           UNCHANGED passkeyRequests \/ \E r \in Requests : SigningMove(r)
    PROVE  SigningStep
<1>1. /\ devices' \in [Keys -> Nat] /\ session' \in Nat /\ \A k \in Keys : devices[k] <= devices'[k]
  <2>1. \A k \in Keys : devices[k] \in Nat
    BY DEF SigningInv, SigningCredentials
  <2> QED BY <2>1 DEF SigningInv, SigningCredentials
<1>2. SigningRequests'
  BY <1>1, SigningRequestsStay
<1>3. SigningCredentials' /\ Signing!RevokedStays /\ Signing!SignInRaises
  BY <1>1, SigningCredentialsStay
<1>4. SigningChallenges'
  BY DEF SigningInv, SigningChallenges
<1> QED BY <1>2, <1>3, <1>4 DEF SigningInv, SigningStep

LEMMA SigningWaits ==
    ASSUME SigningInv, Signing!Tick \/ (\E r \in Requests : Signing!Refuse(r)) \/ UNCHANGED Signing!vars
    PROVE  SigningStep
<1>1. clock \in 0..MaxTime /\ MaxTime \in Nat
  BY SigningConstants DEF SigningInv
<1>2. CASE Signing!Tick
  BY <1>1, <1>2, SigningQuiet DEF Signing!Tick
<1>3. CASE UNCHANGED Signing!vars
  BY <1>1, <1>3, SigningQuiet DEF Signing!vars
<1>4. ASSUME NEW r \in Requests, Signing!Refuse(r)
      PROVE  SigningStep
  <2>1. SigningMove(r) /\ UNCHANGED <<clock, credentials, devices, challenges, session, accepted>>
    BY <1>4 DEF Signing!Refuse, Signing!End, SigningMove
  <2> QED BY <1>1, <2>1, SigningQuiet
<1> QED BY <1>2, <1>3, <1>4

LEMMA SigningChecks ==
    ASSUME SigningInv, NEW r \in Requests, Signing!CheckAssertion(r) \/ Signing!CheckRegistration(r)
    PROVE  SigningStep
<1>1. PICK q, b : /\ q = passkeyRequests[r] /\ q # Idle /\ q.at = "check" /\ b \in BOOLEAN
                  /\ passkeyRequests' = [passkeyRequests EXCEPT ![r] = [q EXCEPT !.at = "commit", !.backed = b]]
                  /\ UNCHANGED <<clock, credentials, devices, challenges, session, accepted>>
  <2>1. passkeyRequests[r] # Idle
    BY DEF Signing!CheckAssertion, Signing!CheckRegistration, Signing!At
  <2>2. /\ passkeyRequests[r].backed \in BOOLEAN /\ passkeyRequests[r].key \in Keys
        /\ passkeyRequests[r] \in PasskeyRequestRows
    BY <2>1, SigningRequest
  <2>3. credentials[passkeyRequests[r].key].backed \in BOOLEAN
    BY <2>2 DEF SigningInv, SigningCredentials, CredentialRow
  <2>4. CASE Signing!CheckAssertion(r)
    <3>1. PICK b : b = Signing!resolveBackupState(credentials[passkeyRequests[r].key].backed, passkeyRequests[r].backed)
      OBVIOUS
    <3>2. b \in BOOLEAN
      BY <2>2, <2>3, <3>1 DEF Signing!resolveBackupState
    <3>3. /\ passkeyRequests[r].at = "check"
          /\ passkeyRequests' = [passkeyRequests EXCEPT ![r] = [passkeyRequests[r] EXCEPT !.at = "commit", !.backed = b]]
          /\ UNCHANGED <<clock, credentials, devices, challenges, session, accepted>>
      BY <2>4, <3>1 DEF Signing!CheckAssertion
    <3> QED BY <2>1, <3>2, <3>3
  <2>5. CASE Signing!CheckRegistration(r)
    <3>1. PICK q : q = passkeyRequests[r] /\ q \in PasskeyRequestRows /\ q.backed \in BOOLEAN
      BY <2>2
    <3>2. [q EXCEPT !.at = "commit"] = [q EXCEPT !.at = "commit", !.backed = q.backed]
      BY <3>1 DEF PasskeyRequestRows
    <3>3. /\ q.at = "check"
          /\ passkeyRequests' = [passkeyRequests EXCEPT ![r] = [q EXCEPT !.at = "commit"]]
          /\ UNCHANGED <<clock, credentials, devices, challenges, session, accepted>>
      BY <2>5, <3>1 DEF Signing!CheckRegistration, Signing!At
    <3> QED BY <2>1, <3>1, <3>2, <3>3
  <2> QED BY <2>4, <2>5
<1>2. SigningAsks(q, devices, challenges) /\ q \in PasskeyRequestRows
  BY <1>1, SigningRequest
<1>3. PICK new : new = [q EXCEPT !.at = "commit", !.backed = b]
  OBVIOUS
<1>4. /\ new \in PasskeyRequestRows /\ new.at = "commit" /\ new.kind = q.kind /\ new.key = q.key
      /\ new.count = q.count /\ new.challenge = q.challenge
  BY <1>1, <1>2, <1>3 DEF PasskeyRequestRows
<1>5. passkeyRequests' = [passkeyRequests EXCEPT ![r] = new]
  BY <1>1, <1>3
<1> HIDE <1>3
<1>6. SigningAsks(new, devices', challenges')
  BY <1>1, <1>2, <1>4 DEF SigningAsks
<1>7. SigningMove(r)
  BY <1>5, <1>6 DEF SigningMove
<1>8. clock' \in 0..MaxTime
  BY <1>1 DEF SigningInv
<1> QED BY <1>1, <1>7, <1>8, SigningQuiet

\* The credentials stay, and the challenges are described apart.
LEMMA SigningAnswers ==
    ASSUME SigningInv, NEW r \in Requests, SigningMove(r), SigningChallenges',
           DOMAIN challenges \subseteq DOMAIN challenges',
           UNCHANGED <<clock, credentials, devices, session>>
    PROVE  SigningStep
<1>1. /\ devices' \in [Keys -> Nat] /\ session' \in Nat /\ \A k \in Keys : devices[k] <= devices'[k]
  <2>1. \A k \in Keys : devices[k] \in Nat
    BY DEF SigningInv, SigningCredentials
  <2> QED BY <2>1 DEF SigningInv, SigningCredentials
<1>2. SigningRequests'
  BY <1>1, SigningRequestsStay
<1>3. SigningCredentials' /\ Signing!RevokedStays /\ Signing!SignInRaises
  BY <1>1, SigningCredentialsStay
<1> QED BY <1>2, <1>3 DEF SigningInv, SigningStep

LEMMA ChallengeRowFields ==
    ASSUME SigningInv
    PROVE  \A c \in DOMAIN challenges :
              /\ challenges[c] \in Signing!ChallengeRows /\ challenges[c].expires \in Nat
              /\ challenges[c].state \in {"open", "consumed", "revoked"}
<1>1. challenges \in Seq(Signing!ChallengeRows)
  BY DEF SigningInv, SigningChallenges
<1>2. \A c \in DOMAIN challenges : challenges[c] \in Signing!ChallengeRows
  BY <1>1
<1>3. \A row \in Signing!ChallengeRows : row.expires \in Nat /\ row.state \in {"open", "consumed", "revoked"}
  BY DEF Signing!ChallengeRows
<1> QED BY <1>2, <1>3

\* Open challenges are revoked.
LEMMA SigningRevokes ==
    ASSUME SigningInv, NEW r \in Requests, Signing!RevokeActiveChallenges(r)
    PROVE  SigningStep
<1>1. PICK q : q = passkeyRequests[r] /\ q # Idle /\ q.at = "revoke"
  BY DEF Signing!RevokeActiveChallenges
<1>2. SigningAsks(q, devices, challenges) /\ q \in PasskeyRequestRows
  BY <1>1, SigningRequest
<1>3. /\ UNCHANGED <<clock, credentials, devices, session, accepted>>
      /\ passkeyRequests' = [passkeyRequests EXCEPT ![r] = [q EXCEPT !.at = "insert"]]
  BY <1>1 DEF Signing!RevokeActiveChallenges
<1>4. PICK Old : /\ challenges' = [c \in DOMAIN challenges |->
                       IF c \in Old THEN [challenges[c] EXCEPT !.state = "revoked"] ELSE challenges[c]]
                 /\ \A c \in Old \cap DOMAIN challenges : challenges[c].state = "open"
  <2>1. PICK Old : Old = {c \in DOMAIN challenges :
                             /\ challenges[c].purpose = passkeyRequests[r].kind
                             /\ challenges[c].session = passkeyRequests[r].session
                             /\ Signing!Open(c, passkeyRequests[r].time)}
    OBVIOUS
  <2>2. \A c \in Old \cap DOMAIN challenges : challenges[c].state = "open"
    BY <2>1 DEF Signing!Open
  <2>3. challenges' = [c \in DOMAIN challenges |->
            IF c \in Old THEN [challenges[c] EXCEPT !.state = "revoked"] ELSE challenges[c]]
    BY <2>1 DEF Signing!RevokeActiveChallenges
  <2> QED BY <2>2, <2>3
<1>5. /\ DOMAIN challenges' = DOMAIN challenges
      /\ \A c \in DOMAIN challenges : challenges'[c] =
            IF c \in Old THEN [challenges[c] EXCEPT !.state = "revoked"] ELSE challenges[c]
  BY <1>4
<1>6. \A row \in Signing!ChallengeRows : LET row2 == [row EXCEPT !.state = "revoked"] IN
          row2 \in Signing!ChallengeRows /\ row2.state = "revoked"
  BY DEF Signing!ChallengeRows
<1>7. \A c \in DOMAIN challenges :
          /\ challenges'[c] \in Signing!ChallengeRows
          /\ challenges'[c].state = "consumed" <=> challenges[c].state = "consumed"
  BY <1>4, <1>5, <1>6, ChallengeRowFields
<1>8. challenges \in Seq(Signing!ChallengeRows) /\ DOMAIN challenges = 1..Len(challenges) /\ Len(challenges) \in Nat
  BY DEF SigningInv, SigningChallenges
<1>9. challenges' \in [1..Len(challenges) -> Signing!ChallengeRows]
  BY <1>4, <1>7, <1>8
<1>10. challenges' \in Seq(Signing!ChallengeRows)
  BY <1>8, <1>9, SeqDef
<1>11. SigningChallenges'
  BY <1>3, <1>5, <1>7, <1>10 DEF SigningInv, SigningChallenges
<1>12. SigningMove(r)
  <2>1. PICK new : new = [q EXCEPT !.at = "insert"]
    OBVIOUS
  <2>2. /\ new \in PasskeyRequestRows /\ new.at = "insert" /\ new.kind = q.kind /\ new.key = q.key
        /\ new.count = q.count
    BY <1>2, <2>1 DEF PasskeyRequestRows
  <2>3. passkeyRequests' = [passkeyRequests EXCEPT ![r] = new]
    BY <1>3, <2>1
  <2> HIDE <2>1
  <2>4. SigningAsks(new, devices', challenges')
    BY <1>1, <1>2, <1>3, <2>2 DEF SigningAsks
  <2> QED BY <2>3, <2>4 DEF SigningMove
<1> QED BY <1>3, <1>5, <1>11, <1>12, SigningAnswers

\* A challenge is inserted.
LEMMA SigningInserts ==
    ASSUME SigningInv, NEW r \in Requests, Signing!CreateWebAuthnChallenge(r)
    PROVE  SigningStep
<1>1. /\ passkeyRequests[r] # Idle /\ passkeyRequests[r].at = "insert"
  BY DEF Signing!CreateWebAuthnChallenge
<1>2. /\ passkeyRequests[r].time \in Nat /\ passkeyRequests[r].session \in Nat
      /\ passkeyRequests[r].kind \in Signing!Purposes /\ ChallengeTTL \in Nat
  BY <1>1, SigningRequest, SigningConstants DEF SigningAsks
<1>3. PICK row : /\ row \in Signing!ChallengeRows /\ row.state = "open"
                 /\ challenges' = Append(challenges, row)
  <2>1. PICK row : row = [purpose |-> passkeyRequests[r].kind, state |-> "open",
            session |-> IF passkeyRequests[r].kind = "signIn" THEN 0 ELSE passkeyRequests[r].session,
            expires |-> passkeyRequests[r].time + ChallengeTTL]
    OBVIOUS
  <2>2. row \in Signing!ChallengeRows /\ row.state = "open"
    BY <1>2, <2>1 DEF Signing!ChallengeRows
  <2>3. challenges' = Append(challenges, row)
    BY <2>1 DEF Signing!CreateWebAuthnChallenge
  <2> QED BY <2>2, <2>3
<1>4. UNCHANGED <<clock, credentials, devices, session, accepted>> /\ Signing!End(r)
  BY DEF Signing!CreateWebAuthnChallenge
<1>5. challenges \in Seq(Signing!ChallengeRows)
  BY DEF SigningInv, SigningChallenges
<1>6. /\ challenges' \in Seq(Signing!ChallengeRows) /\ Len(challenges) + 1 \notin DOMAIN challenges
      /\ DOMAIN challenges' = DOMAIN challenges \cup {Len(challenges) + 1}
      /\ challenges'[Len(challenges) + 1] = row
      /\ \A c \in DOMAIN challenges : challenges'[c] = challenges[c]
  BY <1>3, <1>5, Added
<1>7. SigningChallenges'
  <2>1. \A i \in DOMAIN accepted : accepted[i].challenge # Len(challenges) + 1
    BY <1>6 DEF SigningInv, SigningChallenges
  <2>2. \A c \in DOMAIN challenges' : challenges'[c].state = "consumed" <=>
            \E i \in DOMAIN accepted : accepted[i].challenge = c
    BY <1>3, <1>6, <2>1 DEF SigningInv, SigningChallenges
  <2> QED BY <1>4, <1>6, <2>2 DEF SigningInv, SigningChallenges
<1>8. SigningMove(r)
  BY <1>4 DEF Signing!End, SigningMove
<1> QED BY <1>4, <1>6, <1>7, <1>8, SigningAnswers

\* A ceremony uses a challenge that no other has used.
LEMMA SigningConsumes ==
    ASSUME SigningInv, NEW r \in Requests, passkeyRequests[r] # Idle,
           passkeyRequests[r].kind \in Signing!Purposes, passkeyRequests[r].at = "commit",
           Signing!Consume(r), Signing!Accept(r)
    PROVE  /\ SigningChallenges' /\ SigningMove(r) /\ DOMAIN challenges' = DOMAIN challenges
           /\ Len(accepted) + 1 \in DOMAIN accepted' /\ Len(accepted) \in Nat
           /\ accepted'[Len(accepted) + 1].kind = passkeyRequests[r].kind
<1>1. PICK q, c : q = passkeyRequests[r] /\ c = q.challenge
  OBVIOUS
<1>2. /\ SigningAsks(q, devices, challenges) /\ q \in PasskeyRequestRows
  BY <1>1, SigningRequest
<1>3. c \in DOMAIN challenges /\ c \in Nat
  BY <1>1, <1>2 DEF SigningAsks, PasskeyRequestRows
<1>4. /\ challenges[c].state = "open" /\ challenges' = [challenges EXCEPT ![c].state = "consumed"]
  BY <1>1 DEF Signing!Consume, Signing!Open
<1>5. PICK entry : /\ entry \in AcceptedRows
                   /\ entry.kind = q.kind /\ entry.challenge = c /\ accepted' = Append(accepted, entry)
  <2>1. PICK entry : entry = [kind |-> q.kind, key |-> q.key, challenge |-> c, count |-> q.count]
    OBVIOUS
  <2>2. /\ q.kind \in {"signIn", "reauthenticate", "add", "rename", "revoke"}
        /\ q.key \in Keys /\ q.count \in Nat
    BY <1>2 DEF PasskeyRequestRows
  <2>3. entry \in AcceptedRows /\ entry.kind = q.kind /\ entry.challenge = c
    BY <1>3, <2>1, <2>2 DEF AcceptedRows
  <2>4. accepted' = Append(accepted, entry)
    BY <1>1, <2>1 DEF Signing!Accept
  <2> QED BY <2>3, <2>4
<1>6. accepted \in Seq(AcceptedRows)
  BY DEF SigningInv, SigningChallenges
<1>7. /\ accepted' \in Seq(AcceptedRows)
      /\ DOMAIN accepted' = DOMAIN accepted \cup {Len(accepted) + 1} /\ Len(accepted) \in Nat
      /\ Len(accepted) + 1 \notin DOMAIN accepted
      /\ accepted'[Len(accepted) + 1] = entry
      /\ \A i \in DOMAIN accepted : accepted'[i] = accepted[i]
  BY <1>5, <1>6, Added
<1>8. \A i \in DOMAIN accepted : accepted[i].challenge # c
  BY <1>3, <1>4 DEF SigningInv, SigningChallenges
<1>9. challenges \in Seq(Signing!ChallengeRows) /\ DOMAIN challenges = 1..Len(challenges) /\ Len(challenges) \in Nat
  BY DEF SigningInv, SigningChallenges
<1>10. \A row \in Signing!ChallengeRows : LET row2 == [row EXCEPT !.state = "consumed"] IN
          row2 \in Signing!ChallengeRows /\ row2.state = "consumed"
  BY DEF Signing!ChallengeRows
<1>11. /\ DOMAIN challenges' = DOMAIN challenges
       /\ \A d \in DOMAIN challenges : challenges'[d] =
             IF d = c THEN [challenges[d] EXCEPT !.state = "consumed"] ELSE challenges[d]
  BY <1>3, <1>4, <1>9
<1>12. \A d \in DOMAIN challenges :
          /\ challenges'[d] \in Signing!ChallengeRows
          /\ challenges'[d].state = "consumed" <=> (challenges[d].state = "consumed" \/ d = c)
  <2>1. ASSUME NEW d \in DOMAIN challenges, d = c
        PROVE  challenges'[d] \in Signing!ChallengeRows /\ challenges'[d].state = "consumed"
    BY <1>10, <1>11, <2>1, ChallengeRowFields
  <2>2. ASSUME NEW d \in DOMAIN challenges, d # c
        PROVE  challenges'[d] = challenges[d] /\ challenges[d] \in Signing!ChallengeRows
    BY <1>11, <2>2, ChallengeRowFields
  <2> QED BY <2>1, <2>2
<1>13. challenges' \in [1..Len(challenges) -> Signing!ChallengeRows]
  BY <1>4, <1>9, <1>12
<1>14. challenges' \in Seq(Signing!ChallengeRows)
  BY <1>9, <1>13, SeqDef
<1>15. \A i \in DOMAIN accepted' : accepted'[i].challenge \in DOMAIN challenges'
  BY <1>3, <1>5, <1>7, <1>11 DEF SigningInv, SigningChallenges
<1>16. \A i, j \in DOMAIN accepted' : accepted'[i].challenge = accepted'[j].challenge => i = j
  BY <1>5, <1>7, <1>8 DEF SigningInv, SigningChallenges
<1>17. \A d \in DOMAIN challenges' : challenges'[d].state = "consumed" <=>
          \E i \in DOMAIN accepted' : accepted'[i].challenge = d
  BY <1>5, <1>7, <1>11, <1>12 DEF SigningInv, SigningChallenges
<1>18. SigningMove(r)
  BY DEF Signing!Accept, Signing!End, SigningMove
<1>19. SigningChallenges'
  BY <1>7, <1>14, <1>15, <1>16, <1>17 DEF SigningChallenges
<1>20. accepted'[Len(accepted) + 1].kind = passkeyRequests[r].kind
  BY <1>1, <1>5, <1>7
<1> QED BY <1>7, <1>11, <1>18, <1>19, <1>20

\* One credential changes, and an active one remains.
LEMMA SigningUpdates ==
    ASSUME SigningInv, NEW k \in Keys, NEW row \in CredentialRow,
           credentials' = [credentials EXCEPT ![k] = row],
           row.count <= devices[k], row.status # "none",
           credentials[k].status # "revoked",
           \E j \in Keys : credentials'[j].status = "active",
           session' \in Nat, UNCHANGED devices,
           \/ row.count >= credentials[k].count
           \/ \E i \in DOMAIN accepted' : i > Len(accepted) /\ accepted'[i].kind = "reauthenticate"
    PROVE  SigningCredentials' /\ Signing!RevokedStays /\ Signing!SignInRaises
<1>1. credentials \in [Keys -> CredentialRow]
  BY DEF SigningInv, SigningCredentials
<1>2. \A j \in Keys : credentials'[j] = IF j = k THEN row ELSE credentials[j]
  BY <1>1
<1>3. credentials' \in [Keys -> CredentialRow]
  BY <1>1
<1>4. \A j \in Keys : credentials[j].count \in Nat
  BY <1>1 DEF CredentialRow
<1>5. SigningCredentials'
  <2>1. \A j \in Keys : credentials'[j].count <= devices'[j]
    BY <1>2 DEF SigningInv, SigningCredentials
  <2>2. \A j \in Keys : credentials'[j].status = "none" => credentials'[j].count = 0
    BY <1>2 DEF SigningInv, SigningCredentials
  <2> QED BY <1>3, <2>1, <2>2 DEF SigningInv, SigningCredentials
<1>6. Signing!RevokedStays
  <2>1. Signing!Active' # {}
    BY DEF Signing!Active
  <2>2. \A j \in Keys : credentials[j].status = "revoked" => credentials'[j] = credentials[j]
    BY <1>2
  <2> QED BY <2>1, <2>2 DEF Signing!RevokedStays
<1>7. Signing!SignInRaises
  <2>1. \A j \in Keys \ {k} : ~(credentials'[j].count < credentials[j].count)
    BY <1>2, <1>4
  <2>2. row.count \in Nat
    BY DEF CredentialRow
  <2>3. credentials'[k].count < credentials[k].count =>
           \E i \in DOMAIN accepted' : i > Len(accepted) /\ accepted'[i].kind = "reauthenticate"
    BY <1>2, <1>4, <2>2
  <2> QED BY <2>1, <2>3 DEF Signing!SignInRaises
<1> QED BY <1>5, <1>6, <1>7

\* Only a reauthentication may lower a count.
Permits(q, n) == n >= credentials[q.key].count \/ q.kind = "reauthenticate"

\* An accepted sign-in, reauthentication or addition.
LEMMA SigningAccepts ==
    ASSUME SigningInv, NEW r \in Requests, passkeyRequests[r] # Idle,
           passkeyRequests[r].kind \in Signing!Purposes, passkeyRequests[r].at = "commit",
           Signing!Consume(r), Signing!Accept(r), UNCHANGED <<clock, devices>>, session' \in Nat,
           NEW row \in CredentialRow,
           credentials' = [credentials EXCEPT ![passkeyRequests[r].key] = row],
           row.status = "active", row.count = passkeyRequests[r].count,
           credentials[passkeyRequests[r].key].status # "revoked",
           Permits(passkeyRequests[r], row.count)
    PROVE  SigningStep
<1>1. PICK k : k = passkeyRequests[r].key /\ k \in Keys /\ row.count <= devices[k]
  BY SigningRequest
<1>2. /\ SigningChallenges' /\ SigningMove(r) /\ DOMAIN challenges' = DOMAIN challenges
      /\ Len(accepted) + 1 \in DOMAIN accepted' /\ Len(accepted) \in Nat
      /\ accepted'[Len(accepted) + 1].kind = passkeyRequests[r].kind
  BY SigningConsumes
<1>3. Len(accepted) + 1 > Len(accepted)
  BY <1>2
<1>4. credentials'[k] = row
  BY <1>1 DEF SigningInv, SigningCredentials
<1>5. \E j \in Keys : credentials'[j].status = "active"
  BY <1>1, <1>4
<1>6. \/ row.count >= credentials[k].count
      \/ \E i \in DOMAIN accepted' : i > Len(accepted) /\ accepted'[i].kind = "reauthenticate"
  BY <1>1, <1>2, <1>3 DEF Permits
<1>7. SigningCredentials' /\ Signing!RevokedStays /\ Signing!SignInRaises
  <2>1. credentials' = [credentials EXCEPT ![k] = row] /\ row.status # "none" /\ credentials[k].status # "revoked"
    BY <1>1
  <2> QED BY <1>1, <1>5, <1>6, <2>1, SigningUpdates
<1>8. SigningRequests'
  <2>1. devices' \in [Keys -> Nat] /\ \A j \in Keys : devices[j] <= devices'[j]
    <3>1. \A j \in Keys : devices[j] \in Nat
      BY DEF SigningInv, SigningCredentials
    <3> QED BY <3>1 DEF SigningInv, SigningCredentials
  <2> QED BY <1>2, <2>1, SigningRequestsStay
<1> QED BY <1>2, <1>7, <1>8 DEF SigningInv, SigningStep

\* The row that updatePasskeyAuthenticationState writes.
LEMMA SigningWrites ==
    ASSUME SigningInv, NEW r \in Requests, passkeyRequests[r] # Idle,
           Signing!updatePasskeyAuthenticationState(r)
    PROVE  /\ credentials[passkeyRequests[r].key].status = "active"
           /\ \E row \in CredentialRow :
                /\ credentials' = [credentials EXCEPT ![passkeyRequests[r].key] = row]
                /\ row.status = "active" /\ row.count = passkeyRequests[r].count
<1>1. PICK k, n, b : /\ k = passkeyRequests[r].key /\ n = passkeyRequests[r].count
                     /\ b = passkeyRequests[r].backed
                     /\ k \in Keys /\ n \in Nat /\ b \in BOOLEAN
  BY SigningRequest
<1>2. /\ credentials[k].status = "active"
      /\ credentials' = [credentials EXCEPT ![k].count = n, ![k].backed = b]
  BY <1>1 DEF Signing!updatePasskeyAuthenticationState, Signing!Active
<1>3. credentials \in [Keys -> CredentialRow]
  BY DEF SigningInv, SigningCredentials
<1>4. PICK row : row = [credentials[k] EXCEPT !.count = n, !.backed = b]
  OBVIOUS
<1>5. credentials[k] \in CredentialRow
  BY <1>1, <1>3
<1>6. row \in CredentialRow /\ row.status = "active" /\ row.count = n
  BY <1>1, <1>2, <1>4, <1>5 DEF CredentialRow
<1>7. credentials' = [credentials EXCEPT ![k] = row]
  BY <1>1, <1>2, <1>3, <1>4
<1> QED BY <1>1, <1>2, <1>6, <1>7

LEMMA SigningSignsIn ==
    ASSUME SigningInv, NEW r \in Requests, Signing!VerifyPasskeyAuthentication(r)
    PROVE  SigningStep
<1>1. /\ passkeyRequests[r] # Idle /\ passkeyRequests[r].kind = "signIn" /\ passkeyRequests[r].at = "commit"
      /\ Signing!Consume(r) /\ Signing!Accept(r) /\ UNCHANGED <<clock, devices, session>>
      /\ Signing!updatePasskeyAuthenticationState(r)
      /\ Signing!evaluateCounterPolicy(credentials[passkeyRequests[r].key].count, passkeyRequests[r].count)
  BY DEF Signing!VerifyPasskeyAuthentication, Signing!At
<1>2. PICK row \in CredentialRow :
         /\ credentials' = [credentials EXCEPT ![passkeyRequests[r].key] = row]
         /\ row.status = "active" /\ row.count = passkeyRequests[r].count
  BY <1>1, SigningWrites
<1>3. credentials[passkeyRequests[r].key].status # "revoked"
  BY <1>1, SigningWrites
<1>4. Permits(passkeyRequests[r], row.count)
  <2>1. passkeyRequests[r].key \in Keys /\ passkeyRequests[r].count \in Nat
    BY <1>1, SigningRequest
  <2>2. credentials[passkeyRequests[r].key].count \in Nat
    BY <2>1 DEF SigningInv, SigningCredentials, CredentialRow
  <2> QED BY <1>1, <1>2, <2>1, <2>2 DEF Signing!evaluateCounterPolicy, Permits
<1>5. session' \in Nat /\ passkeyRequests[r].kind \in Signing!Purposes
  BY <1>1 DEF SigningInv, SigningCredentials, Signing!Purposes
<1> QED BY <1>1, <1>2, <1>3, <1>4, <1>5, SigningAccepts

LEMMA SigningReauthenticates ==
    ASSUME SigningInv, NEW r \in Requests, Signing!VerifyPasskeyReauthentication(r)
    PROVE  SigningStep
<1>1. /\ passkeyRequests[r] # Idle /\ passkeyRequests[r].kind = "reauthenticate"
      /\ passkeyRequests[r].at = "commit"
      /\ Signing!Consume(r) /\ Signing!Accept(r) /\ UNCHANGED <<clock, devices>>
      /\ Signing!updatePasskeyAuthenticationState(r) /\ session' = session + 1
  BY DEF Signing!VerifyPasskeyReauthentication, Signing!At, Signing!RotateSession
<1>2. PICK row \in CredentialRow :
         /\ credentials' = [credentials EXCEPT ![passkeyRequests[r].key] = row]
         /\ row.status = "active" /\ row.count = passkeyRequests[r].count
  BY <1>1, SigningWrites
<1>3. credentials[passkeyRequests[r].key].status # "revoked"
  BY <1>1, SigningWrites
<1>4. session' \in Nat /\ passkeyRequests[r].kind \in Signing!Purposes
  BY <1>1 DEF SigningInv, SigningCredentials, Signing!Purposes
<1>5. Permits(passkeyRequests[r], row.count)
  BY <1>1 DEF Permits
<1>6. /\ passkeyRequests[r] # Idle /\ passkeyRequests[r].at = "commit" /\ Signing!Consume(r)
      /\ Signing!Accept(r) /\ UNCHANGED <<clock, devices>>
  BY <1>1
<1> QED BY <1>2, <1>3, <1>4, <1>5, <1>6, SigningAccepts

LEMMA SigningRegisters ==
    ASSUME SigningInv, NEW r \in Requests, Signing!VerifyManagedPasskeyRegistration(r)
    PROVE  SigningStep
<1>1. PICK k, n, b : /\ k = passkeyRequests[r].key /\ n = passkeyRequests[r].count
                     /\ b = passkeyRequests[r].backed
  OBVIOUS
<1>2. /\ passkeyRequests[r] # Idle /\ passkeyRequests[r].kind = "add" /\ passkeyRequests[r].at = "commit"
      /\ Signing!Consume(r) /\ Signing!Accept(r) /\ UNCHANGED <<clock, devices>>
      /\ session' = session + 1 /\ credentials[k].status = "none"
      /\ credentials' = [credentials EXCEPT ![k] =
            [@ EXCEPT !.status = "active", !.count = n, !.backed = b]]
  BY <1>1 DEF Signing!VerifyManagedPasskeyRegistration, Signing!At, Signing!RotateSession
<1>3. k \in Keys /\ n \in Nat /\ b \in BOOLEAN
  BY <1>1, <1>2, SigningRequest
<1>4. /\ credentials \in [Keys -> CredentialRow] /\ credentials[k] \in CredentialRow
      /\ credentials[k].count = 0
  BY <1>2, <1>3 DEF SigningInv, SigningCredentials
<1>5. PICK row : row = [credentials[k] EXCEPT !.status = "active", !.count = n, !.backed = b]
  OBVIOUS
<1>6. row \in CredentialRow /\ row.status = "active" /\ row.count = n
  BY <1>3, <1>4, <1>5 DEF CredentialRow
<1>7. credentials' = [credentials EXCEPT ![k] = row]
  BY <1>2, <1>5
<1>8. session' \in Nat /\ passkeyRequests[r].kind \in Signing!Purposes
  BY <1>2 DEF SigningInv, SigningCredentials, Signing!Purposes
<1>9. Permits(passkeyRequests[r], row.count) /\ credentials[k].status # "revoked"
  BY <1>1, <1>2, <1>3, <1>4, <1>6 DEF Permits
<1> HIDE <1>5
<1> QED BY <1>1, <1>2, <1>6, <1>7, <1>8, <1>9, SigningAccepts

LEMMA SigningRenames ==
    ASSUME SigningInv, NEW r \in Requests, Signing!updatePasskeyLabel(r)
    PROVE  SigningStep
<1>1. PICK k : k = passkeyRequests[r].key
  OBVIOUS
<1>2. /\ passkeyRequests[r] # Idle /\ credentials[k].status = "active" /\ k \in Keys
      /\ credentials' = [credentials EXCEPT ![k].label = @ + 1]
      /\ Signing!End(r) /\ UNCHANGED <<clock, devices, challenges, session, accepted>>
  BY <1>1 DEF Signing!updatePasskeyLabel, Signing!At, Signing!Active
<1>3. credentials \in [Keys -> CredentialRow] /\ credentials[k] \in CredentialRow
  BY <1>2 DEF SigningInv, SigningCredentials
<1>4. PICK n \in Nat : n = credentials[k].label + 1
  BY <1>3 DEF CredentialRow
<1>5. PICK row : row = [credentials[k] EXCEPT !.label = n]
  OBVIOUS
<1>6. row \in CredentialRow /\ row.status = "active" /\ row.count = credentials[k].count
      /\ row.count \in Nat
  BY <1>2, <1>3, <1>5 DEF CredentialRow
<1>7. credentials' = [credentials EXCEPT ![k] = row]
  BY <1>2, <1>4, <1>5
<1> HIDE <1>4, <1>5
<1>8. row.count <= devices[k] /\ row.count >= credentials[k].count /\ row.status # "none"
      /\ credentials[k].status # "revoked"
  BY <1>2, <1>6 DEF SigningInv, SigningCredentials
<1>9. \E j \in Keys : credentials'[j].status = "active"
  BY <1>2, <1>3, <1>6, <1>7
<1>10. session' \in Nat
  BY <1>2 DEF SigningInv, SigningCredentials
<1>11. SigningCredentials' /\ Signing!RevokedStays /\ Signing!SignInRaises
  BY <1>2, <1>6, <1>7, <1>8, <1>9, <1>10, SigningUpdates
<1>12. SigningChallenges'
  BY <1>2 DEF SigningInv, SigningChallenges
<1>13. SigningRequests'
  <2>1. devices' \in [Keys -> Nat] /\ \A j \in Keys : devices[j] <= devices'[j]
    <3>1. \A j \in Keys : devices[j] \in Nat
      BY DEF SigningInv, SigningCredentials
    <3> QED BY <1>2, <3>1 DEF SigningInv, SigningCredentials
  <2>2. SigningMove(r)
    BY <1>2 DEF Signing!End, SigningMove
  <2> QED BY <1>2, <2>1, <2>2, SigningRequestsStay
<1> QED BY <1>2, <1>11, <1>12, <1>13 DEF SigningInv, SigningStep

LEMMA SigningRevokesPasskey ==
    ASSUME SigningInv, NEW r \in Requests, Signing!RevokeManagedPasskey(r)
    PROVE  SigningStep
<1>1. PICK k : k = passkeyRequests[r].key
  OBVIOUS
<1>2. /\ passkeyRequests[r] # Idle /\ credentials[k].status = "active" /\ k \in Keys
      /\ credentials' = [credentials EXCEPT ![k].status = "revoked"]
      /\ Signing!End(r) /\ UNCHANGED <<clock, devices, challenges, accepted>> /\ session' = session + 1
      /\ Signing!Others(k) # {}
  BY <1>1 DEF Signing!RevokeManagedPasskey, Signing!At, Signing!Active, Signing!RotateSession
<1>3. credentials \in [Keys -> CredentialRow] /\ credentials[k] \in CredentialRow
  BY <1>2 DEF SigningInv, SigningCredentials
<1>4. PICK row : row = [credentials[k] EXCEPT !.status = "revoked"]
  OBVIOUS
<1>5. row \in CredentialRow /\ row.status = "revoked" /\ row.count = credentials[k].count
      /\ row.count \in Nat
  BY <1>3, <1>4 DEF CredentialRow
<1>6. credentials' = [credentials EXCEPT ![k] = row]
  BY <1>2, <1>4
<1> HIDE <1>4
<1>7. row.count <= devices[k] /\ row.count >= credentials[k].count /\ row.status # "none"
      /\ credentials[k].status # "revoked"
  BY <1>2, <1>5 DEF SigningInv, SigningCredentials
<1>8. \E j \in Keys : credentials'[j].status = "active"
  <2>1. PICK j \in Keys : j # k /\ credentials[j].status = "active"
    BY <1>2 DEF Signing!Others, Signing!Active
  <2>2. credentials'[j] = credentials[j]
    BY <1>3, <1>6, <2>1
  <2> QED BY <2>1, <2>2
<1>9. session' \in Nat
  BY <1>2 DEF SigningInv, SigningCredentials
<1>10. SigningCredentials' /\ Signing!RevokedStays /\ Signing!SignInRaises
  BY <1>2, <1>5, <1>6, <1>7, <1>8, <1>9, SigningUpdates
<1>11. SigningChallenges'
  BY <1>2 DEF SigningInv, SigningChallenges
<1>12. SigningRequests'
  <2>1. devices' \in [Keys -> Nat] /\ \A j \in Keys : devices[j] <= devices'[j]
    <3>1. \A j \in Keys : devices[j] \in Nat
      BY DEF SigningInv, SigningCredentials
    <3> QED BY <1>2, <3>1 DEF SigningInv, SigningCredentials
  <2>2. SigningMove(r)
    BY <1>2 DEF Signing!End, SigningMove
  <2> QED BY <1>2, <2>1, <2>2, SigningRequestsStay
<1> QED BY <1>2, <1>10, <1>11, <1>12 DEF SigningInv, SigningStep

LEMMA SigningKept ==
    ASSUME SigningInv, [Signing!Next]_Signing!vars
    PROVE  SigningInv' /\ Signing!RevokedStays /\ Signing!SignInRaises
<1>1. CASE Signing!Tick \/ (\E r \in Requests : Signing!Refuse(r)) \/ UNCHANGED Signing!vars
  BY <1>1, SigningWaits DEF SigningStep
<1>2. ASSUME NEW r \in Requests,
             \/ Signing!SignInOptions(r) \/ Signing!ReauthenticationOptions(r)
             \/ Signing!RegistrationOptions(r)
             \/ Signing!RevokeActiveChallenges(r) \/ Signing!CreateWebAuthnChallenge(r)
             \/ Signing!CheckAssertion(r) \/ Signing!CheckRegistration(r)
             \/ Signing!VerifyPasskeyAuthentication(r) \/ Signing!VerifyPasskeyReauthentication(r)
             \/ Signing!VerifyManagedPasskeyRegistration(r)
             \/ Signing!updatePasskeyLabel(r) \/ Signing!RevokeManagedPasskey(r)
      PROVE  SigningStep
  BY <1>2, SigningOptions, SigningRevokes, SigningInserts, SigningChecks, SigningSignsIn,
     SigningReauthenticates, SigningRegisters, SigningRenames, SigningRevokesPasskey
<1>3. ASSUME NEW r \in Requests, NEW k \in Keys,
             \/ Signing!RenamePasskey(r, k) \/ Signing!RevokePasskey(r, k)
             \/ \E c \in DOMAIN challenges, backed \in Backups :
                  \/ Signing!SignIn(r, c, k, backed) \/ Signing!Reauthenticate(r, c, k, backed)
                  \/ Signing!AddPasskey(r, c, k, backed)
      PROVE  SigningStep
  BY <1>3, SigningManages, SigningSigns, SigningAdds
<1> QED BY <1>1, <1>2, <1>3 DEF Signing!Next, SigningStep

-----------------------------------------------------------------------------
(* Set-up.                                                                 *)

GrantPurposes == {"initial_password_setup", "initial_passkey_registration"}

AccountRow ==
    [status : {"none", "pending_email", "pending_password", "pending_passkey", "active"},
     verified : BOOLEAN, handle : BOOLEAN, passwords : Nat, passkeys : Nat, actors : Nat]

SetupRequestRows ==
    [op : {"request", "complete", "password", "options", "verify"},
     at : {"begun", "revoke", "create", "handle"}, now : Nat, id : Nat, ceremony : Nat]

\* A request has captured its time before, and names rows that are there.
SetupAsks(q, time, codes, given, offered) ==
    /\ q \in SetupRequestRows /\ q.now <= time
    /\ q.op = "complete" => q.id \in DOMAIN codes
    /\ q.op \in {"password", "options", "verify"} => q.id \in DOMAIN given
    /\ q.op = "verify" => q.ceremony \in DOMAIN offered
    /\ q.ceremony = 0 \/ q.ceremony \in DOMAIN offered

SetupTables ==
    /\ clock \in 0..MaxTime /\ account \in AccountRow
    /\ setupCodes \in Seq(RowsOf({"verify_email"}))
    /\ setupGrants \in Seq(RowsOf(GrantPurposes))
    /\ setupCeremonies \in Seq(RowsOf({"register"}))
    /\ \A c \in DOMAIN setupCodes : setupCodes[c].tries <= MaxAttempts

\* An active account has every factor, and one past its e-mail has verified it.
SetupAccount ==
    /\ account.passkeys = (IF account.status = "active" THEN 1 ELSE 0)
    /\ account.actors = account.passkeys
    /\ account.status \in {"pending_password", "pending_passkey", "active"} => account.verified
    /\ account.status = "active" => account.handle /\ account.passwords >= 1

SetupPaid ==
    /\ Cardinality(Spent(setupGrants, "initial_password_setup")) = account.passwords
    /\ Cardinality(Spent(setupGrants, "initial_passkey_registration")) = account.passkeys
    /\ Cardinality(Spent(setupCeremonies, "register")) = account.passkeys

SetupLive ==
    /\ \A i, j \in LiveAt(setupGrants, clock) : i = j
    /\ \A g \in LiveAt(setupGrants, clock) :
         account.status \in {Setup!RequiredStatus(setupGrants[g].purpose), "active"}
    /\ \A i, j \in LiveAt(setupCeremonies, clock) : i = j

SetupRequests ==
    /\ setupRequests \in [Requests -> SetupRequestRows \cup {Idle}]
    /\ \A r \in Requests : setupRequests[r] = Idle \/
         SetupAsks(setupRequests[r], clock, setupCodes, setupGrants, setupCeremonies)

SetupInv == SetupTables /\ SetupAccount /\ SetupPaid /\ SetupLive /\ SetupRequests

LEMMA SetupConstants ==
    {CodeTTL, GrantTTL, CeremonyTTL, MaxAttempts} \subseteq Nat /\ MaxTime \in Nat
BY MemberAssumption DEF Setup!SetupAssumption

LEMMA WiderRows ==
    ASSUME NEW P, NEW Q, P \subseteq Q, NEW table \in Seq(RowsOf(P))
    PROVE  table \in Seq(RowsOf(Q))
<1>1. RowsOf(P) \subseteq RowsOf(Q)
  BY DEF RowsOf
<1> QED BY <1>1

LEMMA SetupSpent ==
    ASSUME NEW table, NEW p
    PROVE  /\ Setup!Consumed(table, p) = Cardinality(Spent(table, p))
           /\ {i \in DOMAIN table : Setup!Usable(table[i], clock)} = LiveAt(table, clock)
<1>1. Setup!Consumed(table, p) = Cardinality(Spent(table, p))
  BY SameCardinality DEF Setup!Consumed, Spent
<1>2. {i \in DOMAIN table : Setup!Usable(table[i], clock)} = LiveAt(table, clock)
  BY DEF Setup!Usable, Usable, LiveAt
<1> QED BY <1>1, <1>2

LEMMA AccountFields ==
    ASSUME NEW a \in AccountRow
    PROVE  /\ a.status \in {"none", "pending_email", "pending_password", "pending_passkey", "active"}
           /\ a.verified \in BOOLEAN /\ a.handle \in BOOLEAN
           /\ a.passwords \in Nat /\ a.passkeys \in Nat /\ a.actors \in Nat
BY DEF AccountRow

LEMMA SetupImplied ==
    ASSUME SetupInv
    PROVE  /\ Setup!TypeOK /\ Setup!StepsAreAuthorised
           /\ Setup!OneLiveGrantForTheNextStep /\ Setup!OneLiveCeremony
<1>1. /\ account.status \in {"none", "pending_email", "pending_password", "pending_passkey", "active"}
      /\ account.verified \in BOOLEAN /\ account.handle \in BOOLEAN
      /\ account.passwords \in Nat /\ account.passkeys \in Nat /\ account.actors \in Nat
  BY AccountFields DEF SetupInv, SetupTables
<1>2. Setup!TypeOK
  <2>1. Setup!Rows = RowsOf(Setup!Purposes)
    BY DEF Setup!Rows, RowsOf, States
  <2>2. /\ {"verify_email"} \subseteq Setup!Purposes /\ GrantPurposes \subseteq Setup!Purposes
        /\ {"register"} \subseteq Setup!Purposes
    BY DEF Setup!Purposes, GrantPurposes
  <2>3. {setupCodes, setupGrants, setupCeremonies} \subseteq Seq(Setup!Rows)
    BY <2>1, <2>2, WiderRows DEF SetupInv, SetupTables
  <2>4. \A r \in Requests : setupRequests[r] = Idle \/
          (setupRequests[r].now <= clock /\ setupRequests[r].ceremony \in 0..Len(setupCeremonies))
    <3>1. setupCeremonies \in Seq(RowsOf({"register"}))
      BY DEF SetupInv, SetupTables
    <3>2. DOMAIN setupCeremonies = 1..Len(setupCeremonies) /\ Len(setupCeremonies) \in Nat
      BY <3>1
    <3>3. ASSUME NEW r \in Requests, setupRequests[r] # Idle
          PROVE  setupRequests[r].now <= clock /\ setupRequests[r].ceremony \in 0..Len(setupCeremonies)
      <4>1. SetupAsks(setupRequests[r], clock, setupCodes, setupGrants, setupCeremonies)
        BY <3>3 DEF SetupInv, SetupRequests
      <4>2. /\ setupRequests[r].now <= clock
            /\ setupRequests[r].ceremony = 0 \/ setupRequests[r].ceremony \in 1..Len(setupCeremonies)
        BY <3>2, <4>1 DEF SetupAsks
      <4> QED BY <3>2, <4>2
    <3> QED BY <3>3
  <2>5. {account.verified, account.handle} \subseteq BOOLEAN
    BY <1>1
  <2>6. {account.passwords, account.passkeys, account.actors} \subseteq Nat
    BY <1>1
  <2> QED BY <1>1, <2>3, <2>4, <2>5, <2>6 DEF SetupInv, SetupTables, Setup!TypeOK
<1>3. Setup!StepsAreAuthorised
  BY <1>1, SetupSpent DEF SetupInv, SetupAccount, SetupPaid, Setup!StepsAreAuthorised
<1>4. Setup!LiveGrants = LiveAt(setupGrants, clock)
  BY SetupSpent DEF Setup!LiveGrants
<1>5. Setup!OneLiveGrantForTheNextStep
  <2>1. Cardinality(LiveAt(setupGrants, clock)) <= 1
    BY AtMostOne DEF SetupInv, SetupLive
  <2>2. Setup!Cardinality(LiveAt(setupGrants, clock)) <= 1
    BY <2>1, SameCardinality
  <2> QED BY <1>4, <2>2 DEF SetupInv, SetupLive, Setup!OneLiveGrantForTheNextStep
<1>6. Setup!OneLiveCeremony
  <2>1. Cardinality(LiveAt(setupCeremonies, clock)) <= 1
    BY AtMostOne DEF SetupInv, SetupLive
  <2>2. Setup!Cardinality(LiveAt(setupCeremonies, clock)) <= 1
    BY <2>1, SameCardinality
  <2> QED BY <2>2, SetupSpent DEF Setup!OneLiveCeremony
<1> QED BY <1>2, <1>3, <1>5, <1>6

LEMMA SetupStarts ==
    ASSUME Setup!Init PROVE SetupInv
<1>1. DOMAIN << >> = {} /\ \A R : << >> \in Seq(R)
  OBVIOUS
<1>2. \A p : Spent(<< >>, p) = {} /\ LiveAt(<< >>, clock) = {}
  BY <1>1 DEF Spent, LiveAt
<1>3. Cardinality({}) = 0
  BY FS_EmptySet
<1>4. /\ clock = 0 /\ clock \in 0..MaxTime /\ setupCodes = << >> /\ setupCeremonies = << >>
  BY SetupConstants DEF Setup!Init
<1>5. /\ account \in AccountRow /\ account.passwords = 0 /\ account.passkeys = 0 /\ account.actors = 0
      /\ account = Setup!LegacyAccount => account.status = "pending_passkey" /\ account.verified = TRUE
      /\ account = Setup!NoAccount => account.status = "none"
      /\ account = Setup!LegacyAccount \/ account = Setup!NoAccount
  <2>1. /\ Setup!NoAccount \in AccountRow /\ Setup!NoAccount.status = "none"
        /\ Setup!NoAccount.passwords = 0 /\ Setup!NoAccount.passkeys = 0 /\ Setup!NoAccount.actors = 0
    BY DEF Setup!NoAccount, AccountRow
  <2>2. /\ Setup!LegacyAccount \in AccountRow /\ Setup!LegacyAccount.status = "pending_passkey"
        /\ Setup!LegacyAccount.verified = TRUE
        /\ Setup!LegacyAccount.passwords = 0 /\ Setup!LegacyAccount.passkeys = 0 /\ Setup!LegacyAccount.actors = 0
    BY DEF Setup!LegacyAccount, Setup!NoAccount, AccountRow
  <2>3. account = Setup!LegacyAccount \/ account = Setup!NoAccount
    BY DEF Setup!Init
  <2> QED BY <2>1, <2>2, <2>3
<1>6. PICK row : row = Row("initial_passkey_registration", 0, GrantTTL)
                 /\ Fresh(row, GrantPurposes, "initial_passkey_registration")
  BY SetupConstants, RowIs DEF GrantPurposes
<1>7. \/ setupGrants = << >>
      \/ account = Setup!LegacyAccount /\ setupGrants = <<row>>
  BY <1>5, <1>6, SameOperators DEF Setup!Init
<1>8. setupGrants \in Seq(RowsOf(GrantPurposes)) /\ \A p : Spent(setupGrants, p) = {}
  <2>1. CASE setupGrants = << >>
    BY <1>1, <1>2, <2>1
  <2>2. CASE setupGrants = <<row>>
    <3>1. row \in RowsOf(GrantPurposes) /\ row.state # "consumed"
      BY <1>6 DEF Fresh
    <3>2. setupGrants \in Seq(RowsOf(GrantPurposes)) /\ \A i \in DOMAIN setupGrants : setupGrants[i] = row
      BY <2>2, <3>1
    <3>3. \A p : Spent(setupGrants, p) = {}
      BY <3>1, <3>2 DEF Spent
    <3> QED BY <3>2, <3>3
  <2> QED BY <1>7, <2>1, <2>2
<1>9. /\ \A i, j \in LiveAt(setupGrants, clock) : i = j
      /\ \A g \in LiveAt(setupGrants, clock) :
           account.status \in {Setup!RequiredStatus(setupGrants[g].purpose), "active"}
  <2>1. CASE setupGrants = << >>
    BY <1>2, <2>1
  <2>2. CASE account = Setup!LegacyAccount /\ setupGrants = <<row>>
    <3>1. row.purpose = "initial_passkey_registration"
      BY <1>6 DEF Fresh
    <3>2. DOMAIN setupGrants = {1} /\ setupGrants[1] = row
      BY <2>2
    <3> QED BY <1>5, <2>2, <3>1, <3>2 DEF LiveAt, Setup!RequiredStatus
  <2> QED BY <1>7, <2>1, <2>2
<1>10. SetupTables
  BY <1>1, <1>4, <1>5, <1>8 DEF SetupTables
<1>11. SetupAccount
  BY <1>5 DEF SetupAccount
<1>12. SetupPaid
  BY <1>2, <1>3, <1>4, <1>5, <1>8 DEF SetupPaid
<1>13. SetupLive
  BY <1>2, <1>4, <1>9 DEF SetupLive
<1>14. SetupRequests
  BY DEF Setup!Init, SetupRequests
<1> QED BY <1>10, <1>11, <1>12, <1>13, <1>14 DEF SetupInv

-----------------------------------------------------------------------------
(* The promises of AccountLifecycle.                                       *)

LEMMA FactorsAre ==
    /\ Setup!Factors \subseteq Setup!Lifecycle!AllFactors
    /\ "email" \in Setup!Factors <=> account.verified
    /\ "password" \in Setup!Factors <=> account.passwords > 0
    /\ "handle" \in Setup!Factors <=> account.handle
    /\ "passkey" \in Setup!Factors <=> account.passkeys > 0
    /\ "actor" \in Setup!Factors <=> account.actors > 0
BY DEF Setup!Factors, Setup!Lifecycle!AllFactors

LEMMA FactorsBecome ==
    /\ Setup!Factors' \subseteq Setup!Lifecycle!AllFactors
    /\ "email" \in Setup!Factors' <=> account'.verified
    /\ "password" \in Setup!Factors' <=> account'.passwords > 0
    /\ "handle" \in Setup!Factors' <=> account'.handle
    /\ "passkey" \in Setup!Factors' <=> account'.passkeys > 0
    /\ "actor" \in Setup!Factors' <=> account'.actors > 0
BY DEF Setup!Factors, Setup!Lifecycle!AllFactors

\* No factor is lost.
FactorsStay ==
    /\ account.verified => account'.verified
    /\ account.passwords > 0 => account'.passwords > 0
    /\ account.handle => account'.handle
    /\ account.passkeys > 0 => account'.passkeys > 0
    /\ account.actors > 0 => account'.actors > 0

LEMMA FactorsGrow ==
    ASSUME FactorsStay
    PROVE  Setup!Factors \subseteq Setup!Factors'
BY FactorsAre, FactorsBecome DEF FactorsStay, Setup!Lifecycle!AllFactors

LifecycleStep == [Setup!Lifecycle!Next]_Setup!Lifecycle!vars

LEMMA LifecycleStays ==
    ASSUME UNCHANGED account
    PROVE  LifecycleStep
BY DEF LifecycleStep, Setup!Factors, Setup!Lifecycle!vars

LEMMA LifecycleAcquires ==
    ASSUME account.status # "active", account'.status = account.status, FactorsStay
    PROVE  LifecycleStep
BY FactorsBecome, FactorsGrow DEF LifecycleStep, Setup!Lifecycle!Next, Setup!Lifecycle!Acquire

LEMMA LifecycleStarts ==
    ASSUME Setup!Init PROVE Setup!Lifecycle!Init
<1>1. SetupInv
  BY SetupStarts
<1>2. account.status = "none" \/ (account.status = "pending_passkey" /\ account.verified)
  <2>1. account = Setup!NoAccount \/ account = Setup!LegacyAccount
    BY DEF Setup!Init
  <2>2. Setup!NoAccount.status = "none"
    BY DEF Setup!NoAccount
  <2>3. Setup!LegacyAccount.status = "pending_passkey" /\ Setup!LegacyAccount.verified = TRUE
    BY DEF Setup!NoAccount, Setup!LegacyAccount
  <2> QED BY <2>1, <2>2, <2>3
<1> QED BY <1>2, FactorsAre DEF Setup!Lifecycle!Init, Setup!Lifecycle!RequiredFactors

-----------------------------------------------------------------------------
(* Steps of the set-up.                                                    *)

\* A request begins, goes on or ends.
SetupMove(r) ==
    \E new : /\ setupRequests' = [setupRequests EXCEPT ![r] = new]
             /\ new = Idle \/ SetupAsks(new, clock, setupCodes, setupGrants, setupCeremonies)

\* A step that lets tables only grow and starts, moves or ends at most one request.
LEMMA SetupRequestsStay ==
    ASSUME SetupInv, clock' \in Nat, clock <= clock',
           DOMAIN setupCodes \subseteq DOMAIN setupCodes',
           DOMAIN setupGrants \subseteq DOMAIN setupGrants',
           DOMAIN setupCeremonies \subseteq DOMAIN setupCeremonies',
           UNCHANGED setupRequests \/ \E r \in Requests : SetupMove(r)
    PROVE  SetupRequests'
<1>0. clock \in Nat
  BY SetupConstants DEF SetupInv, SetupTables
<1>1. ASSUME NEW q, SetupAsks(q, clock, setupCodes, setupGrants, setupCeremonies)
      PROVE  SetupAsks(q, clock', setupCodes', setupGrants', setupCeremonies')
  <2>1. q.now \in Nat
    BY <1>1 DEF SetupAsks, SetupRequestRows
  <2>2. q.now <= clock'
    BY <1>0, <1>1, <2>1 DEF SetupAsks
  <2> QED BY <1>1, <2>2 DEF SetupAsks
<1>2. CASE UNCHANGED setupRequests
  BY <1>1, <1>2 DEF SetupInv, SetupRequests
<1>3. ASSUME NEW r \in Requests, NEW new,
             new = Idle \/ SetupAsks(new, clock, setupCodes, setupGrants, setupCeremonies),
             setupRequests' = [setupRequests EXCEPT ![r] = new]
      PROVE  SetupRequests'
  <2>1. \A q \in Requests : setupRequests'[q] = IF q = r THEN new ELSE setupRequests[q]
    BY <1>3 DEF SetupInv, SetupRequests
  <2>2. \A q \in Requests : setupRequests'[q] = Idle \/
            SetupAsks(setupRequests'[q], clock, setupCodes, setupGrants, setupCeremonies)
    BY <1>3, <2>1 DEF SetupInv, SetupRequests
  <2>3. setupRequests' \in [Requests -> SetupRequestRows \cup {Idle}]
    BY <1>3, <2>1, <2>2 DEF SetupInv, SetupRequests, SetupAsks
  <2>4. \A q \in Requests : setupRequests'[q] = Idle \/
            SetupAsks(setupRequests'[q], clock', setupCodes', setupGrants', setupCeremonies')
    BY <1>1, <2>2
  <2> QED BY <2>3, <2>4 DEF SetupRequests
<1> QED BY <1>2, <1>3 DEF SetupMove

\* What a request knows.
LEMMA SetupRequest ==
    ASSUME SetupInv, NEW r \in Requests, setupRequests[r] # Idle
    PROVE  /\ SetupAsks(setupRequests[r], clock, setupCodes, setupGrants, setupCeremonies)
           /\ Setup!Now(r) = setupRequests[r].now
           /\ Setup!Now(r) \in Nat /\ clock \in Nat /\ Setup!Now(r) <= clock
<1>1. SetupAsks(setupRequests[r], clock, setupCodes, setupGrants, setupCeremonies)
  BY DEF SetupInv, SetupRequests
<1>2. setupRequests[r].now \in Nat /\ setupRequests[r].now <= clock
  BY <1>1 DEF SetupAsks, SetupRequestRows
<1>3. clock \in Nat
  BY SetupConstants DEF SetupInv, SetupTables
<1> QED BY <1>1, <1>2, <1>3 DEF Setup!Now

SetupMoves(r) == Setup!End(r) \/ \E at \in {"revoke", "create", "handle"} : Setup!Goto(r, at)

LEMMA SetupRequestMoves ==
    ASSUME SetupInv, NEW r \in Requests, setupRequests[r] # Idle, SetupMoves(r)
    PROVE  SetupMove(r)
<1>1. SetupAsks(setupRequests[r], clock, setupCodes, setupGrants, setupCeremonies)
  BY DEF SetupInv, SetupRequests
<1>2. \A q, at : /\ SetupAsks(q, clock, setupCodes, setupGrants, setupCeremonies)
                 /\ at \in {"revoke", "create", "handle"}
        => SetupAsks([q EXCEPT !.at = at], clock, setupCodes, setupGrants, setupCeremonies)
  BY DEF SetupAsks, SetupRequestRows
<1>3. CASE Setup!End(r)
  BY <1>3 DEF Setup!End, SetupMove
<1>4. ASSUME NEW at \in {"revoke", "create", "handle"}, Setup!Goto(r, at)
      PROVE  SetupMove(r)
  <2>1. setupRequests' = [setupRequests EXCEPT ![r] = [setupRequests[r] EXCEPT !.at = at]]
    BY <1>4 DEF Setup!Goto
  <2> QED BY <1>1, <1>2, <2>1 DEF SetupMove
<1> QED BY <1>3, <1>4 DEF SetupMoves

\* The facts about the tables that the steps start from.
LEMMA SetupFacts ==
    ASSUME SetupInv
    PROVE  /\ setupCodes \in Seq(RowsOf({"verify_email"}))
           /\ setupGrants \in Seq(RowsOf(GrantPurposes))
           /\ setupCeremonies \in Seq(RowsOf({"register"}))
           /\ \A c \in DOMAIN setupCodes : setupCodes[c].tries <= MaxAttempts
           /\ \A i, j \in LiveAt(setupGrants, clock) : i = j
           /\ \A i, j \in LiveAt(setupCeremonies, clock) : i = j
           /\ account \in AccountRow /\ clock \in Nat
           /\ OthersLive(setupCodes, "verify_email", clock) = {}
           /\ OthersLive(setupCeremonies, "register", clock) = {}
BY SetupConstants, NoOthers DEF SetupInv, SetupTables, SetupLive

\* A grant that can be used is for the step that is due.
LEMMA LiveGrantsAreDue ==
    ASSUME SetupInv
    PROVE  \A g \in LiveAt(setupGrants, clock) :
             \/ account.status = "pending_password" /\ setupGrants[g].purpose = "initial_password_setup"
             \/ account.status = "pending_passkey" /\ setupGrants[g].purpose = "initial_passkey_registration"
             \/ account.status = "active"
<1>1. \A g \in LiveAt(setupGrants, clock) : setupGrants[g].purpose \in GrantPurposes
  BY SetupFacts, RowFields DEF LiveAt
<1> QED BY <1>1 DEF SetupInv, SetupLive, Setup!RequiredStatus, GrantPurposes

\* A step of a request that leaves every table well.
SetupStep ==
    /\ setupCodes' \in Seq(RowsOf({"verify_email"})) /\ DOMAIN setupCodes \subseteq DOMAIN setupCodes'
    /\ setupGrants' \in Seq(RowsOf(GrantPurposes)) /\ DOMAIN setupGrants \subseteq DOMAIN setupGrants'
    /\ setupCeremonies' \in Seq(RowsOf({"register"}))
    /\ DOMAIN setupCeremonies \subseteq DOMAIN setupCeremonies'
    /\ \A c \in DOMAIN setupCodes' : setupCodes'[c].tries <= MaxAttempts

LEMMA SetupSteps ==
    ASSUME SetupInv, NEW r \in Requests, setupRequests[r] # Idle, SetupMoves(r),
           UNCHANGED clock, account' \in AccountRow,
           SetupStep, SetupAccount', SetupPaid', SetupLive'
    PROVE  SetupInv'
<1>1. SetupMove(r)
  BY SetupRequestMoves
<1>2. clock \in Nat
  BY SetupFacts
<1>3. SetupRequests'
  BY <1>1, <1>2, SetupRequestsStay DEF SetupStep
<1>4. SetupTables'
  BY DEF SetupInv, SetupTables, SetupStep
<1> QED BY <1>3, <1>4 DEF SetupInv

SetupDone == SetupInv' /\ LifecycleStep

\* The account and its tables stay as they are.
LEMMA SetupStays ==
    ASSUME SetupInv, clock' \in 0..MaxTime, clock <= clock',
           UNCHANGED <<account, setupCodes, setupGrants, setupCeremonies>>,
           UNCHANGED setupRequests \/ \E r \in Requests : SetupMove(r)
    PROVE  SetupDone
<1>1. clock \in Nat /\ clock' \in Nat
  BY SetupConstants, SetupFacts
<1>2. /\ LiveAt(setupGrants, clock') \subseteq LiveAt(setupGrants, clock)
      /\ LiveAt(setupCeremonies, clock') \subseteq LiveAt(setupCeremonies, clock)
  BY <1>1, SetupFacts, LiveShrinks
<1>3. SetupTables'
  BY DEF SetupInv, SetupTables
<1>4. SetupAccount' /\ SetupPaid'
  BY DEF SetupInv, SetupAccount, SetupPaid
<1>5. SetupLive'
  BY <1>2 DEF SetupInv, SetupLive, Setup!RequiredStatus
<1>6. SetupRequests'
  BY <1>1, SetupRequestsStay
<1> QED BY <1>3, <1>4, <1>5, <1>6, LifecycleStays DEF SetupInv, SetupDone

LEMMA SetupWaits ==
    ASSUME SetupInv,
           Setup!Tick \/ (\E r \in Requests : Setup!Refuse(r)) \/ UNCHANGED Setup!vars
    PROVE  SetupDone
<1>1. /\ clock' \in 0..MaxTime /\ clock <= clock'
      /\ UNCHANGED <<account, setupCodes, setupGrants, setupCeremonies>>
  <2>1. clock \in 0..MaxTime /\ MaxTime \in Nat
    BY SetupConstants DEF SetupInv, SetupTables
  <2>2. CASE Setup!Tick
    BY <2>1, <2>2 DEF Setup!Tick, Setup!tables
  <2>3. CASE \E r \in Requests : Setup!Refuse(r)
    BY <2>1, <2>3 DEF Setup!Refuse, Setup!tables
  <2>4. CASE UNCHANGED Setup!vars
    BY <2>1, <2>4 DEF Setup!vars, Setup!tables
  <2> QED BY <2>2, <2>3, <2>4
<1>2. UNCHANGED setupRequests \/ \E r \in Requests : SetupMove(r)
  BY DEF Setup!Tick, Setup!Refuse, Setup!End, Setup!vars, SetupMove
<1> QED BY <1>1, <1>2, SetupStays

\* A new request names rows that are there.
LEMMA SetupStarting ==
    ASSUME SetupInv, NEW r \in Requests,
           NEW op \in {"request", "complete", "password", "options", "verify"}, NEW i \in Nat, NEW k \in Nat,
           op = "complete" => i \in DOMAIN setupCodes,
           op \in {"password", "options", "verify"} => i \in DOMAIN setupGrants,
           op = "verify" => k \in DOMAIN setupCeremonies, k = 0 \/ k \in DOMAIN setupCeremonies,
           Setup!Start(r, op, i, k)
    PROVE  SetupDone
<1> DEFINE new == [op |-> op, at |-> "begun", now |-> clock, id |-> i, ceremony |-> k]
<1>1. clock \in Nat /\ clock \in 0..MaxTime
  BY SetupFacts DEF SetupInv, SetupTables
<1>2. new \in SetupRequestRows /\ new.op = op /\ new.now = clock /\ new.id = i /\ new.ceremony = k
  BY <1>1 DEF SetupRequestRows
<1>3. SetupAsks(new, clock, setupCodes, setupGrants, setupCeremonies)
  BY <1>1, <1>2 DEF SetupAsks
<1>4. /\ setupRequests' = [setupRequests EXCEPT ![r] = new]
      /\ UNCHANGED <<clock, account, setupCodes, setupGrants, setupCeremonies>>
  BY DEF Setup!Start, Setup!tables
<1>5. SetupMove(r)
  BY <1>3, <1>4 DEF SetupMove
<1> QED BY <1>1, <1>4, <1>5, SetupStays

LEMMA SetupBegins ==
    ASSUME SetupInv, NEW r \in Requests,
           \/ Setup!RequestEmailVerification(r) \/ Setup!Complete(r)
           \/ Setup!ResolveAuthorizedPasswordSetup(r) \/ Setup!ResolveAuthorizedSetup(r)
    PROVE  SetupDone
<1>0. /\ DOMAIN setupCodes \subseteq Nat /\ DOMAIN setupGrants \subseteq Nat
      /\ DOMAIN setupCeremonies \subseteq Nat
  BY SetupFacts
<1>1. CASE Setup!RequestEmailVerification(r)
  BY <1>1, SetupStarting DEF Setup!RequestEmailVerification
<1>2. CASE Setup!Complete(r)
  <2>1. PICK c \in DOMAIN setupCodes : Setup!Start(r, "complete", c, 0)
    BY <1>2 DEF Setup!Complete
  <2> QED BY <1>0, <2>1, SetupStarting
<1>3. CASE Setup!ResolveAuthorizedPasswordSetup(r)
  <2>1. PICK g \in DOMAIN setupGrants : Setup!Start(r, "password", g, 0)
    BY <1>3 DEF Setup!ResolveAuthorizedPasswordSetup
  <2> QED BY <1>0, <2>1, SetupStarting
<1>4. CASE Setup!ResolveAuthorizedSetup(r)
  <2>1. PICK g \in DOMAIN setupGrants, op \in {"options", "verify"}, k \in DOMAIN setupCeremonies \cup {0} :
            (op = "options" <=> k = 0) /\ Setup!Start(r, op, g, k)
    BY <1>4 DEF Setup!ResolveAuthorizedSetup
  <2>2. op = "verify" => k \in DOMAIN setupCeremonies
    BY <2>1
  <2> QED BY <1>0, <2>1, <2>2, SetupStarting
<1> QED BY <1>1, <1>2, <1>3, <1>4

LEMMA SetupFindsLatest ==
    ASSUME SetupInv, NEW r \in Requests, Setup!FindLatestChallenge(r)
    PROVE  SetupDone
<1>1. /\ setupRequests[r] # Idle /\ Setup!Goto(r, "revoke")
      /\ UNCHANGED <<clock, account, setupCodes, setupGrants, setupCeremonies>>
  BY DEF Setup!FindLatestChallenge, Setup!In, Setup!tables
<1>2. SetupMove(r)
  BY <1>1, SetupRequestMoves DEF SetupMoves
<1>3. clock \in 0..MaxTime /\ clock \in Nat
  BY SetupFacts DEF SetupInv, SetupTables
<1> QED BY <1>1, <1>2, <1>3, SetupStays

\* The account stays; a step of a request changes a table.
LEMMA SetupChangesTables ==
    ASSUME SetupInv, NEW r \in Requests, setupRequests[r] # Idle, SetupMoves(r),
           UNCHANGED <<clock, account>>, SetupStep, SetupPaid', SetupLive'
    PROVE  SetupDone
<1>1. account' \in AccountRow /\ SetupAccount'
  BY DEF SetupInv, SetupTables, SetupAccount
<1> QED BY <1>1, SetupSteps, LifecycleStays DEF SetupDone

LEMMA SetupRevokesCodes ==
    ASSUME SetupInv, NEW r \in Requests, Setup!RevokeActiveEmailChallenges(r)
    PROVE  SetupDone
<1>1. PICK t : t = Setup!Now(r)
  OBVIOUS
<1>2. /\ setupRequests[r] # Idle /\ Setup!Goto(r, "create")
      /\ UNCHANGED <<clock, account, setupGrants, setupCeremonies>>
      /\ setupCodes' = SetState(setupCodes, ToRevoke(setupCodes, "verify_email", t, 0), "revoked")
  BY <1>1, SameOperators DEF Setup!RevokeActiveEmailChallenges, Setup!In
<1>3. t \in Nat /\ clock \in Nat /\ t <= clock
  BY <1>1, <1>2, SetupRequest
<1>4. Closes({"verify_email"}, setupCodes', setupCodes, "verify_email", clock)
  BY <1>2, <1>3, SetupFacts, Closing
<1>5. SetupStep
  BY <1>2, <1>4, SetupFacts DEF SetupStep, Closes, Keeps
<1>6. SetupPaid' /\ SetupLive'
  BY <1>2 DEF SetupInv, SetupPaid, SetupLive, Setup!RequiredStatus
<1>7. SetupMoves(r)
  BY <1>2 DEF SetupMoves
<1> QED BY <1>2, <1>5, <1>6, <1>7, SetupChangesTables

LEMMA SetupInsertsCode ==
    ASSUME SetupInv, NEW r \in Requests, Setup!CreateEmailChallenge(r)
    PROVE  SetupDone
<1>1. PICK t : t = Setup!Now(r)
  OBVIOUS
<1>2. /\ setupRequests[r] # Idle /\ SetupMoves(r)
      /\ UNCHANGED <<clock, account, setupGrants, setupCeremonies>>
      /\ setupCodes' = Append(setupCodes, Row("verify_email", t, CodeTTL))
  BY <1>1, SameOperators DEF Setup!CreateEmailChallenge, Setup!In, SetupMoves
<1>3. t \in Nat /\ CodeTTL \in Nat /\ MaxAttempts \in Nat
  BY <1>1, <1>2, SetupRequest, SetupConstants
<1>4. PICK row : row = Row("verify_email", t, CodeTTL) /\ Fresh(row, {"verify_email"}, "verify_email")
  BY <1>3, RowIs
<1>5. row \in RowsOf({"verify_email"}) /\ row.state = "active" /\ row.tries = 0
  BY <1>4 DEF Fresh
<1>6. Inserts({"verify_email"}, setupCodes', setupCodes, row)
  BY <1>2, <1>4, <1>5, SetupFacts, Inserting
<1>7. SetupStep
  BY <1>2, <1>3, <1>5, <1>6, SetupFacts DEF SetupStep, Inserts, Extends
<1>8. SetupPaid' /\ SetupLive'
  BY <1>2 DEF SetupInv, SetupPaid, SetupLive, Setup!RequiredStatus
<1> QED BY <1>2, <1>7, <1>8, SetupChangesTables

LEMMA SetupCountsTries ==
    ASSUME SetupInv, NEW r \in Requests, Setup!WrongCode(r)
    PROVE  SetupDone
<1>1. PICK c : c = setupRequests[r].id
  OBVIOUS
<1>2. /\ setupRequests[r] # Idle /\ setupRequests[r].op = "complete" /\ SetupMoves(r)
      /\ UNCHANGED <<clock, account, setupGrants, setupCeremonies>>
      /\ setupCodes[c].tries < MaxAttempts
      /\ setupCodes' = [setupCodes EXCEPT ![c].tries = @ + 1]
  BY <1>1 DEF Setup!WrongCode, Setup!ChallengeAccepted, Setup!In, SetupMoves
<1>3. c \in DOMAIN setupCodes
  BY <1>1, <1>2, SetupRequest DEF SetupAsks
<1>4. MaxAttempts \in Nat /\ setupCodes[c].tries \in Nat
  BY <1>3, SetupConstants, SetupFacts, RowFields
<1>5. Counts({"verify_email"}, setupCodes', setupCodes, c)
  BY <1>2, <1>3, SetupFacts, Counted
<1>6. \A i \in DOMAIN setupCodes' : setupCodes'[i].tries <= MaxAttempts
  BY <1>2, <1>4, <1>5, SetupFacts DEF Counts
<1>7. SetupStep
  BY <1>2, <1>5, <1>6, SetupFacts DEF SetupStep, Counts
<1>8. SetupPaid' /\ SetupLive'
  BY <1>2 DEF SetupInv, SetupPaid, SetupLive, Setup!RequiredStatus
<1> QED BY <1>2, <1>7, <1>8, SetupChangesTables

LEMMA SetupRevokesGrant ==
    ASSUME SetupInv, NEW r \in Requests, Setup!RevokeThrottledGrant(r)
    PROVE  SetupDone
<1>1. PICK g : g = setupRequests[r].id
  OBVIOUS
<1>2. /\ setupRequests[r] # Idle /\ setupRequests[r].op \in {"password", "options", "verify"} /\ SetupMoves(r)
      /\ UNCHANGED <<clock, account, setupCodes, setupCeremonies>>
      /\ setupGrants[g].state = "active"
      /\ setupGrants' = SetState(setupGrants, {g}, "revoked")
  BY <1>1, SameOperators DEF Setup!RevokeThrottledGrant, SetupMoves
<1>3. {g} \subseteq Unspent(setupGrants)
  BY <1>1, <1>2, SetupRequest DEF SetupAsks, Unspent
<1>4. Revokes(GrantPurposes, setupGrants', setupGrants, {g})
  BY <1>2, <1>3, SetupFacts, Revoking
<1>5. LiveAt(setupGrants', clock) \subseteq LiveAt(setupGrants, clock)
  BY <1>4, SetupFacts DEF Revokes, Loses
<1>6. SetupStep
  BY <1>2, <1>4, SetupFacts DEF SetupStep, Revokes, Keeps
<1>7. SetupPaid'
  BY <1>2, <1>4 DEF SetupInv, SetupPaid, Revokes, SpendsNone
<1>8. SetupLive'
  <2>1. \A i \in LiveAt(setupGrants', clock) : setupGrants'[i].purpose = setupGrants[i].purpose
    BY <1>4, <1>5 DEF Revokes, Keeps, LiveAt
  <2> QED BY <1>2, <1>5, <2>1 DEF SetupInv, SetupLive, Setup!RequiredStatus
<1> QED BY <1>2, <1>6, <1>7, <1>8, SetupChangesTables

LEMMA SetupOffersCeremony ==
    ASSUME SetupInv, NEW r \in Requests, Setup!CreatePasskeyRegistrationOptions(r)
    PROVE  SetupDone
<1>1. PICK t : t = Setup!Now(r)
  OBVIOUS
<1>2. /\ setupRequests[r] # Idle /\ SetupMoves(r)
      /\ UNCHANGED <<clock, account, setupCodes, setupGrants>>
      /\ setupCeremonies' = Append(SetState(setupCeremonies,
            ToRevoke(setupCeremonies, "register", t, 0), "revoked"), Row("register", t, CeremonyTTL))
  BY <1>1, SameOperators DEF Setup!CreatePasskeyRegistrationOptions, Setup!In, SetupMoves
<1>3. t \in Nat /\ clock \in Nat /\ t <= clock /\ CeremonyTTL \in Nat
  BY <1>1, <1>2, SetupRequest, SetupConstants
<1>4. PICK row : row = Row("register", t, CeremonyTTL) /\ Fresh(row, {"register"}, "register")
  BY <1>3, RowIs
<1>5. row \in RowsOf({"register"}) /\ row.state = "active"
  BY <1>4 DEF Fresh
<1>6. Supersedes({"register"}, setupCeremonies', setupCeremonies, "register", clock, row)
  BY <1>2, <1>3, <1>4, <1>5, SetupFacts, Superseding
<1>7. SetupStep
  BY <1>2, <1>6, SetupFacts DEF SetupStep, Supersedes
<1>8. SetupPaid'
  BY <1>2, <1>6 DEF SetupInv, SetupPaid, Supersedes, SpendsNone
<1>9. SetupLive'
  <2>1. \A i, j \in LiveAt(setupCeremonies', clock) : i = j
    BY <1>6, SetupFacts DEF Supersedes
  <2> QED BY <1>2, <2>1 DEF SetupInv, SetupLive, Setup!RequiredStatus
<1> QED BY <1>2, <1>7, <1>8, <1>9, SetupChangesTables

-----------------------------------------------------------------------------
(* Steps of the set-up that change the account.                            *)

\* A row that was not used is.
LEMMA Consuming ==
    ASSUME NEW R, NEW table \in Seq(R), NEW new, NEW k \in DOMAIN table,
           DOMAIN table \subseteq DOMAIN new, table[k].state # "consumed", new[k].state = "consumed",
           \A i \in DOMAIN table : new[i].purpose = table[i].purpose,
           \A i \in DOMAIN table \ {k} : new[i].state = "consumed" <=> table[i].state = "consumed",
           \A i \in DOMAIN new \ DOMAIN table : new[i].state # "consumed"
    PROVE  SpendsOne(new, table, k)
BY CountsOne DEF SpendsOne

\* A member asks for the first code.
LEMMA SetupCreatesAccount ==
    ASSUME SetupInv, NEW r \in Requests, Setup!EnsurePendingEmailAccount(r)
    PROVE  SetupDone
<1>1. /\ account.status = "none" /\ account' = [account EXCEPT !.status = "pending_email"]
      /\ UNCHANGED <<clock, setupCodes, setupGrants, setupCeremonies, setupRequests>>
  BY DEF Setup!EnsurePendingEmailAccount
<1>2. \A a \in AccountRow : LET b == [a EXCEPT !.status = "pending_email"] IN
        /\ b \in AccountRow /\ b.status = "pending_email" /\ b.verified = a.verified /\ b.handle = a.handle
        /\ b.passwords = a.passwords /\ b.passkeys = a.passkeys /\ b.actors = a.actors
  BY DEF AccountRow
<1>3. /\ account' \in AccountRow /\ account'.status = "pending_email"
      /\ account'.verified = account.verified /\ account'.handle = account.handle
      /\ account'.passwords = account.passwords /\ account'.passkeys = account.passkeys
      /\ account'.actors = account.actors
  BY <1>1, <1>2, SetupFacts
<1>4. LiveAt(setupGrants, clock) = {}
  BY <1>1, LiveGrantsAreDue
<1>5. SetupAccount' /\ SetupPaid'
  BY <1>1, <1>3 DEF SetupInv, SetupAccount, SetupPaid
<1>6. SetupLive'
  BY <1>1, <1>4 DEF SetupInv, SetupLive, Setup!RequiredStatus
<1>7. SetupRequests' /\ SetupTables'
  BY <1>1, <1>3 DEF SetupInv, SetupRequests, SetupTables
<1>8. FactorsStay
  BY <1>3 DEF FactorsStay
<1>9. LifecycleStep
  <2>1. Setup!Factors' \subseteq Setup!Lifecycle!AllFactors /\ Setup!Factors \subseteq Setup!Factors'
    BY <1>8, FactorsGrow, FactorsBecome
  <2>2. <<account.status, account'.status>> \in Setup!Lifecycle!ValidTransitions
    BY <1>1, <1>3 DEF Setup!Lifecycle!ValidTransitions
  <2> QED BY <1>1, <1>3, <2>1, <2>2 DEF LifecycleStep, Setup!Lifecycle!Next,
       Setup!Lifecycle!TransitionAccountState, Setup!Lifecycle!RequiredFactors
<1> QED BY <1>5, <1>6, <1>7, <1>9 DEF SetupInv, SetupDone

LEMMA SetupGivesHandle ==
    ASSUME SetupInv, NEW r \in Requests, Setup!EnsureWebAuthnUserHandle(r)
    PROVE  SetupDone
<1>1. /\ setupRequests[r] # Idle /\ SetupMoves(r)
      /\ account' = [account EXCEPT !.handle = TRUE]
      /\ UNCHANGED <<clock, setupCodes, setupGrants, setupCeremonies>>
  BY DEF Setup!EnsureWebAuthnUserHandle, Setup!In, SetupMoves
<1>2. \A a \in AccountRow : LET b == [a EXCEPT !.handle = TRUE] IN
        /\ b \in AccountRow /\ b.status = a.status /\ b.verified = a.verified /\ b.handle
        /\ b.passwords = a.passwords /\ b.passkeys = a.passkeys /\ b.actors = a.actors
        /\ a.handle => b = a
  <2>1. \A a \in AccountRow : LET b == [a EXCEPT !.handle = TRUE] IN
          /\ b \in AccountRow /\ b.status = a.status /\ b.verified = a.verified /\ b.handle
          /\ b.passwords = a.passwords /\ b.passkeys = a.passkeys /\ b.actors = a.actors
    BY DEF AccountRow
  <2>2. \A a \in AccountRow : a.handle => [a EXCEPT !.handle = TRUE] = a
    <3>1. \A a \in AccountRow : a.handle => a.handle = TRUE
      BY DEF AccountRow
    <3> QED BY <3>1 DEF AccountRow
  <2> QED BY <2>1, <2>2
<1>3. /\ account' \in AccountRow /\ account'.status = account.status
      /\ account'.verified = account.verified /\ account'.handle
      /\ account'.passwords = account.passwords /\ account'.passkeys = account.passkeys
      /\ account'.actors = account.actors /\ (account.handle => account' = account)
  BY <1>1, <1>2, SetupFacts
<1>4. SetupStep
  BY <1>1, SetupFacts DEF SetupStep
<1>5. SetupAccount' /\ SetupPaid'
  BY <1>1, <1>3 DEF SetupInv, SetupAccount, SetupPaid
<1>6. SetupLive'
  BY <1>1, <1>3 DEF SetupInv, SetupLive, Setup!RequiredStatus
<1>7. SetupInv'
  BY <1>1, <1>3, <1>4, <1>5, <1>6, SetupSteps
<1>8. LifecycleStep
  <2>1. CASE account.handle
    BY <1>3, <2>1, LifecycleStays
  <2>2. CASE ~account.handle
    <3>1. account.status # "active"
      BY <2>2 DEF SetupInv, SetupAccount
    <3> QED BY <1>3, <3>1, LifecycleAcquires DEF FactorsStay
  <2> QED BY <2>1, <2>2
<1> QED BY <1>7, <1>8 DEF SetupDone

\* The password of the set-up is paid for with the grant for it.
LEMMA SetupSetsPassword ==
    ASSUME SetupInv, NEW r \in Requests, Setup!CompleteInitialPasswordSetup(r)
    PROVE  SetupDone
<1>1. PICK g, t : g = setupRequests[r].id /\ t = Setup!Now(r)
  OBVIOUS
<1>2. /\ setupRequests[r] # Idle /\ SetupMoves(r) /\ account.passwords = 0
      /\ g \in DOMAIN setupGrants /\ setupGrants[g].purpose = "initial_password_setup"
      /\ setupGrants[g].state = "active" /\ account.status = "pending_password" /\ account.verified
      /\ account' = [account EXCEPT !.passwords = 1, !.status = "pending_passkey"]
      /\ setupGrants' = Append(SetState(SetState(setupGrants, {g}, "consumed"),
             ToRevoke(setupGrants, "initial_password_setup", t, g), "revoked"),
             Row("initial_passkey_registration", t, GrantTTL))
      /\ UNCHANGED <<clock, setupCodes, setupCeremonies>>
  BY <1>1, SameOperators DEF Setup!CompleteInitialPasswordSetup, Setup!In, Setup!Authorized,
       Setup!RequiredStatus, Usable, SetupMoves
<1>3. t \in Nat /\ clock \in Nat /\ t <= clock /\ GrantTTL \in Nat
  BY <1>1, <1>2, SetupRequest, SetupConstants
<1>4. PICK mid : mid = SetState(SetState(setupGrants, {g}, "consumed"),
             ToRevoke(setupGrants, "initial_password_setup", t, g), "revoked")
  OBVIOUS
<1>5. Spends(GrantPurposes, mid, setupGrants, "initial_password_setup", clock, g)
  BY <1>2, <1>3, <1>4, SetupFacts, Spending DEF Unspent
<1>6. OthersLive(setupGrants, "initial_password_setup", clock) = {}
  BY <1>2, LiveGrantsAreDue DEF OthersLive
<1>7. PICK row : row = Row("initial_passkey_registration", t, GrantTTL)
                 /\ Fresh(row, GrantPurposes, "initial_passkey_registration")
  BY <1>3, RowIs DEF GrantPurposes
<1>8. /\ row \in RowsOf(GrantPurposes) /\ row.state = "active"
      /\ row.purpose = "initial_passkey_registration"
  BY <1>7 DEF Fresh
<1>9. /\ mid \in Seq(RowsOf(GrantPurposes)) /\ DOMAIN mid = DOMAIN setupGrants
      /\ LiveAt(mid, clock) = {} /\ SpendsOne(mid, setupGrants, g)
  BY <1>5, <1>6 DEF Spends, Keeps
<1>10. setupGrants' = Append(mid, row)
  BY <1>2, <1>4, <1>7
<1>11. Inserts(GrantPurposes, setupGrants', mid, row)
  BY <1>8, <1>9, <1>10, Inserting
<1>12. /\ setupGrants' \in Seq(RowsOf(GrantPurposes))
       /\ DOMAIN setupGrants \subseteq DOMAIN setupGrants'
       /\ \A i \in LiveAt(setupGrants', clock) :
            i = Len(mid) + 1 /\ setupGrants'[i].purpose = "initial_passkey_registration"
       /\ SpendsNone(setupGrants', mid)
  BY <1>8, <1>9, <1>11 DEF Inserts, Extends
<1>13. /\ Cardinality(Spent(setupGrants', "initial_password_setup")) =
             Cardinality(Spent(setupGrants, "initial_password_setup")) + 1
       /\ Spent(setupGrants', "initial_passkey_registration") =
             Spent(setupGrants, "initial_passkey_registration")
  BY <1>2, <1>9, <1>12 DEF SpendsOne, SpendsNone
<1>14. \A a \in AccountRow : LET b == [a EXCEPT !.passwords = 1, !.status = "pending_passkey"] IN
        /\ b \in AccountRow /\ b.status = "pending_passkey" /\ b.verified = a.verified /\ b.handle = a.handle
        /\ b.passwords = 1 /\ b.passkeys = a.passkeys /\ b.actors = a.actors
  BY DEF AccountRow
<1>15. /\ account' \in AccountRow /\ account'.status = "pending_passkey"
       /\ account'.verified = account.verified /\ account'.handle = account.handle
       /\ account'.passwords = 1 /\ account'.passkeys = account.passkeys
       /\ account'.actors = account.actors
  BY <1>2, <1>14, SetupFacts
<1>16. SetupStep
  BY <1>2, <1>12, SetupFacts DEF SetupStep
<1>17. SetupAccount'
  BY <1>2, <1>15 DEF SetupInv, SetupAccount
<1>18. SetupPaid'
  BY <1>2, <1>13, <1>15 DEF SetupInv, SetupPaid
<1>19. SetupLive'
  <2>1. \A i, j \in LiveAt(setupCeremonies', clock') : i = j
    BY <1>2, SetupFacts
  <2> QED BY <1>2, <1>12, <1>15, <2>1 DEF SetupLive, Setup!RequiredStatus
<1>20. SetupInv'
  BY <1>2, <1>15, <1>16, <1>17, <1>18, <1>19, SetupSteps
<1>21. LifecycleStep
  <2>1. Setup!Factors' \subseteq Setup!Lifecycle!AllFactors /\ Setup!Factors \subseteq Setup!Factors'
    BY <1>2, <1>15, FactorsGrow, FactorsBecome DEF FactorsStay
  <2>2. <<account.status, account'.status>> \in Setup!Lifecycle!ValidTransitions
    BY <1>2, <1>15 DEF Setup!Lifecycle!ValidTransitions
  <2>3. "password" \in Setup!Factors' /\ "password" \notin Setup!Factors /\ "email" \in Setup!Factors'
    BY <1>2, <1>15, FactorsAre, FactorsBecome
  <2> QED BY <1>2, <1>15, <2>1, <2>2, <2>3 DEF LifecycleStep, Setup!Lifecycle!Next,
       Setup!Lifecycle!TransitionAccountState, Setup!Lifecycle!RequiredFactors
<1> QED BY <1>20, <1>21 DEF SetupDone

\* The account is activated with its counts of passkeys and actors.
Activates(b, a, m, n) ==
    /\ b \in AccountRow /\ b.status = "active" /\ b.verified = a.verified /\ b.handle = a.handle
    /\ b.passwords = a.passwords /\ b.passkeys = m /\ b.actors = n

LEMMA ActiveRow ==
    ASSUME NEW a \in AccountRow, NEW m \in Nat, NEW n \in Nat
    PROVE  Activates([a EXCEPT !.passkeys = m, !.actors = n, !.status = "active"], a, m, n)
BY DEF AccountRow, Activates

\* The passkey of the set-up is paid for with the grant for it and its ceremony.
LEMMA SetupRegistersPasskey ==
    ASSUME SetupInv, NEW r \in Requests, Setup!VerifyPasskeyRegistration(r)
    PROVE  SetupDone
<1>1. PICK g, k, t : g = setupRequests[r].id /\ k = setupRequests[r].ceremony /\ t = Setup!Now(r)
  OBVIOUS
<1>2. /\ setupRequests[r] # Idle /\ setupRequests[r].op = "verify" /\ SetupMoves(r)
      /\ g \in DOMAIN setupGrants /\ setupGrants[g].purpose = "initial_passkey_registration"
      /\ setupGrants[g].state = "active" /\ account.status = "pending_passkey" /\ account.verified
      /\ account.handle /\ account.passwords >= 1
      /\ setupCeremonies[k].state = "active"
      /\ account' = [account EXCEPT !.passkeys = @ + 1, !.actors = @ + 1, !.status = "active"]
      /\ setupGrants' = SetState(setupGrants, {g}, "consumed")
      /\ setupCeremonies' = SetState(SetState(setupCeremonies, {k}, "consumed"),
             ToRevoke(setupCeremonies, "register", t, k), "revoked")
      /\ UNCHANGED <<clock, setupCodes>>
  BY <1>1, SameOperators DEF Setup!VerifyPasskeyRegistration, Setup!In, Setup!Authorized,
       Setup!RequiredStatus, Usable, SetupMoves
<1>3. /\ t \in Nat /\ clock \in Nat /\ t <= clock /\ k \in DOMAIN setupCeremonies
      /\ k \in Unspent(setupCeremonies) /\ setupCeremonies[k].purpose \in {"register"}
  BY <1>1, <1>2, SetupRequest, SetupFacts, RowFields DEF SetupAsks, Unspent
<1>4. Spends({"register"}, setupCeremonies', setupCeremonies, "register", clock, k)
  BY <1>2, <1>3, SetupFacts, Spending
<1>5. /\ setupGrants' \in Seq(RowsOf(GrantPurposes)) /\ DOMAIN setupGrants' = DOMAIN setupGrants
      /\ \A i \in DOMAIN setupGrants :
            /\ setupGrants'[i].purpose = setupGrants[i].purpose
            /\ setupGrants'[i].expires = setupGrants[i].expires
            /\ setupGrants'[i].state = IF i \in {g} THEN "consumed" ELSE setupGrants[i].state
  BY <1>2, SetupFacts, Turned DEF States
<1>6. LiveAt(setupGrants', clock) \subseteq LiveAt(setupGrants, clock)
  BY <1>5 DEF LiveAt, Usable
<1>7. SpendsOne(setupGrants', setupGrants, g)
  <2>1. /\ setupGrants[g].state # "consumed" /\ setupGrants'[g].state = "consumed"
        /\ \A i \in DOMAIN setupGrants \ {g} :
             setupGrants'[i].state = "consumed" <=> setupGrants[i].state = "consumed"
        /\ \A i \in DOMAIN setupGrants' \ DOMAIN setupGrants : setupGrants'[i].state # "consumed"
        /\ \A i \in DOMAIN setupGrants : setupGrants'[i].purpose = setupGrants[i].purpose
        /\ DOMAIN setupGrants \subseteq DOMAIN setupGrants' /\ g \in DOMAIN setupGrants
    BY <1>2, <1>5
  <2> QED BY <2>1, SetupFacts, Consuming
<1>8. /\ Cardinality(Spent(setupGrants', "initial_passkey_registration")) =
             Cardinality(Spent(setupGrants, "initial_passkey_registration")) + 1
      /\ Spent(setupGrants', "initial_password_setup") = Spent(setupGrants, "initial_password_setup")
      /\ Cardinality(Spent(setupCeremonies', "register")) =
             Cardinality(Spent(setupCeremonies, "register")) + 1
  BY <1>2, <1>3, <1>4, <1>7 DEF Spends, SpendsOne
<1>10. /\ account' \in AccountRow /\ account'.status = "active"
       /\ account'.verified = account.verified /\ account'.handle = account.handle
       /\ account'.passwords = account.passwords /\ account'.passkeys = account.passkeys + 1
       /\ account'.actors = account.actors + 1
  <2>1. PICK m \in Nat, n \in Nat : m = account.passkeys + 1 /\ n = account.actors + 1
    BY SetupFacts, AccountFields
  <2>2. Activates([account EXCEPT !.passkeys = m, !.actors = n, !.status = "active"], account, m, n)
    BY SetupFacts, ActiveRow
  <2>3. account' = [account EXCEPT !.passkeys = m, !.actors = n, !.status = "active"]
    BY <1>2, <2>1
  <2>4. Activates(account', account, m, n)
    BY <2>2, <2>3
  <2> QED BY <2>1, <2>4 DEF Activates
<1>11. /\ account.passkeys = 0 /\ account.actors = 0 /\ account.passwords \in Nat
  BY <1>2, AccountFields, SetupFacts DEF SetupInv, SetupAccount
<1>12. SetupStep
  BY <1>2, <1>4, <1>5, SetupFacts DEF SetupStep, Spends, Keeps
<1>13. SetupAccount'
  BY <1>2, <1>10, <1>11 DEF SetupAccount
<1>14. SetupPaid'
  BY <1>2, <1>8, <1>10, <1>11 DEF SetupInv, SetupPaid
<1>15. SetupLive'
  <2>1. \A i, j \in LiveAt(setupCeremonies', clock') : i = j
    BY <1>2, <1>4, SetupFacts DEF Spends
  <2>2. \A i, j \in LiveAt(setupGrants', clock') : i = j
    BY <1>2, <1>6, SetupFacts
  <2> QED BY <1>10, <2>1, <2>2 DEF SetupLive
<1>16. SetupInv'
  BY <1>2, <1>10, <1>12, <1>13, <1>14, <1>15, SetupSteps
<1>17. LifecycleStep
  <2>1. Setup!Factors' \subseteq Setup!Lifecycle!AllFactors /\ Setup!Factors \subseteq Setup!Factors'
    BY <1>2, <1>10, <1>11, FactorsGrow, FactorsBecome DEF FactorsStay
  <2>2. <<account.status, account'.status>> \in Setup!Lifecycle!ValidTransitions
    BY <1>2, <1>10 DEF Setup!Lifecycle!ValidTransitions
  <2>3. Setup!Lifecycle!AllFactors \subseteq Setup!Factors'
    BY <1>2, <1>10, <1>11, FactorsBecome DEF Setup!Lifecycle!AllFactors
  <2> QED BY <1>2, <1>10, <2>1, <2>2, <2>3 DEF LifecycleStep, Setup!Lifecycle!Next,
       Setup!Lifecycle!TransitionAccountState, Setup!Lifecycle!RequiredFactors
<1> QED BY <1>16, <1>17 DEF SetupDone

\* The account's e-mail is verified.
VerifiedAs(b, a, s) ==
    /\ b \in AccountRow /\ b.status = s /\ b.verified = TRUE /\ b.handle = a.handle
    /\ b.passwords = a.passwords /\ b.passkeys = a.passkeys /\ b.actors = a.actors

LEMMA VerifiedRow ==
    ASSUME NEW a \in AccountRow,
           NEW s \in {"none", "pending_email", "pending_password", "pending_passkey", "active"}
    PROVE  VerifiedAs([a EXCEPT !.verified = TRUE, !.status = s], a, s)
BY DEF AccountRow, VerifiedAs

\* A verified code buys the grant for the step that is due, in the place of all others.
LEMMA SetupBuysGrant ==
    ASSUME SetupInv, NEW r \in Requests, Setup!CompleteEmailVerification(r)
    PROVE  SetupDone
<1>1. PICK c, t, old : /\ c = setupRequests[r].id /\ t = Setup!Now(r)
                       /\ old = Setup!SupersededGrants(t)
  OBVIOUS
<1>2. PICK due, back : due = Setup!SetupPurpose /\ back = Setup!MissingRequiredPassword
  OBVIOUS
<1>3. /\ setupRequests[r] # Idle /\ setupRequests[r].op = "complete" /\ SetupMoves(r)
      /\ setupCodes[c].state = "active"
      /\ account.status \in {"pending_email", "pending_password", "pending_passkey"}
      /\ setupCodes' = SetState(SetState(setupCodes, {c}, "consumed"),
             ToRevoke(setupCodes, "verify_email", t, c), "revoked")
      /\ setupGrants' = Append(SetState(setupGrants, old, "revoked"), Row(due, t, GrantTTL))
      /\ UNCHANGED <<clock, setupCeremonies>>
  BY <1>1, <1>2, SameOperators DEF Setup!CompleteEmailVerification, Setup!ChallengeAccepted, Setup!In,
       Setup!Pending, Usable, SetupMoves
<1>4. /\ c \in DOMAIN setupCodes /\ t \in Nat /\ clock \in Nat /\ t <= clock /\ GrantTTL \in Nat
      /\ c \in Unspent(setupCodes)
  BY <1>1, <1>3, SetupRequest, SetupConstants DEF SetupAsks, Unspent
<1>5. Spends({"verify_email"}, setupCodes', setupCodes, "verify_email", clock, c)
  BY <1>3, <1>4, SetupFacts, Spending
<1>6. /\ account'.status = IF account.status = "pending_email"
                              \/ (account.status = "pending_passkey" /\ account.passwords = 0)
                           THEN "pending_password" ELSE account.status
      /\ account' \in AccountRow /\ account'.verified = TRUE /\ account'.handle = account.handle
      /\ account'.passwords = account.passwords /\ account'.passkeys = account.passkeys
      /\ account'.actors = account.actors
  <2>1. PICK s : s = IF account.status = "pending_email"
                        \/ (account.status = "pending_passkey" /\ account.passwords = 0)
                     THEN "pending_password" ELSE account.status
    OBVIOUS
  <2>2. account' = [account EXCEPT !.verified = TRUE, !.status = s]
    BY <2>1 DEF Setup!CompleteEmailVerification, Setup!MissingRequiredPassword
  <2>3. s \in {"none", "pending_email", "pending_password", "pending_passkey", "active"}
    BY <1>3, <2>1
  <2>4. VerifiedAs([account EXCEPT !.verified = TRUE, !.status = s], account, s)
    BY <2>3, SetupFacts, VerifiedRow
  <2>5. VerifiedAs(account', account, s)
    BY <2>2, <2>4
  <2> QED BY <2>1, <2>5 DEF VerifiedAs
<1>7. /\ due \in GrantPurposes
      /\ \/ account'.status = "pending_password" /\ due = "initial_password_setup"
         \/ account'.status = "pending_passkey" /\ due = "initial_passkey_registration"
  BY <1>2, <1>3, <1>6 DEF Setup!SetupPurpose, Setup!MissingRequiredPassword, GrantPurposes
<1>8. old \subseteq Unspent(setupGrants)
  BY <1>1, RevokedWereActive, SameOperators DEF Setup!SupersededGrants
<1>9. LiveAt(setupGrants, clock) \subseteq old
  <2>1. ASSUME NEW g \in LiveAt(setupGrants, clock)
        PROVE  g \in old
    <3>1. g # 0
      BY SetupFacts DEF LiveAt
    <3>2. \A p : setupGrants[g].purpose = p => g \in ToRevoke(setupGrants, p, t, 0)
      BY <1>4, <3>1, SetupFacts, LateRevocation
    <3>3. \/ setupGrants[g].purpose = due
          \/ back /\ setupGrants[g].purpose = "initial_passkey_registration"
      BY <1>2, <1>3, LiveGrantsAreDue DEF Setup!SetupPurpose, Setup!MissingRequiredPassword
    <3> QED BY <1>1, <1>2, <3>2, <3>3, SameOperators DEF Setup!SupersededGrants
  <2> QED BY <2>1
<1>10. PICK mid : mid = SetState(setupGrants, old, "revoked")
  OBVIOUS
<1>11. Revokes(GrantPurposes, mid, setupGrants, old)
  BY <1>8, <1>10, SetupFacts, Revoking
<1>12. /\ mid \in Seq(RowsOf(GrantPurposes)) /\ DOMAIN mid = DOMAIN setupGrants
       /\ LiveAt(mid, clock) = {} /\ SpendsNone(mid, setupGrants)
  BY <1>4, <1>9, <1>11 DEF Revokes, Keeps, Loses
<1>13. PICK row : row = Row(due, t, GrantTTL) /\ Fresh(row, GrantPurposes, due)
  BY <1>4, <1>7, RowIs
<1>14. row \in RowsOf(GrantPurposes) /\ row.state = "active" /\ row.purpose = due
  BY <1>13 DEF Fresh
<1>15. setupGrants' = Append(mid, row)
  BY <1>3, <1>10, <1>13
<1>16. Inserts(GrantPurposes, setupGrants', mid, row)
  BY <1>12, <1>14, <1>15, Inserting
<1>17. /\ setupGrants' \in Seq(RowsOf(GrantPurposes))
       /\ DOMAIN setupGrants \subseteq DOMAIN setupGrants'
       /\ \A i \in LiveAt(setupGrants', clock) : i = Len(mid) + 1 /\ setupGrants'[i].purpose = due
  BY <1>12, <1>14, <1>16 DEF Inserts, Extends
<1>18. \A p : Spent(setupGrants', p) = Spent(setupGrants, p)
  BY <1>12, <1>16 DEF Inserts, SpendsNone
<1>19. SetupStep
  BY <1>3, <1>5, <1>17, SetupFacts DEF SetupStep, Spends, Keeps
<1>20. SetupAccount'
  BY <1>3, <1>6, <1>7 DEF SetupInv, SetupAccount
<1>21. SetupPaid'
  BY <1>3, <1>6, <1>18 DEF SetupInv, SetupPaid
<1>22. SetupLive'
  <2>1. \A i, j \in LiveAt(setupCeremonies', clock') : i = j
    BY <1>3, SetupFacts
  <2> QED BY <1>3, <1>7, <1>17, <2>1 DEF SetupLive, Setup!RequiredStatus
<1>23. SetupInv'
  BY <1>3, <1>6, <1>19, <1>20, <1>21, <1>22, SetupSteps
<1>24. LifecycleStep
  <2>1. FactorsStay
    BY <1>6 DEF FactorsStay
  <2>2. Setup!Factors' \subseteq Setup!Lifecycle!AllFactors /\ Setup!Factors \subseteq Setup!Factors'
    BY <2>1, FactorsGrow, FactorsBecome
  <2>3. CASE account'.status = account.status
    BY <1>3, <2>1, <2>3, LifecycleAcquires
  <2>4. CASE account'.status # account.status
    <3>1. /\ account'.status = "pending_password"
          /\ \/ account.status = "pending_email"
             \/ account.status = "pending_passkey" /\ account.passwords = 0
      BY <1>6, <2>4
    <3>2. <<account.status, account'.status>> \in Setup!Lifecycle!ValidTransitions
      BY <3>1 DEF Setup!Lifecycle!ValidTransitions
    <3>3. "email" \in Setup!Factors'
      BY <1>6, FactorsBecome
    <3>4. <<account.status, account'.status>> = <<"pending_passkey", "pending_password">>
            => "password" \notin Setup!Factors'
      BY <1>6, <3>1, FactorsBecome
    <3> QED BY <2>2, <3>1, <3>2, <3>3, <3>4 DEF LifecycleStep, Setup!Lifecycle!Next,
         Setup!Lifecycle!TransitionAccountState, Setup!Lifecycle!RequiredFactors
  <2> QED BY <2>3, <2>4
<1> QED BY <1>23, <1>24 DEF SetupDone

\* Every step of the set-up is paid for and is one of AccountLifecycle.
LEMMA SetupKept ==
    ASSUME SetupInv, [Setup!Next]_Setup!vars
    PROVE  SetupInv' /\ LifecycleStep
<1>1. CASE Setup!Tick \/ (\E r \in Requests : Setup!Refuse(r)) \/ UNCHANGED Setup!vars
  BY <1>1, SetupWaits DEF SetupDone
<1>2. ASSUME NEW r \in Requests,
             \/ Setup!RequestEmailVerification(r) \/ Setup!Complete(r)
             \/ Setup!ResolveAuthorizedPasswordSetup(r) \/ Setup!ResolveAuthorizedSetup(r)
      PROVE  SetupInv' /\ LifecycleStep
  BY <1>2, SetupBegins DEF SetupDone
<1>3. ASSUME NEW r \in Requests,
             \/ Setup!EnsurePendingEmailAccount(r) \/ Setup!FindLatestChallenge(r)
             \/ Setup!RevokeActiveEmailChallenges(r) \/ Setup!CreateEmailChallenge(r)
             \/ Setup!WrongCode(r) \/ Setup!CompleteEmailVerification(r)
             \/ Setup!RevokeThrottledGrant(r) \/ Setup!CompleteInitialPasswordSetup(r)
             \/ Setup!EnsureWebAuthnUserHandle(r) \/ Setup!CreatePasskeyRegistrationOptions(r)
             \/ Setup!VerifyPasskeyRegistration(r)
      PROVE  SetupInv' /\ LifecycleStep
  BY <1>3, SetupCreatesAccount, SetupFindsLatest, SetupRevokesCodes, SetupInsertsCode,
     SetupCountsTries, SetupBuysGrant, SetupRevokesGrant, SetupSetsPassword, SetupGivesHandle,
     SetupOffersCeremony, SetupRegistersPasskey DEF SetupDone
<1> QED BY <1>1, <1>2, <1>3 DEF Setup!Next

-----------------------------------------------------------------------------
(* Rate limits.                                                            *)

\* A sequence of buckets in which none is twice, and no quarter after its day.
InOrder(todo) ==
    \A i, j \in DOMAIN todo : i < j =>
        todo[i] # todo[j] /\ ~ (todo[j].window = 1 /\ todo[i].scope = todo[j].scope)

QuarterScopes == {"request_email", "request_ip", "passkey_ip", "passkey_client", "passkey_inventory",
    "reauthentication_options", "reauthentication_verify", "registration_options",
    "registration_verify", "membership_inventory", "local_eligibility", "community_commitment"}
ReservedScopes == {"sign_in_ip", "password_change"}

\* What the proofs use of a limiter.
WellFormed(l) ==
    /\ l.reserved = <<>> \/ l.reserved = <<Limits!HalfHour("sign_in_ip")>>
         \/ l.reserved = <<Limits!HalfHour("password_change")>>
    /\ l.counted \in Seq(Limits!ToSet(l.counted)) /\ InOrder(l.counted)
    /\ l.first \in BOOLEAN
    /\ l.first => l.reserved = <<>> /\ l.counted # <<>> /\ {"success", "failure"} \subseteq l.charges
    /\ l.counted = <<>> => l.charges = {}
    /\ \A b \in Limits!ToSet(l.counted) :
         /\ b.window \in {1, 2, DayLength} /\ b.scope \notin ReservedScopes
         /\ b.window = 1 => b.scope \in QuarterScopes
         /\ b.window = DayLength /\ b.scope \in QuarterScopes =>
              Limits!Quarter(b.scope) \in Limits!ToSet(l.counted)

\* The library's operators, as the instance has them.
LEMMA LimitSets ==
    ASSUME NEW S
    PROVE  (Limits!IsFiniteSet(S) <=> IsFiniteSet(S)) /\ Limits!Cardinality(S) = Cardinality(S)
BY DEF Limits!IsFiniteSet, IsFiniteSet, Limits!Cardinality, Cardinality

LEMMA LimitConstants ==
    /\ IsFiniteSet(Requests) /\ DayLength \in Nat /\ DayLength > 1
    /\ ShortLimit \in Nat /\ DayLimit \in Nat /\ ShortLimit > 0 /\ DayLimit > 0
    /\ MaxQuarter \in Nat /\ MaxBegun \in Nat
BY MemberAssumption, LimitSets DEF Limits!RateConstants

LEMMA LimitersAreWellFormed ==
    ASSUME NEW l \in Offered
    PROVE  WellFormed(l)
<1> USE LimitConstants DEF WellFormed, InOrder, QuarterScopes, ReservedScopes, Limits!Limiter,
      Limits!Quarter, Limits!HalfHour, Limits!Day, Limits!Bucket, Limits!ToSet
<1>1. WellFormed(Limits!EmailVerificationRequest)
  BY DEF Limits!EmailVerificationRequest, Limits!ChargedFirst
<1>2. WellFormed(Limits!EmailVerificationAttempt)
  BY DEF Limits!EmailVerificationAttempt, Limits!ChargedInTransaction
<1>3. WellFormed(Limits!RecoveryRequest)
  BY DEF Limits!RecoveryRequest, Limits!ChargedFirst
<1>4. WellFormed(Limits!RecoveryEmailAttempt)
  BY DEF Limits!RecoveryEmailAttempt, Limits!ChargedInTransaction
<1>5. WellFormed(Limits!RecoveryOptionsGrant)
  BY DEF Limits!RecoveryOptionsGrant, Limits!ChargedAfter
<1>6. WellFormed(Limits!RecoveryVerificationGrant)
  BY DEF Limits!RecoveryVerificationGrant, Limits!ChargedOnFailure
<1>7. WellFormed(Limits!SetupOptionsGrant)
  BY DEF Limits!SetupOptionsGrant, Limits!ChargedAfter
<1>8. WellFormed(Limits!SetupVerificationGrant)
  BY DEF Limits!SetupVerificationGrant, Limits!ChargedOnFailure
<1>9. WellFormed(Limits!PasswordSetupGrant)
  BY DEF Limits!PasswordSetupGrant, Limits!ChargedOnFailure
<1>10. WellFormed(Limits!PasskeyOptions)
  BY DEF Limits!PasskeyOptions, Limits!ChargedAfter
<1>11. WellFormed(Limits!PasskeyAssertion)
  BY DEF Limits!PasskeyAssertion, Limits!ChargedOnFailure
<1>12. WellFormed(Limits!PasskeyInventory)
  BY DEF Limits!PasskeyInventory, Limits!ChargedAfter
<1>13. WellFormed(Limits!ManageReauthOptions)
  BY DEF Limits!ManageReauthOptions, Limits!ChargedAfter
<1>14. WellFormed(Limits!ManageReauthVerify)
  BY DEF Limits!ManageReauthVerify, Limits!ChargedOnFailure
<1>15. WellFormed(Limits!ManageRegisterOptions)
  BY DEF Limits!ManageRegisterOptions, Limits!ChargedAfter
<1>16. WellFormed(Limits!ManageRegisterVerify)
  BY DEF Limits!ManageRegisterVerify, Limits!ChargedOnFailure
<1>17. WellFormed(Limits!PasskeyRename)
  BY DEF Limits!PasskeyRename, Limits!ChargedFirst
<1>18. WellFormed(Limits!PasskeyRevoke)
  BY DEF Limits!PasskeyRevoke, Limits!ChargedFirst
<1>19. WellFormed(Limits!PasswordSignIn)
  BY DEF Limits!PasswordSignIn
<1>20. WellFormed(Limits!PasswordChange)
  BY DEF Limits!PasswordChange
<1>21. WellFormed(Limits!MembershipInventory)
  BY DEF Limits!MembershipInventory, Limits!ChargedFirst
<1>22. WellFormed(Limits!LocalEligibilityBind)
  BY DEF Limits!LocalEligibilityBind, Limits!ChargedFirst
<1>23. WellFormed(Limits!CommunityCommitmentWrite)
  BY DEF Limits!CommunityCommitmentWrite, Limits!ChargedFirst
<1>24. WellFormed(Limits!BillingCheckout)
  BY DEF Limits!BillingCheckout, Limits!ChargedFirst
<1>25. WellFormed(Limits!BillingPortal)
  BY DEF Limits!BillingPortal, Limits!ChargedFirst
<1>26. WellFormed(Limits!GooglePlayPurchase)
  BY DEF Limits!GooglePlayPurchase, Limits!ChargedFirst
<1> HIDE DEF WellFormed
<1> QED BY <1>1, <1>2, <1>3, <1>4, <1>5, <1>6, <1>7, <1>8, <1>9, <1>10, <1>11, <1>12, <1>13, <1>14, <1>15, <1>16, <1>17, <1>18, <1>19, <1>20, <1>21, <1>22, <1>23, <1>24, <1>25, <1>26,
  MemberAssumption DEF Limits!OfferedAreLimiters, Limits!Limiters

-----------------------------------------------------------------------------
(* Requests.                                                               *)

Queries ==
    [at : {"reserve", "check", "charge", "work"}, limiter : Offered, time : 0..MaxQuarter,
     todo : Seq(Limits!Buckets), throttled : BOOLEAN, worked : BOOLEAN]

\* Where a request is tells what it has done and what is left to do.
Sensible(q) ==
    /\ InOrder(q.todo) /\ Limits!ToSet(q.todo) \subseteq Limits!ToSet(q.limiter.counted)
    /\ q.at = "reserve" => q.limiter.reserved # <<>> /\ q.todo = q.limiter.counted
    /\ q.at \in {"reserve", "check", "work"} => ~ q.throttled /\ ~ q.worked
    /\ q.at = "charge" => q.todo # <<>> /\ (q.throttled \/ (q.worked <=> ~ q.limiter.first))
    /\ ~ (q.throttled /\ q.worked)

\* Rows count and are counted in windows that have begun.
LimitsTyped ==
    /\ quarter \in 0..MaxQuarter /\ begun \in 0..MaxBegun
    /\ counters \in [Limits!Buckets -> [0..MaxQuarter -> Nat]]
    /\ spent \in [Limits!Buckets -> [0..MaxQuarter -> Nat]]
    /\ lost \in [Limits!Buckets -> [0..MaxQuarter -> Nat]]
    /\ \A b \in Limits!Buckets, t \in 0..MaxQuarter :
         counters[b][t] > 0 => t % b.window = 0 /\ t <= quarter
    /\ limitRequests \in [Requests -> Queries \cup {Limits!AtRest}]
    /\ \A r \in Requests : limitRequests[r] # Limits!AtRest =>
         Sensible(limitRequests[r]) /\ limitRequests[r].time <= quarter

WindowOf(q, b) == Limits!FloorWindowStart(q.time, b)

LEMMA Floors ==
    ASSUME NEW time \in Nat, NEW w \in Nat, w > 0
    PROVE  LET t == (time \div w) * w IN
           t \in Nat /\ t <= time /\ time < t + w /\ t % w = 0
OBVIOUS

LEMMA ToSetOf ==
    ASSUME NEW S, NEW s \in Seq(S), NEW t \in Seq(S)
    PROVE  /\ Limits!ToSet(s \o t) = Limits!ToSet(s) \cup Limits!ToSet(t)
           /\ Limits!ToSet(s) \subseteq S
           /\ Limits!ToSet(<<>>) = {}
           /\ s = <<>> <=> Limits!ToSet(s) = {}
<1>1. \A i \in 1..Len(s) : (s \o t)[i] = s[i]
  OBVIOUS
<1>2. \A i \in 1..Len(t) : (s \o t)[i + Len(s)] = t[i] /\ i + Len(s) \in DOMAIN (s \o t)
  OBVIOUS
<1>3. \A i \in DOMAIN (s \o t) : \/ i \in 1..Len(s)
                                 \/ i - Len(s) \in 1..Len(t) /\ (i - Len(s)) + Len(s) = i
  OBVIOUS
<1>4. 1..Len(s) \subseteq DOMAIN (s \o t) /\ DOMAIN s = 1..Len(s) /\ DOMAIN t = 1..Len(t)
  OBVIOUS
<1>5. Limits!ToSet(s \o t) \subseteq Limits!ToSet(s) \cup Limits!ToSet(t)
  BY <1>1, <1>2, <1>3, <1>4 DEF Limits!ToSet
<1>6. Limits!ToSet(s) \subseteq Limits!ToSet(s \o t)
  BY <1>1, <1>4 DEF Limits!ToSet
<1>7. Limits!ToSet(t) \subseteq Limits!ToSet(s \o t)
  BY <1>2, <1>4 DEF Limits!ToSet
<1>8. Limits!ToSet(s) \subseteq S /\ Limits!ToSet(<<>>) = {}
  BY <1>4 DEF Limits!ToSet
<1>9. s # <<>> => s[1] \in Limits!ToSet(s)
  BY <1>4, EmptySeq DEF Limits!ToSet
<1> QED BY <1>5, <1>6, <1>7, <1>8, <1>9

\* What is left when the first bucket of a sequence is done.
LEMMA TailOf ==
    ASSUME NEW S, NEW todo \in Seq(S), todo # <<>>, InOrder(todo)
    PROVE  /\ Tail(todo) \in Seq(S) /\ InOrder(Tail(todo)) /\ Head(todo) \in Limits!ToSet(todo)
           /\ Limits!ToSet(Tail(todo)) = Limits!ToSet(todo) \ {Head(todo)}
           /\ Len(todo) > 1 => Tail(todo) # <<>> /\ Len(todo) # 1
           /\ ~ (Len(todo) > 1) => Len(todo) = 1 /\ \A b \in Limits!ToSet(todo) : b = Head(todo)
           /\ \A b \in Limits!ToSet(todo) :
                b.window = 1 /\ b.scope = Head(todo).scope => b = Head(todo)
<1>1. /\ Len(todo) \in Nat /\ Len(todo) >= 1 /\ DOMAIN todo = 1..Len(todo) /\ Head(todo) = todo[1]
      /\ Tail(todo) \in Seq(S) /\ Len(Tail(todo)) = Len(todo) - 1
      /\ DOMAIN Tail(todo) = 1..(Len(todo) - 1)
      /\ \A i \in 1..(Len(todo) - 1) : Tail(todo)[i] = todo[i + 1]
  OBVIOUS
<1>2. InOrder(Tail(todo))
  BY <1>1 DEF InOrder
<1>3. \A i \in 1..Len(todo) : i = 1 \/ (i - 1 \in 1..(Len(todo) - 1) /\ todo[i] = Tail(todo)[i - 1])
  BY <1>1
<1>4. \A i \in 1..(Len(todo) - 1) : todo[i + 1] # todo[1]
  BY <1>1 DEF InOrder
<1>5. Limits!ToSet(Tail(todo)) \subseteq Limits!ToSet(todo) \ {Head(todo)}
  BY <1>1, <1>4 DEF Limits!ToSet
<1>6. Limits!ToSet(todo) \ {Head(todo)} \subseteq Limits!ToSet(Tail(todo))
  <2>1. SUFFICES ASSUME NEW i \in 1..Len(todo), todo[i] # todo[1]
                 PROVE  todo[i] \in Limits!ToSet(Tail(todo))
    BY <1>1 DEF Limits!ToSet
  <2>2. i - 1 \in DOMAIN Tail(todo) /\ todo[i] = Tail(todo)[i - 1]
    BY <1>1, <1>3, <2>1
  <2> QED BY <2>2 DEF Limits!ToSet
<1>7. \A b \in Limits!ToSet(todo) : b.window = 1 /\ b.scope = Head(todo).scope => b = Head(todo)
  BY <1>1 DEF Limits!ToSet, InOrder
<1>8. Head(todo) \in Limits!ToSet(todo)
  BY <1>1 DEF Limits!ToSet
<1>9. Len(todo) > 1 => Tail(todo) # <<>> /\ Len(todo) # 1
  BY <1>1, EmptySeq
<1>10. ~ (Len(todo) > 1) => Len(todo) = 1 /\ \A b \in Limits!ToSet(todo) : b = Head(todo)
  <2>1. ~ (Len(todo) > 1) => Len(todo) = 1
    BY <1>1
  <2>2. Len(todo) = 1 => \A i \in DOMAIN todo : i = 1
    BY <1>1
  <2> QED BY <1>1, <2>1, <2>2 DEF Limits!ToSet
<1> QED BY <1>1, <1>2, <1>5, <1>6, <1>7, <1>8, <1>9, <1>10

\* The buckets of limiters.
LEMMA BucketsAre ==
    /\ \A b \in Limits!Buckets : b.window \in Nat /\ b.window > 0
    /\ \A b \in Limits!Buckets : b.window = 1 => b.scope \in QuarterScopes
    /\ \A b \in Limits!Buckets : Limits!LimitOf(b) \in Nat /\ Limits!LimitOf(b) > 0
    /\ \A l \in Offered : Limits!ToSet(l.counted) \subseteq Limits!Buckets \ Limits!Reserved
    /\ \A l \in Offered : l.reserved \in Seq(Limits!Reserved) /\ l.counted \in Seq(Limits!Buckets)
    /\ Limits!Reserved \subseteq Limits!Buckets
    /\ \A b \in Limits!Reserved : b.scope \in ReservedScopes
<1>1. \A l \in Offered : WellFormed(l)
  BY LimitersAreWellFormed
<1> DEFINE R == {Limits!HalfHour("sign_in_ip"), Limits!HalfHour("password_change")}
<1>2. \A l \in Offered : /\ l.reserved \in Seq(Limits!ToSet(l.reserved))
                         /\ Limits!ToSet(l.reserved) \subseteq R
  <2>1. \A b : Limits!ToSet(<<b>>) = {b} /\ <<b>> \in Seq({b})
    BY DEF Limits!ToSet
  <2>2. Limits!ToSet(<<>>) = {} /\ <<>> \in Seq({})
    BY DEF Limits!ToSet
  <2>3. \A l \in Offered : \/ l.reserved = <<>>
                           \/ \E b \in R : l.reserved = <<b>>
    BY <1>1 DEF WellFormed
  <2> QED BY <2>1, <2>2, <2>3
<1>3. \A l \in Offered : /\ l.counted \in Seq(Limits!ToSet(l.counted))
                         /\ \A b \in Limits!ToSet(l.counted) :
                              /\ b.window \in {1, 2, DayLength} /\ b.scope \notin ReservedScopes
                              /\ b.window = 1 => b.scope \in QuarterScopes
  BY <1>1 DEF WellFormed
<1>4. \A b \in R : b.window = 2 /\ b.scope \in ReservedScopes
  BY DEF Limits!HalfHour, Limits!Bucket, ReservedScopes
<1> HIDE DEF R
<1>5. ASSUME NEW l \in Offered
      PROVE  Limits!ToSet(l.reserved \o l.counted) = Limits!ToSet(l.reserved) \cup Limits!ToSet(l.counted)
  <2>1. /\ l.reserved \in Seq(Limits!ToSet(l.reserved) \cup Limits!ToSet(l.counted))
        /\ l.counted \in Seq(Limits!ToSet(l.reserved) \cup Limits!ToSet(l.counted))
    BY <1>2, <1>3
  <2> QED BY <2>1, ToSetOf
<1>6. \A b : b \in Limits!Buckets <=> \E l \in Offered : \/ b \in Limits!ToSet(l.reserved)
                                                         \/ b \in Limits!ToSet(l.counted)
  BY <1>5 DEF Limits!Buckets
<1>7. \A b : b \in Limits!Reserved <=> \E l \in Offered : b \in Limits!ToSet(l.reserved)
  BY DEF Limits!Reserved
<1>8. \A b \in Limits!Reserved : b \in R
  BY <1>2, <1>7
<1>9. \A b \in Limits!Buckets : /\ b.window \in {1, 2, DayLength}
                                /\ b.window = 1 => b.scope \in QuarterScopes
  BY <1>2, <1>3, <1>4, <1>6
<1>10. \A l \in Offered : Limits!ToSet(l.counted) \subseteq Limits!Buckets \ Limits!Reserved
  BY <1>3, <1>4, <1>6, <1>8
<1>11. \A l \in Offered : l.reserved \in Seq(Limits!Reserved) /\ l.counted \in Seq(Limits!Buckets)
  <2> TAKE l \in Offered
  <2>1. Limits!ToSet(l.reserved) \subseteq Limits!Reserved /\ Limits!ToSet(l.counted) \subseteq Limits!Buckets
    BY <1>7, <1>10
  <2> QED BY <1>2, <1>3, <2>1
<1>12. Limits!Reserved \subseteq Limits!Buckets
  BY <1>6, <1>7
<1>13. \A b \in Limits!Buckets : Limits!LimitOf(b) \in Nat /\ Limits!LimitOf(b) > 0
  BY LimitConstants DEF Limits!LimitOf
<1> QED BY <1>4, <1>8, <1>9, <1>10, <1>11, <1>12, <1>13, LimitConstants

\* A request counts in windows that had begun when it did.
LEMMA WindowsBegin ==
    ASSUME NEW q \in Queries, NEW b \in Limits!Buckets
    PROVE  /\ WindowOf(q, b) \in 0..MaxQuarter /\ WindowOf(q, b) <= q.time
           /\ q.time < WindowOf(q, b) + b.window /\ WindowOf(q, b) % b.window = 0
           /\ q.time \in 0..MaxQuarter
<1>1. q.time \in 0..MaxQuarter
  BY DEF Queries
<1>2. b.window \in Nat /\ b.window > 0
  BY BucketsAre
<1>3. WindowOf(q, b) = (q.time \div b.window) * b.window
  BY DEF WindowOf, Limits!FloorWindowStart
<1>4. q.time \in Nat /\ q.time <= MaxQuarter
  BY <1>1, LimitConstants
<1> HIDE DEF Limits!Buckets
<1>5. /\ WindowOf(q, b) \in Nat /\ WindowOf(q, b) <= q.time
      /\ q.time < WindowOf(q, b) + b.window /\ WindowOf(q, b) % b.window = 0
  BY <1>2, <1>3, <1>4, Floors
<1> QED BY <1>1, <1>4, <1>5, LimitConstants

-----------------------------------------------------------------------------
(* What the requests in flight add to the counts.                          *)

LimitRecords == Queries \cup {Limits!AtRest}

\* Buckets that count a request whose work is yet to come.
PaidBefore[q \in LimitRecords] ==
    {b \in Limits!Buckets :
       \/ q.at \in {"check", "work"} /\ b \in Limits!ToSet(q.limiter.reserved)
       \/ q.at = "work" /\ q.limiter.first /\ b \in Limits!ToSet(q.limiter.counted)
       \/ /\ q.at = "charge" /\ q.limiter.first /\ ~ q.throttled
          /\ b \in Limits!ToSet(q.limiter.counted) \ Limits!ToSet(q.todo)}

\* Buckets that do not count it yet, though its work is done.
ToPay[q \in LimitRecords] == {b \in Limits!Buckets : q.at = "charge" /\ q.worked /\ b \in Limits!ToSet(q.todo)}

\* Buckets in which it found room for work that is yet to come.
Admitted[q \in LimitRecords] ==
    {b \in Limits!Buckets :
       /\ q.at \in {"check", "charge", "work"} /\ b \in Limits!ToSet(q.limiter.counted)
       /\ q.at = "check" => b \notin Limits!ToSet(q.todo)
       /\ q.at = "charge" => ~ q.throttled /\ ~ q.worked}

\* Days that do not count it yet, though their quarters do.
DayToCome[q \in LimitRecords] ==
    {d \in Limits!Buckets : /\ q.at = "charge" /\ d \in Limits!ToSet(q.todo)
                            /\ Limits!Quarter(d.scope) \notin Limits!ToSet(q.todo)}

\* The requests in flight that have such a bucket, in a window.
InFlight(M, reqs, b, t) == {r \in Requests : b \in M[reqs[r]] /\ WindowOf(reqs[r], b) = t}

\* All work is counted, or is going to be, or its charge is lost.
WorkIsCounted ==
    \A b \in Limits!Buckets, t \in 0..MaxQuarter :
        spent[b][t] + Cardinality(InFlight(PaidBefore, limitRequests, b, t))
            <= counters[b][t] + lost[b][t] + Cardinality(InFlight(ToPay, limitRequests, b, t))

ReservationsFit ==
    \A b \in Limits!Reserved, t \in 0..MaxQuarter :
        counters[b][t] <= Limits!LimitOf(b) /\ lost[b][t] = 0

AdmissionsFit ==
    \A b \in Limits!Buckets \ Limits!Reserved, t \in 0..MaxQuarter :
        spent[b][t] + Cardinality(InFlight(Admitted, limitRequests, b, t))
            <= Limits!LimitOf(b) - 1 + Cardinality(Requests) + lost[b][t]

DaysFollow ==
    \A d \in Limits!Buckets, t \in 0..MaxQuarter :
        d.window = DayLength /\ t % DayLength = 0 /\ Limits!Quarter(d.scope) \in Limits!Buckets =>
            counters[d][t] + Cardinality(InFlight(DayToCome, limitRequests, d, t))
                <= Cardinality(Limits!Attempts(counters[Limits!Quarter(d.scope)], t))

LimitsInv == LimitsTyped /\ WorkIsCounted /\ ReservationsFit /\ AdmissionsFit /\ DaysFollow

-----------------------------------------------------------------------------
(* One step of one request.                                                *)

One(b, S) == IF b \in S THEN 1 ELSE 0

\* The counts after one more for each bucket of a set.
Bumped(f, S, q) ==
    [b \in Limits!Buckets |->
        IF b \in S THEN [f[b] EXCEPT ![WindowOf(q, b)] = @ + 1] ELSE f[b]]

\* A request becomes q2, and one more is counted in B, done for S and lost for L.
Stepped(r, q2, B, S, L) ==
    /\ limitRequests' = [limitRequests EXCEPT ![r] = q2]
    /\ q2 \in LimitRecords
    /\ q2 # Limits!AtRest => Sensible(q2) /\ q2.time <= quarter
    /\ B \subseteq Limits!Buckets /\ S \subseteq Limits!Buckets /\ L \subseteq Limits!Buckets
    /\ limitRequests[r] = Limits!AtRest => B = {} /\ S = {} /\ L = {}
    /\ limitRequests[r] # Limits!AtRest /\ q2 # Limits!AtRest => q2.time = limitRequests[r].time
    /\ counters' = Bumped(counters, B, limitRequests[r])
    /\ spent' = Bumped(spent, S, limitRequests[r])
    /\ lost' = Bumped(lost, L, limitRequests[r])
    /\ quarter' = quarter /\ begun' \in 0..MaxBegun

\* What it takes from one account it adds to another.
Balanced(q, q2, B, S, L) ==
    \A b \in Limits!Buckets :
        /\ One(b, S) + One(b, PaidBefore[q2]) + One(b, ToPay[q])
             <= One(b, B) + One(b, L) + One(b, ToPay[q2]) + One(b, PaidBefore[q])
        /\ b \in Limits!Reserved =>
             b \notin L /\ (b \in B => counters[b][WindowOf(q, b)] < Limits!LimitOf(b))
        /\ b \notin Limits!Reserved =>
             \/ One(b, S) + One(b, Admitted[q2]) <= One(b, Admitted[q]) + One(b, L)
             \/ /\ b \notin B /\ b \notin S /\ q # Limits!AtRest
                /\ counters[b][WindowOf(q, b)] < Limits!LimitOf(b)
        /\ b.window = DayLength /\ Limits!Quarter(b.scope) \in Limits!Buckets =>
             One(b, B) + One(b, DayToCome[q2]) <= One(Limits!Quarter(b.scope), B) + One(b, DayToCome[q])

BalancedStep(r) ==
    \E q2, B, S, L : Stepped(r, q2, B, S, L) /\ Balanced(limitRequests[r], q2, B, S, L)

LEMMA RestIsRest ==
    /\ Limits!AtRest.at = "idle" /\ Limits!AtRest \notin Queries
    /\ \A q \in Queries : q.at \in {"reserve", "check", "charge", "work"}
    /\ PaidBefore[Limits!AtRest] = {} /\ ToPay[Limits!AtRest] = {}
    /\ Admitted[Limits!AtRest] = {} /\ DayToCome[Limits!AtRest] = {}
<1>1. Limits!AtRest.at = "idle"
  BY DEF Limits!AtRest
<1>2. \A q \in Queries : q.at \in {"reserve", "check", "charge", "work"}
  BY DEF Queries
<1> QED BY <1>1, <1>2 DEF LimitRecords, PaidBefore, ToPay, Admitted, DayToCome

LEMMA NothingBumped ==
    ASSUME NEW f, f \in [Limits!Buckets -> [0..MaxQuarter -> Nat]], NEW q
    PROVE  Bumped(f, {}, q) = f
BY DEF Bumped

LEMMA BumpedIs ==
    ASSUME NEW f, f \in [Limits!Buckets -> [0..MaxQuarter -> Nat]], NEW q \in Queries, NEW S
    PROVE  /\ Bumped(f, S, q) \in [Limits!Buckets -> [0..MaxQuarter -> Nat]]
           /\ \A b \in Limits!Buckets, t \in 0..MaxQuarter :
                Bumped(f, S, q)[b][t] = f[b][t] + (IF t = WindowOf(q, b) THEN One(b, S) ELSE 0)
<1>1. \A b \in Limits!Buckets : WindowOf(q, b) \in 0..MaxQuarter
  BY WindowsBegin
<1> DEFINE g(b) == IF b \in S THEN [f[b] EXCEPT ![WindowOf(q, b)] = @ + 1] ELSE f[b]
<1>2. ASSUME NEW b \in Limits!Buckets
      PROVE  /\ g(b) \in [0..MaxQuarter -> Nat]
             /\ \A t \in 0..MaxQuarter :
                  g(b)[t] = f[b][t] + (IF t = WindowOf(q, b) THEN One(b, S) ELSE 0)
  <2>1. f[b] \in [0..MaxQuarter -> Nat] /\ WindowOf(q, b) \in 0..MaxQuarter
    BY <1>1
  <2> QED BY <2>1 DEF One
<1>3. Bumped(f, S, q) = [b \in Limits!Buckets |-> g(b)]
  BY DEF Bumped
<1> HIDE DEF g
<1> QED BY <1>2, <1>3

\* A step of one request moves at most that request into or out of a set of them.
LEMMA OneMoves ==
    ASSUME NEW A \in SUBSET Requests, NEW T \in SUBSET Requests, NEW r \in Requests,
           A \ {r} = T \ {r}
    PROVE  /\ Cardinality(A) \in Nat /\ Cardinality(T) \in Nat
           /\ Cardinality(T) + One(r, A) = Cardinality(A) + One(r, T)
<1>1. IsFiniteSet(A) /\ IsFiniteSet(T)
  BY FS_Subset, LimitConstants
<1>2. /\ Cardinality(A \ {r}) = IF r \in A THEN Cardinality(A) - 1 ELSE Cardinality(A)
      /\ Cardinality(T \ {r}) = IF r \in T THEN Cardinality(T) - 1 ELSE Cardinality(T)
  BY <1>1, FS_RemoveElement
<1>3. Cardinality(A) \in Nat /\ Cardinality(T) \in Nat
  BY <1>1, FS_CardinalityType
<1> QED BY <1>2, <1>3 DEF One
\* An attempt more is counted as one more, if its window is one of the day's.
LEMMA AttemptsAreFinite ==
    ASSUME NEW f \in [0..MaxQuarter -> Nat], NEW t \in 0..MaxQuarter
    PROVE  IsFiniteSet(Limits!Attempts(f, t)) /\ Cardinality(Limits!Attempts(f, t)) \in Nat
<1> DEFINE W == {v \in 0..MaxQuarter : t <= v /\ v < t + DayLength}
<1>1. IsFiniteSet(Limits!Attempts(f, t))
  <2> DEFINE Of(u) == {u} \X (1..f[u])
             All == {Of(u) : u \in W}
  <2>1. IsFiniteSet(W)
    <3>1. IsFiniteSet(0..MaxQuarter)
      BY FS_Interval, LimitConstants
    <3> QED BY <3>1, FS_Subset
  <2>2. ASSUME NEW u \in W PROVE IsFiniteSet(Of(u))
    <3>1. f[u] \in Int
      OBVIOUS
    <3>2. IsFiniteSet({u})
      BY FS_Singleton
    <3>3. IsFiniteSet(1..f[u])
      BY <3>1, FS_Interval
    <3> QED BY <3>2, <3>3, FS_Product
  <2> HIDE DEF W, Of
  <2>3. IsFiniteSet(All)
    <3>1. [u \in W |-> Of(u)] \in Surjection(W, All)
      BY DEF Surjection
    <3> QED BY <2>1, <3>1, FS_Surjection
  <2>4. IsFiniteSet(UNION All)
    BY <2>2, <2>3, FS_UNION
  <2> QED BY <2>4 DEF Limits!Attempts, Of, W
<1> QED BY <1>1, FS_CardinalityType

Adds(f, g, u) == \A v \in 0..MaxQuarter : g[v] = f[v] + (IF v = u THEN 1 ELSE 0)

LEMMA AttemptMore ==
    ASSUME NEW f \in [0..MaxQuarter -> Nat], NEW g \in [0..MaxQuarter -> Nat], NEW t \in 0..MaxQuarter,
           NEW u \in 0..MaxQuarter,
           Adds(f, g, u)
    PROVE  Cardinality(Limits!Attempts(g, t))
             = Cardinality(Limits!Attempts(f, t)) + (IF t <= u /\ u < t + DayLength THEN 1 ELSE 0)
<1> DEFINE W == {v \in 0..MaxQuarter : t <= v /\ v < t + DayLength}
           more == <<u, f[u] + 1>>
<1>1. /\ \A v \in 0..MaxQuarter : v # u => g[v] = f[v]
      /\ g[u] = f[u] + 1 /\ f[u] \in Nat
  BY DEF Adds
<1>2. 1..(f[u] + 1) = (1..f[u]) \cup {f[u] + 1} /\ f[u] + 1 \notin 1..f[u]
  BY <1>1
<1>3. CASE ~ (t <= u /\ u < t + DayLength)
  <2>1. \A v \in W : g[v] = f[v]
    BY <1>1, <1>3
  <2>2. Limits!Attempts(g, t) = Limits!Attempts(f, t)
    BY <2>1 DEF Limits!Attempts
  <2>3. Cardinality(Limits!Attempts(f, t)) \in Nat
    BY AttemptsAreFinite
  <2> QED BY <1>3, <2>2, <2>3
<1>4. CASE t <= u /\ u < t + DayLength
  <2>1. u \in W
    BY <1>4
  <2> DEFINE P(x, v, h) == x \in {v} \X (1..h[v])
  <2>2. \A x, v, h : P(x, v, h) <=> x \in {v} \X (1..h[v])
    OBVIOUS
  <2>3. \A x, h : x \in Limits!Attempts(h, t) <=> \E v \in W : P(x, v, h)
    BY DEF Limits!Attempts
  <2>4. \A x, v : v \in W /\ v # u => (P(x, v, g) <=> P(x, v, f))
    BY <1>1
  <2>5. \A x : P(x, u, g) <=> P(x, u, f) \/ x = more
    BY <1>1, <1>2
  <2>6. \A v : ~ P(more, v, f)
    BY <1>2
  <2> HIDE DEF P, W, more
  <2>7. Limits!Attempts(g, t) = Limits!Attempts(f, t) \cup {more}
    BY <2>1, <2>3, <2>4, <2>5
  <2>8. more \notin Limits!Attempts(f, t)
    BY <2>3, <2>6
  <2>9. Cardinality(Limits!Attempts(g, t)) = Cardinality(Limits!Attempts(f, t)) + 1
    BY AttemptsAreFinite, <2>7, <2>8, FS_AddElement
  <2> QED BY <1>4, <2>9
<1> QED BY <1>3, <1>4

-----------------------------------------------------------------------------
(* A balanced step keeps the accounts.                                     *)

LEMMA CountsAreNumbers ==
    ASSUME NEW f \in [Limits!Buckets -> [0..MaxQuarter -> Nat]], NEW b \in Limits!Buckets,
           NEW t \in 0..MaxQuarter
    PROVE  f[b][t] \in Nat
<1>1. f[b] \in [0..MaxQuarter -> Nat]
  OBVIOUS
<1> QED BY <1>1

LEMMA RecordsHaveSets ==
    /\ PaidBefore \in [LimitRecords -> SUBSET Limits!Buckets]
    /\ ToPay \in [LimitRecords -> SUBSET Limits!Buckets]
    /\ Admitted \in [LimitRecords -> SUBSET Limits!Buckets]
    /\ DayToCome \in [LimitRecords -> SUBSET Limits!Buckets]
BY DEF PaidBefore, ToPay, Admitted, DayToCome

\* The counts that a step leaves: q is the request before, or what it becomes when it begins.
LEMMA CountsAfter ==
    ASSUME LimitsTyped, NEW r \in Requests, NEW q2, NEW B, NEW S, NEW L, Stepped(r, q2, B, S, L)
    PROVE  \E q \in LimitRecords :
             /\ limitRequests[r] # Limits!AtRest => q = limitRequests[r]
             /\ q2 # Limits!AtRest => q.time = q2.time
             /\ q # Limits!AtRest \/ B \cup S \cup L = {}
             /\ \A b \in Limits!Buckets, t \in 0..MaxQuarter :
                  /\ counters'[b][t] = counters[b][t] + (IF t = WindowOf(q, b) THEN One(b, B) ELSE 0)
                  /\ spent'[b][t] = spent[b][t] + (IF t = WindowOf(q, b) THEN One(b, S) ELSE 0)
                  /\ lost'[b][t] = lost[b][t] + (IF t = WindowOf(q, b) THEN One(b, L) ELSE 0)
<1>1. /\ q2 \in LimitRecords /\ limitRequests[r] \in LimitRecords
      /\ counters \in [Limits!Buckets -> [0..MaxQuarter -> Nat]]
      /\ spent \in [Limits!Buckets -> [0..MaxQuarter -> Nat]]
      /\ lost \in [Limits!Buckets -> [0..MaxQuarter -> Nat]]
  BY DEF Stepped, LimitsTyped, LimitRecords
<1>2. CASE limitRequests[r] = Limits!AtRest
  <2>1. counters' = counters /\ spent' = spent /\ lost' = lost
    BY <1>1, <1>2, NothingBumped DEF Stepped
  <2>2. B = {} /\ S = {} /\ L = {}
    BY <1>2 DEF Stepped
  <2>3. \A b \in Limits!Buckets, t \in 0..MaxQuarter :
          /\ counters'[b][t] = counters[b][t] + (IF t = WindowOf(q2, b) THEN One(b, B) ELSE 0)
          /\ spent'[b][t] = spent[b][t] + (IF t = WindowOf(q2, b) THEN One(b, S) ELSE 0)
          /\ lost'[b][t] = lost[b][t] + (IF t = WindowOf(q2, b) THEN One(b, L) ELSE 0)
    <3>1. \A b \in Limits!Buckets, t \in 0..MaxQuarter :
            counters[b][t] \in Nat /\ spent[b][t] \in Nat /\ lost[b][t] \in Nat
      BY <1>1, CountsAreNumbers
    <3>2. \A b : One(b, B) = 0 /\ One(b, S) = 0 /\ One(b, L) = 0
      BY <2>2 DEF One
    <3> QED BY <2>1, <3>1, <3>2
  <2>4. B \cup S \cup L = {}
    BY <2>2
  <2> QED BY <1>1, <1>2, <2>3, <2>4
<1>3. CASE limitRequests[r] # Limits!AtRest
  <2>1. limitRequests[r] \in Queries
    BY <1>1, <1>3 DEF LimitRecords
  <2>2. q2 # Limits!AtRest => q2.time = limitRequests[r].time
    BY <1>3 DEF Stepped
  <2>3. \A b \in Limits!Buckets, t \in 0..MaxQuarter :
          /\ counters'[b][t] = counters[b][t] + (IF t = WindowOf(limitRequests[r], b) THEN One(b, B) ELSE 0)
          /\ spent'[b][t] = spent[b][t] + (IF t = WindowOf(limitRequests[r], b) THEN One(b, S) ELSE 0)
          /\ lost'[b][t] = lost[b][t] + (IF t = WindowOf(limitRequests[r], b) THEN One(b, L) ELSE 0)
    <3>1. /\ counters' = Bumped(counters, B, limitRequests[r])
          /\ spent' = Bumped(spent, S, limitRequests[r])
          /\ lost' = Bumped(lost, L, limitRequests[r])
      BY DEF Stepped
    <3>2. \A b \in Limits!Buckets, t \in 0..MaxQuarter :
            counters'[b][t] = counters[b][t] + (IF t = WindowOf(limitRequests[r], b) THEN One(b, B) ELSE 0)
      BY <1>1, <2>1, <3>1, BumpedIs
    <3>3. \A b \in Limits!Buckets, t \in 0..MaxQuarter :
            spent'[b][t] = spent[b][t] + (IF t = WindowOf(limitRequests[r], b) THEN One(b, S) ELSE 0)
      BY <1>1, <2>1, <3>1, BumpedIs
    <3>4. \A b \in Limits!Buckets, t \in 0..MaxQuarter :
            lost'[b][t] = lost[b][t] + (IF t = WindowOf(limitRequests[r], b) THEN One(b, L) ELSE 0)
      BY <1>1, <2>1, <3>1, BumpedIs
    <3> QED BY <3>2, <3>3, <3>4
  <2> QED BY <1>1, <1>3, <2>2, <2>3
<1> QED BY <1>2, <1>3

LEMMA TypesStep ==
    ASSUME LimitsTyped, NEW r \in Requests, NEW q2, NEW B, NEW S, NEW L, Stepped(r, q2, B, S, L)
    PROVE  LimitsTyped'
<1>1. /\ counters \in [Limits!Buckets -> [0..MaxQuarter -> Nat]]
      /\ spent \in [Limits!Buckets -> [0..MaxQuarter -> Nat]]
      /\ lost \in [Limits!Buckets -> [0..MaxQuarter -> Nat]]
      /\ limitRequests \in [Requests -> LimitRecords]
  BY DEF LimitsTyped, LimitRecords
<1>2. /\ counters' \in [Limits!Buckets -> [0..MaxQuarter -> Nat]]
      /\ spent' \in [Limits!Buckets -> [0..MaxQuarter -> Nat]]
      /\ lost' \in [Limits!Buckets -> [0..MaxQuarter -> Nat]]
  <2>1. CASE limitRequests[r] = Limits!AtRest
    BY <1>1, <2>1, NothingBumped DEF Stepped
  <2>2. CASE limitRequests[r] \in Queries
    BY <1>1, <2>2, BumpedIs DEF Stepped
  <2> QED BY <1>1, <2>1, <2>2 DEF LimitRecords
<1>3. ASSUME NEW b \in Limits!Buckets, NEW t \in 0..MaxQuarter, counters'[b][t] > 0
      PROVE  t % b.window = 0 /\ t <= quarter
  <2>1. PICK q \in LimitRecords :
          /\ limitRequests[r] # Limits!AtRest => q = limitRequests[r]
          /\ q # Limits!AtRest \/ B \cup S \cup L = {}
          /\ counters'[b][t] = counters[b][t] + (IF t = WindowOf(q, b) THEN One(b, B) ELSE 0)
    BY CountsAfter
  <2>2. CASE counters[b][t] > 0
    BY <2>2 DEF LimitsTyped
  <2>3. CASE ~ (counters[b][t] > 0)
    <3>1. counters[b][t] = 0
      <4>1. counters[b][t] \in Nat
        BY <1>1, CountsAreNumbers
      <4> QED BY <2>3, <4>1
    <3>2. t = WindowOf(q, b) /\ b \in B
      BY <1>3, <2>1, <3>1 DEF One
    <3>3. limitRequests[r] # Limits!AtRest
      BY <3>2 DEF Stepped
    <3>4. q \in Queries /\ q.time <= quarter
      BY <1>1, <2>1, <3>3 DEF LimitRecords, LimitsTyped
    <3>5. WindowOf(q, b) <= q.time /\ WindowOf(q, b) % b.window = 0 /\ q.time \in 0..MaxQuarter
      BY <3>4, WindowsBegin
    <3>6. quarter \in Nat /\ WindowOf(q, b) \in Nat
      BY <3>2, LimitConstants DEF LimitsTyped
    <3> QED BY <3>2, <3>4, <3>5, <3>6, LimitConstants
  <2> QED BY <2>2, <2>3
<1>4. /\ limitRequests' \in [Requests -> Queries \cup {Limits!AtRest}]
      /\ \A p \in Requests : limitRequests'[p] # Limits!AtRest =>
           Sensible(limitRequests'[p]) /\ limitRequests'[p].time <= quarter
  <2>1. /\ limitRequests' \in [Requests -> LimitRecords] /\ limitRequests'[r] = q2
        /\ \A p \in Requests : p # r => limitRequests'[p] = limitRequests[p]
    BY <1>1 DEF Stepped
  <2> QED BY <2>1 DEF Stepped, LimitsTyped, LimitRecords
<1>5. quarter' = quarter /\ begun' \in 0..MaxBegun /\ quarter \in 0..MaxQuarter
  BY DEF Stepped, LimitsTyped
<1> QED BY <1>2, <1>3, <1>4, <1>5 DEF LimitsTyped

LEMMA SameCounts ==
    ASSUME NEW f \in [0..MaxQuarter -> Nat], NEW g \in [0..MaxQuarter -> Nat],
           \A u \in 0..MaxQuarter : f[u] = g[u]
    PROVE  f = g
<1>1. f = [u \in 0..MaxQuarter |-> f[u]] /\ g = [u \in 0..MaxQuarter |-> g[u]]
  OBVIOUS
<1>2. [u \in 0..MaxQuarter |-> f[u]] = [u \in 0..MaxQuarter |-> g[u]]
  OBVIOUS
<1> QED BY <1>1, <1>2

\* What a balanced step does to the counts of one bucket in one window.
LEMMA BalanceOf ==
    ASSUME LimitsTyped, NEW r \in Requests, NEW q2, NEW B, NEW S, NEW L, Stepped(r, q2, B, S, L),
           NEW M \in [LimitRecords -> SUBSET Limits!Buckets], M[Limits!AtRest] = {},
           NEW q \in LimitRecords, limitRequests[r] # Limits!AtRest => q = limitRequests[r],
           q2 # Limits!AtRest => q.time = q2.time,
           NEW b \in Limits!Buckets, NEW t
    PROVE  /\ Cardinality(InFlight(M, limitRequests, b, t)) \in Nat
           /\ Cardinality(InFlight(M, limitRequests', b, t)) \in Nat
           /\ Cardinality(InFlight(M, limitRequests', b, t))
                = Cardinality(InFlight(M, limitRequests, b, t))
                    + (IF t = WindowOf(q, b) THEN One(b, M[q2]) - One(b, M[limitRequests[r]]) ELSE 0)
<1>1. /\ limitRequests \in [Requests -> LimitRecords] /\ q2 \in LimitRecords /\ limitRequests'[r] = q2
      /\ \A p \in Requests : p # r => limitRequests'[p] = limitRequests[p]
  BY DEF LimitsTyped, Stepped, LimitRecords
<1> DEFINE A == InFlight(M, limitRequests, b, t)
           T == InFlight(M, limitRequests', b, t)
<1>2. A \in SUBSET Requests /\ T \in SUBSET Requests /\ A \ {r} = T \ {r}
  BY <1>1 DEF InFlight
<1>3. /\ limitRequests[r] # Limits!AtRest => WindowOf(limitRequests[r], b) = WindowOf(q, b)
      /\ q2 # Limits!AtRest => WindowOf(q2, b) = WindowOf(q, b)
  BY DEF WindowOf
<1>4. /\ r \in A <=> t = WindowOf(q, b) /\ b \in M[limitRequests[r]]
      /\ r \in T <=> t = WindowOf(q, b) /\ b \in M[q2]
  BY <1>1, <1>3 DEF InFlight
<1> HIDE DEF A, T
<1>5. /\ Cardinality(A) \in Nat /\ Cardinality(T) \in Nat
      /\ Cardinality(T) + One(r, A) = Cardinality(A) + One(r, T)
  BY <1>2, OneMoves
<1>6. Cardinality(T) = Cardinality(A)
        + (IF t = WindowOf(q, b) THEN One(b, M[q2]) - One(b, M[limitRequests[r]]) ELSE 0)
  BY <1>4, <1>5 DEF One
<1> QED BY <1>5, <1>6 DEF A, T

LEMMA BalanceKeeps ==
    ASSUME LimitsInv, NEW r \in Requests, NEW q2, NEW B, NEW S, NEW L,
           Stepped(r, q2, B, S, L), Balanced(limitRequests[r], q2, B, S, L)
    PROVE  LimitsInv'
<1>1. LimitsTyped /\ LimitsTyped'
  BY TypesStep DEF LimitsInv
<1> DEFINE old == limitRequests[r]
<1>2. PICK q \in LimitRecords :
        /\ old # Limits!AtRest => q = old
        /\ q2 # Limits!AtRest => q.time = q2.time
        /\ q # Limits!AtRest \/ B \cup S \cup L = {}
        /\ \A b \in Limits!Buckets, t \in 0..MaxQuarter :
             /\ counters'[b][t] = counters[b][t] + (IF t = WindowOf(q, b) THEN One(b, B) ELSE 0)
             /\ spent'[b][t] = spent[b][t] + (IF t = WindowOf(q, b) THEN One(b, S) ELSE 0)
             /\ lost'[b][t] = lost[b][t] + (IF t = WindowOf(q, b) THEN One(b, L) ELSE 0)
  BY <1>1, CountsAfter
<1>3. \A b \in Limits!Buckets, t \in 0..MaxQuarter :
        /\ counters[b][t] \in Nat /\ spent[b][t] \in Nat /\ lost[b][t] \in Nat
  BY <1>1, CountsAreNumbers DEF LimitsTyped
<1>4. \A b, A : One(b, A) \in {0, 1}
  BY DEF One
<1>5. ASSUME NEW M \in {PaidBefore, ToPay, Admitted, DayToCome}, NEW b \in Limits!Buckets, NEW t
      PROVE  /\ Cardinality(InFlight(M, limitRequests, b, t)) \in Nat
             /\ Cardinality(InFlight(M, limitRequests', b, t)) \in Nat
             /\ Cardinality(InFlight(M, limitRequests', b, t))
                  = Cardinality(InFlight(M, limitRequests, b, t))
                      + (IF t = WindowOf(q, b) THEN One(b, M[q2]) - One(b, M[old]) ELSE 0)
  <2>1. M \in [LimitRecords -> SUBSET Limits!Buckets] /\ M[Limits!AtRest] = {}
    BY RecordsHaveSets, RestIsRest
  <2> QED BY <1>1, <1>2, <2>1, BalanceOf
<1> HIDE DEF old
<1>6. ASSUME NEW b \in Limits!Buckets, NEW t \in 0..MaxQuarter
      PROVE  spent'[b][t] + Cardinality(InFlight(PaidBefore, limitRequests', b, t))
               <= counters'[b][t] + lost'[b][t] + Cardinality(InFlight(ToPay, limitRequests', b, t))
  <2>1. One(b, S) + One(b, PaidBefore[q2]) + One(b, ToPay[old])
          <= One(b, B) + One(b, L) + One(b, ToPay[q2]) + One(b, PaidBefore[old])
    BY DEF Balanced, old
  <2>2. spent[b][t] + Cardinality(InFlight(PaidBefore, limitRequests, b, t))
          <= counters[b][t] + lost[b][t] + Cardinality(InFlight(ToPay, limitRequests, b, t))
    BY DEF LimitsInv, WorkIsCounted
  <2> HIDE DEF old
  <2> QED BY <1>2, <1>3, <1>4, <1>5, <2>1, <2>2
<1>7. ASSUME NEW b \in Limits!Reserved, NEW t \in 0..MaxQuarter
      PROVE  counters'[b][t] <= Limits!LimitOf(b) /\ lost'[b][t] = 0
  <2>1. b \in Limits!Buckets /\ Limits!LimitOf(b) \in Nat
    BY BucketsAre
  <2>2. b \notin L /\ (b \in B => counters[b][WindowOf(q, b)] < Limits!LimitOf(b))
    <3>1. b \notin L /\ (b \in B => counters[b][WindowOf(old, b)] < Limits!LimitOf(b))
      BY <2>1 DEF Balanced, old
    <3>2. b \in B => q = old
      BY <1>2 DEF Stepped, old
    <3> QED BY <3>1, <3>2
  <2>3. counters[b][t] <= Limits!LimitOf(b) /\ lost[b][t] = 0
    BY DEF LimitsInv, ReservationsFit
  <2> QED BY <1>2, <1>3, <2>1, <2>2, <2>3 DEF One
<1>8. ASSUME NEW b \in Limits!Buckets \ Limits!Reserved, NEW t \in 0..MaxQuarter
      PROVE  spent'[b][t] + Cardinality(InFlight(Admitted, limitRequests', b, t))
               <= Limits!LimitOf(b) - 1 + Cardinality(Requests) + lost'[b][t]
  <2>1. Limits!LimitOf(b) \in Nat /\ Cardinality(Requests) \in Nat
    BY BucketsAre, LimitConstants, FS_CardinalityType
  <2>2. spent[b][t] + Cardinality(InFlight(Admitted, limitRequests, b, t))
          <= Limits!LimitOf(b) - 1 + Cardinality(Requests) + lost[b][t]
    BY DEF LimitsInv, AdmissionsFit
  <2>3. CASE t # WindowOf(q, b) \/ One(b, S) + One(b, Admitted[q2]) <= One(b, Admitted[old]) + One(b, L)
    BY <1>2, <1>3, <1>4, <1>5, <2>1, <2>2, <2>3
  <2>4. CASE /\ t = WindowOf(q, b)
             /\ ~ (One(b, S) + One(b, Admitted[q2]) <= One(b, Admitted[old]) + One(b, L))
    <3>1. b \notin B /\ b \notin S /\ old # Limits!AtRest /\ counters[b][WindowOf(old, b)] < Limits!LimitOf(b)
      BY <2>4 DEF Balanced, old
    <3>2. counters'[b][t] < Limits!LimitOf(b)
      BY <1>2, <1>3, <2>4, <3>1 DEF One
    <3> DEFINE A == InFlight(Admitted, limitRequests', b, t)
               T == InFlight(ToPay, limitRequests', b, t)
    <3>3. A \cap T = {} /\ A \subseteq Requests /\ T \subseteq Requests
      <4>1. \A p \in Requests : limitRequests'[p] \in LimitRecords
        BY <1>1 DEF LimitsTyped, LimitRecords
      <4>2. \A x \in LimitRecords : Admitted[x] \cap ToPay[x] = {}
        BY DEF Admitted, ToPay
      <4> QED BY <4>1, <4>2 DEF InFlight
    <3> HIDE DEF A, T
    <3>4. Cardinality(A) + Cardinality(T) <= Cardinality(Requests)
      <4>1. IsFiniteSet(A) /\ IsFiniteSet(T) /\ A \cup T \in SUBSET Requests
        BY <3>3, FS_Subset, LimitConstants
      <4>2. Cardinality(A \cup T) = Cardinality(A) + Cardinality(T) - Cardinality({})
        BY <3>3, <4>1, FS_Union
      <4>3. Cardinality(A \cup T) <= Cardinality(Requests)
        BY <4>1, FS_Subset, LimitConstants
      <4>4. Cardinality({}) = 0 /\ Cardinality(A) \in Nat /\ Cardinality(T) \in Nat
        BY <4>1, FS_EmptySet, FS_CardinalityType
      <4> QED BY <4>2, <4>3, <4>4
    <3>5. Cardinality(A) \in Nat /\ Cardinality(T) \in Nat
      BY <1>5 DEF A, T
    <3>6. spent'[b][t] <= counters'[b][t] + lost'[b][t] + Cardinality(T)
      <4>1. Cardinality(InFlight(PaidBefore, limitRequests', b, t)) \in Nat
        BY <1>5
      <4>2. spent'[b][t] \in Nat /\ counters'[b][t] \in Nat /\ lost'[b][t] \in Nat
        BY <1>1, CountsAreNumbers DEF LimitsTyped
      <4> QED BY <1>6, <3>5, <4>1, <4>2 DEF T
    <3>7. spent'[b][t] \in Nat /\ counters'[b][t] \in Nat /\ lost'[b][t] \in Nat
      BY <1>1, CountsAreNumbers DEF LimitsTyped
    <3> QED BY <2>1, <3>2, <3>4, <3>5, <3>6, <3>7 DEF A
  <2> QED BY <2>3, <2>4
<1>9. ASSUME NEW d \in Limits!Buckets, NEW t \in 0..MaxQuarter,
             d.window = DayLength, t % DayLength = 0, Limits!Quarter(d.scope) \in Limits!Buckets
      PROVE  counters'[d][t] + Cardinality(InFlight(DayToCome, limitRequests', d, t))
               <= Cardinality(Limits!Attempts(counters'[Limits!Quarter(d.scope)], t))
  <2> DEFINE o == Limits!Quarter(d.scope)
             w == WindowOf(q, o)
             n == Cardinality(InFlight(DayToCome, limitRequests, d, t))
             m == Cardinality(InFlight(DayToCome, limitRequests', d, t))
             a == Cardinality(Limits!Attempts(counters[o], t))
             z == Cardinality(Limits!Attempts(counters'[o], t))
  <2>1. One(d, B) + One(d, DayToCome[q2]) <= One(o, B) + One(d, DayToCome[old])
    BY <1>9 DEF Balanced, old
  <2>2. counters[d][t] + n <= a
    BY <1>9 DEF LimitsInv, DaysFollow
  <2>3. o \in Limits!Buckets /\ o.window = 1
    BY <1>9 DEF Limits!Quarter, Limits!Bucket
  <2> SUFFICES counters'[d][t] + m <= z
    OBVIOUS
  <2> HIDE DEF o, n, m, a, z
  <2>4. counters[o] \in [0..MaxQuarter -> Nat] /\ counters'[o] \in [0..MaxQuarter -> Nat]
    BY <1>1, <2>3 DEF LimitsTyped
  <2>5. a \in Nat /\ z \in Nat
    BY <2>4, AttemptsAreFinite DEF a, z
  <2>6. /\ n \in Nat /\ m \in Nat
        /\ m = n + (IF t = WindowOf(q, d) THEN One(d, DayToCome[q2]) - One(d, DayToCome[old]) ELSE 0)
    BY <1>5 DEF n, m
  <2>7. counters'[d][t] = counters[d][t] + (IF t = WindowOf(q, d) THEN One(d, B) ELSE 0)
    BY <1>2
  <2>8. CASE o \notin B
    <3>1. \A u \in 0..MaxQuarter : counters'[o][u] = counters[o][u]
      BY <1>2, <1>3, <2>3, <2>8 DEF One
    <3>2. a = z
      BY <2>4, <3>1, SameCounts DEF a, z
    <3>3. One(o, B) = 0
      BY <2>8 DEF One
    <3> QED BY <1>3, <1>4, <2>1, <2>2, <2>5, <2>6, <2>7, <3>2, <3>3
  <2>9. CASE o \in B
    <3>1. q \in Queries
      BY <1>2, <2>9 DEF LimitRecords
    <3>2. /\ w \in 0..MaxQuarter /\ w = q.time /\ WindowOf(q, d) <= w /\ w < WindowOf(q, d) + DayLength
          /\ WindowOf(q, d) \in 0..MaxQuarter
      <4>1. q.time \in Nat /\ w \in Nat
        BY <2>3, <3>1, WindowsBegin, LimitConstants
      <4> QED BY <1>9, <2>3, <3>1, <4>1, WindowsBegin
    <3>3. Adds(counters[o], counters'[o], w)
      BY <1>2, <2>3, <2>9 DEF One, Adds
    <3> HIDE DEF w
    <3>5. z = a + (IF t <= w /\ w < t + DayLength THEN 1 ELSE 0)
      BY <2>4, <3>2, <3>3, AttemptMore DEF a, z
    <3>6. One(o, B) = 1
      BY <2>9 DEF One
    <3>7. CASE t = WindowOf(q, d)
      BY <1>3, <1>4, <2>1, <2>2, <2>5, <2>6, <2>7, <3>2, <3>5, <3>6, <3>7
    <3>8. CASE t # WindowOf(q, d)
      BY <1>3, <2>2, <2>5, <2>6, <2>7, <3>5, <3>8
    <3> QED BY <3>7, <3>8
  <2> QED BY <2>8, <2>9
<1> QED BY <1>1, <1>6, <1>7, <1>8, <1>9
        DEF LimitsInv, WorkIsCounted, ReservationsFit, AdmissionsFit, DaysFollow

-----------------------------------------------------------------------------
(* Every action is a balanced step.                                        *)

\* The sets of a request, bucket by bucket.
LEMMA SetsAre ==
    ASSUME NEW q \in Queries, NEW b \in Limits!Buckets
    PROVE  LET counted == b \in Limits!ToSet(q.limiter.counted)
               todo == b \in Limits!ToSet(q.todo)
           IN  /\ b \in PaidBefore[q] <=>
                    \/ q.at \in {"check", "work"} /\ b \in Limits!ToSet(q.limiter.reserved)
                    \/ q.at = "work" /\ q.limiter.first /\ counted
                    \/ q.at = "charge" /\ q.limiter.first /\ ~ q.throttled /\ counted /\ ~ todo
               /\ b \in ToPay[q] <=> q.at = "charge" /\ q.worked /\ todo
               /\ b \in Admitted[q] <=>
                    /\ q.at \in {"check", "charge", "work"} /\ counted
                    /\ q.at = "check" => ~ todo
                    /\ q.at = "charge" => ~ q.throttled /\ ~ q.worked
               /\ b \in DayToCome[q] <=>
                    q.at = "charge" /\ todo /\ Limits!Quarter(b.scope) \notin Limits!ToSet(q.todo)
BY DEF LimitRecords, PaidBefore, ToPay, Admitted, DayToCome

\* A limiter that counts a day counts its quarters, if anyone does.
LEMMA DaysHaveQuarters ==
    ASSUME NEW l \in Offered, NEW d \in Limits!ToSet(l.counted), d.window = DayLength,
           Limits!Quarter(d.scope) \in Limits!Buckets
    PROVE  Limits!Quarter(d.scope) \in Limits!ToSet(l.counted)
<1>1. /\ Limits!Quarter(d.scope).window = 1 /\ Limits!Quarter(d.scope).scope = d.scope
  BY DEF Limits!Quarter, Limits!Bucket
<1>2. d.scope \in QuarterScopes
  BY <1>1, BucketsAre
<1> QED BY <1>2, LimitersAreWellFormed DEF WellFormed

\* What a request in flight is.
LEMMA InFlightIs ==
    ASSUME LimitsTyped, NEW r \in Requests, limitRequests[r].at # "idle"
    PROVE  LET q == limitRequests[r] IN
           /\ q \in Queries /\ q \in LimitRecords /\ q # Limits!AtRest /\ Sensible(q) /\ q.time <= quarter
           /\ q.limiter \in Offered /\ q.todo \in Seq(Limits!Buckets)
           /\ q.throttled \in BOOLEAN /\ q.worked \in BOOLEAN
           /\ WellFormed(q.limiter)
           /\ Limits!ToSet(q.limiter.counted) \subseteq Limits!Buckets \ Limits!Reserved
           /\ q.limiter.reserved \in Seq(Limits!Reserved) /\ q.limiter.counted \in Seq(Limits!Buckets)
           /\ Limits!ToSet(q.limiter.reserved) \subseteq Limits!Reserved
           /\ \A b \in Limits!Buckets : Limits!Window(r, b) = WindowOf(q, b)
<1> DEFINE q == limitRequests[r]
<1>1. q \in Queries /\ q # Limits!AtRest
  BY RestIsRest DEF LimitsTyped
<1>2. Sensible(q) /\ q.time <= quarter
  BY <1>1 DEF LimitsTyped
<1>3. /\ q.limiter \in Offered /\ q.todo \in Seq(Limits!Buckets)
      /\ q.throttled \in BOOLEAN /\ q.worked \in BOOLEAN
  BY <1>1 DEF Queries
<1>4. Limits!ToSet(q.limiter.reserved) \subseteq Limits!Reserved
  BY <1>3 DEF Limits!Reserved
<1>5. \A b \in Limits!Buckets : Limits!Window(r, b) = WindowOf(q, b)
  BY DEF Limits!Window, WindowOf
<1> QED BY <1>1, <1>2, <1>3, <1>4, <1>5, LimitersAreWellFormed, BucketsAre DEF LimitRecords

LEMMA BeginSteps ==
    ASSUME LimitsInv, NEW r \in Requests, Limits!Begin(r)
    PROVE  BalancedStep(r)
<1>1. LimitsTyped /\ limitRequests[r] = Limits!AtRest
  <2>1. LimitsTyped /\ limitRequests[r].at = "idle"
    BY DEF LimitsInv, Limits!Begin, Limits!In
  <2> QED BY <2>1, RestIsRest DEF LimitsTyped
<1>2. PICK l \in Offered :
        limitRequests' = [limitRequests EXCEPT ![r] =
          [at |-> IF l.reserved # <<>> THEN "reserve" ELSE "check", limiter |-> l, time |-> quarter,
           todo |-> l.counted, throttled |-> FALSE, worked |-> FALSE]]
  BY DEF Limits!Begin, Limits!Become
<1> DEFINE q2 == [at |-> IF l.reserved # <<>> THEN "reserve" ELSE "check", limiter |-> l,
                  time |-> quarter, todo |-> l.counted, throttled |-> FALSE, worked |-> FALSE]
<1>3. /\ q2.at = (IF l.reserved # <<>> THEN "reserve" ELSE "check") /\ q2.limiter = l /\ q2.time = quarter
      /\ q2.todo = l.counted /\ q2.throttled = FALSE /\ q2.worked = FALSE
  OBVIOUS
<1>4. WellFormed(l) /\ l.counted \in Seq(Limits!Buckets) /\ quarter \in 0..MaxQuarter
  BY <1>1, LimitersAreWellFormed, BucketsAre DEF LimitsTyped
<1>5. q2 \in Queries
  BY <1>4 DEF Queries
<1>6. limitRequests' = [limitRequests EXCEPT ![r] = q2]
  BY <1>2
<1> HIDE DEF q2
<1>7. Sensible(q2)
  BY <1>3, <1>4 DEF Sensible, WellFormed
<1>8. Stepped(r, q2, {}, {}, {})
  <2>1. /\ counters' = Bumped(counters, {}, limitRequests[r])
        /\ spent' = Bumped(spent, {}, limitRequests[r])
        /\ lost' = Bumped(lost, {}, limitRequests[r])
    BY <1>1, NothingBumped DEF Limits!Begin, LimitsTyped
  <2>2. quarter' = quarter /\ begun' \in 0..MaxBegun
    BY <1>1, LimitConstants DEF Limits!Begin, LimitsTyped
  <2>3. q2.time <= quarter
    BY <1>3, <1>4, LimitConstants
  <2> QED BY <1>1, <1>5, <1>6, <1>7, <2>1, <2>2, <2>3 DEF Stepped, LimitRecords
<1>9. Balanced(limitRequests[r], q2, {}, {}, {})
  <2>1. ASSUME NEW b \in Limits!Buckets
        PROVE  b \notin PaidBefore[q2] /\ b \notin Admitted[q2] /\ b \notin DayToCome[q2]
    <3>1. Limits!ToSet(<<>>) = {}
      BY DEF Limits!ToSet
    <3> QED BY <1>3, <1>5, <3>1, SetsAre
  <2>2. \A b \in Limits!Buckets : b \notin ToPay[limitRequests[r]]
    BY <1>1, RestIsRest
  <2> QED BY <2>1, <2>2 DEF Balanced, One
<1> QED BY <1>8, <1>9 DEF BalancedStep

\* The request ends, and nothing is counted but what it lost.
LEMMA EndSteps ==
    ASSUME LimitsInv, NEW r \in Requests, limitRequests[r].at # "idle", Limits!End(r),
           NEW L, L \subseteq Limits!Buckets \ Limits!Reserved,
           \A b \in Limits!Buckets : b \in ToPay[limitRequests[r]] => b \in L,
           counters' = counters, spent' = spent, lost' = Bumped(lost, L, limitRequests[r]),
           quarter' = quarter, begun' = begun
    PROVE  BalancedStep(r)
<1>1. LimitsTyped
  BY DEF LimitsInv
<1>2. Stepped(r, Limits!AtRest, {}, {}, L)
  <2>1. /\ counters' = Bumped(counters, {}, limitRequests[r])
        /\ spent' = Bumped(spent, {}, limitRequests[r])
    BY <1>1, NothingBumped DEF LimitsTyped
  <2>2. limitRequests' = [limitRequests EXCEPT ![r] = Limits!AtRest]
    BY DEF Limits!End, Limits!Become
  <2>3. limitRequests[r] # Limits!AtRest
    BY RestIsRest
  <2> QED BY <1>1, <2>1, <2>2, <2>3 DEF Stepped, LimitRecords, LimitsTyped
<1>3. Balanced(limitRequests[r], Limits!AtRest, {}, {}, L)
  <2>1. \A b : /\ b \notin PaidBefore[Limits!AtRest] /\ b \notin ToPay[Limits!AtRest]
               /\ b \notin Admitted[Limits!AtRest] /\ b \notin DayToCome[Limits!AtRest]
    BY RestIsRest
  <2> QED BY <2>1 DEF Balanced, One
<1> QED BY <1>2, <1>3 DEF BalancedStep

\* The request goes on, and nothing is counted.
LEMMA MovesOn ==
    ASSUME LimitsInv, NEW r \in Requests, limitRequests[r].at # "idle", NEW q2 \in Queries,
           limitRequests' = [limitRequests EXCEPT ![r] = q2], Sensible(q2),
           q2.time = limitRequests[r].time,
           UNCHANGED <<quarter, counters, spent, lost, begun>>,
           Balanced(limitRequests[r], q2, {}, {}, {})
    PROVE  BalancedStep(r)
<1>1. LimitsTyped
  BY DEF LimitsInv
<1>2. /\ counters' = Bumped(counters, {}, limitRequests[r])
      /\ spent' = Bumped(spent, {}, limitRequests[r])
      /\ lost' = Bumped(lost, {}, limitRequests[r])
  BY <1>1, NothingBumped DEF LimitsTyped
<1>3. limitRequests[r] # Limits!AtRest /\ limitRequests[r].time <= quarter
  BY <1>1, InFlightIs
<1>4. Stepped(r, q2, {}, {}, {})
  BY <1>1, <1>2, <1>3 DEF Stepped, LimitRecords, LimitsTyped
<1> QED BY <1>4 DEF BalancedStep

LEMMA ReserveSteps ==
    ASSUME LimitsInv, NEW r \in Requests, Limits!Reserve(r)
    PROVE  BalancedStep(r)
<1> DEFINE q == limitRequests[r]
           b == Head(q.limiter.reserved)
<1>1. LimitsTyped /\ q.at = "reserve" /\ q.at # "idle"
  BY DEF LimitsInv, Limits!Reserve, Limits!In
<1>2. /\ q \in Queries /\ q # Limits!AtRest /\ Sensible(q) /\ q.time <= quarter
      /\ q.limiter.reserved \in Seq(Limits!Reserved) /\ q.limiter.reserved # <<>>
      /\ \A c \in Limits!Buckets : Limits!Window(r, c) = WindowOf(q, c)
      /\ q.todo = q.limiter.counted
  BY <1>1, InFlightIs DEF Sensible
<1>3. b \in Limits!Reserved /\ b \in Limits!Buckets /\ Limits!ToSet(q.limiter.reserved) = {b}
  <2>1. \A x : Limits!ToSet(<<x>>) = {x} /\ Head(<<x>>) = x
    BY DEF Limits!ToSet
  <2>2. q.limiter.reserved = <<b>>
    BY <1>1, <1>2, <2>1, InFlightIs DEF WellFormed
  <2>3. b \in Limits!Reserved
    BY <1>2
  <2> QED BY <2>1, <2>2, <2>3, BucketsAre
<1>4. CASE Limits!HasRoom(Limits!CountInWindow(r, b), b)
  <2> DEFINE q2 == [q EXCEPT !.at = "check"]
  <2>1. /\ q2 \in Queries /\ q2.at = "check" /\ q2.limiter = q.limiter /\ q2.time = q.time
        /\ q2.todo = q.todo /\ q2.throttled = q.throttled /\ q2.worked = q.worked
    BY <1>2 DEF Queries
  <2>2. /\ limitRequests' = [limitRequests EXCEPT ![r] = q2]
        /\ counters' = [counters EXCEPT ![b][Limits!Window(r, b)] = @ + 1]
        /\ UNCHANGED <<quarter, spent, lost, begun>>
    BY <1>4 DEF Limits!Reserve, Limits!Become
  <2> HIDE DEF q2
  <2>3. Stepped(r, q2, {b}, {}, {})
    <3>1. counters' = Bumped(counters, {b}, q)
      BY <1>1, <1>2, <1>3, <2>2 DEF Bumped, LimitsTyped
    <3>2. spent' = Bumped(spent, {}, q) /\ lost' = Bumped(lost, {}, q)
      BY <1>1, <2>2, NothingBumped DEF LimitsTyped
    <3>3. Sensible(q2)
      BY <1>1, <1>2, <2>1 DEF Sensible
    <3> QED BY <1>1, <1>2, <1>3, <2>1, <2>2, <3>1, <3>2, <3>3 DEF Stepped, LimitRecords, LimitsTyped
  <2>4. Balanced(q, q2, {b}, {}, {})
    <3>1. counters[b][WindowOf(q, b)] < Limits!LimitOf(b)
      BY <1>2, <1>3, <1>4 DEF Limits!HasRoom, Limits!CountInWindow
    <3>2. ASSUME NEW c \in Limits!Buckets
          PROVE  /\ c \in PaidBefore[q2] => c = b
                 /\ c \notin Admitted[q2] /\ c \notin DayToCome[q2] /\ c \notin ToPay[q]
      BY <1>1, <1>2, <1>3, <2>1, SetsAre
    <3>3. ASSUME NEW c \in Limits!Buckets, c.window = DayLength,
                 Limits!Quarter(c.scope) \in Limits!Buckets
          PROVE  c # b
      <4>1. c.scope \in QuarterScopes
        BY <3>3, BucketsAre DEF Limits!Quarter, Limits!Bucket
      <4>2. b.scope \in ReservedScopes
        BY <1>3, BucketsAre
      <4> QED BY <4>1, <4>2 DEF QuarterScopes, ReservedScopes
    <3> QED BY <3>1, <3>2, <3>3, <1>3 DEF Balanced, One
  <2> QED BY <2>3, <2>4 DEF BalancedStep
<1>5. CASE ~ Limits!HasRoom(Limits!CountInWindow(r, b), b)
  <2>1. Limits!End(r) /\ UNCHANGED <<quarter, counters, spent, lost, begun>>
    BY <1>5 DEF Limits!Reserve
  <2>2. lost' = Bumped(lost, {}, q)
    BY <1>1, <2>1, NothingBumped DEF LimitsTyped
  <2>3. \A c \in Limits!Buckets : c \notin ToPay[q]
    BY <1>1, <1>2, SetsAre
  <2> QED BY <1>1, <2>1, <2>2, <2>3, EndSteps
<1> QED BY <1>4, <1>5

LEMMA CheckSteps ==
    ASSUME LimitsInv, NEW r \in Requests, Limits!Check(r)
    PROVE  BalancedStep(r)
<1> DEFINE q == limitRequests[r]
           l == q.limiter
<1>1. LimitsTyped /\ q.at = "check" /\ q.at # "idle"
  BY DEF LimitsInv, Limits!Check, Limits!In
<1>2. /\ q \in Queries /\ q # Limits!AtRest /\ Sensible(q) /\ q.time <= quarter
      /\ l \in Offered /\ WellFormed(l) /\ l.counted \in Seq(Limits!Buckets)
      /\ Limits!ToSet(l.counted) \subseteq Limits!Buckets \ Limits!Reserved
      /\ q.todo \in Seq(Limits!Buckets) /\ InOrder(q.todo) /\ q.throttled = FALSE /\ q.worked = FALSE
      /\ \A c \in Limits!Buckets : Limits!Window(r, c) = WindowOf(q, c)
      /\ Limits!ToSet(q.todo) \subseteq Limits!ToSet(l.counted)
  BY <1>1, InFlightIs DEF Sensible, Queries
<1>3. UNCHANGED <<quarter, counters, spent, lost, begun>>
  BY DEF Limits!Check
<1>4. \A b \in Limits!Buckets : b \notin ToPay[q]
  BY <1>1, <1>2, SetsAre
\* The decision, by whether a bucket is full.
<1>5. ASSUME NEW throttled \in BOOLEAN, Limits!Become(r, Limits!Decided(r, throttled)),
             throttled <=> q.todo # <<>>
      PROVE  BalancedStep(r)
  <2>1. CASE throttled /\ "throttled" \notin l.charges
    <3>1. Limits!End(r)
      BY <1>5, <2>1 DEF Limits!Decided, Limits!End
    <3>2. lost' = Bumped(lost, {}, q)
      BY <1>1, <1>3, NothingBumped DEF LimitsTyped
    <3> QED BY <1>1, <1>3, <1>4, <3>1, <3>2, EndSteps
  <2>2. CASE ~ (throttled /\ "throttled" \notin l.charges)
    <3> DEFINE q2 == [q EXCEPT !.at = IF throttled \/ l.first THEN "charge" ELSE "work",
                               !.todo = l.counted, !.throttled = throttled]
    <3>1. /\ q2 \in Queries /\ q2.at = (IF throttled \/ l.first THEN "charge" ELSE "work")
          /\ q2.limiter = l /\ q2.time = q.time /\ q2.todo = l.counted
          /\ q2.throttled = throttled /\ q2.worked = FALSE
      BY <1>2 DEF Queries
    <3>2. limitRequests' = [limitRequests EXCEPT ![r] = q2]
      BY <1>5, <2>2 DEF Limits!Decided, Limits!Become
    <3> HIDE DEF q2
    <3>3. Sensible(q2)
      <4>1. q2.at = "charge" => l.counted # <<>>
        <5>1. l.counted = <<>> => q.todo = <<>>
          BY <1>2, ToSetOf
        <5> QED BY <1>2, <1>5, <3>1, <5>1 DEF WellFormed
      <4> QED BY <1>2, <3>1, <4>1 DEF Sensible, WellFormed
    <3>4. Balanced(q, q2, {}, {}, {})
      <4>1. ASSUME NEW b \in Limits!Buckets
            PROVE  /\ b \in PaidBefore[q2] => b \in PaidBefore[q]
                   /\ b \in Admitted[q2] => b \in Admitted[q]
        <5>1. q.todo = <<>> => b \notin Limits!ToSet(q.todo)
          BY DEF Limits!ToSet
        <5>2. b \in PaidBefore[q2] => b \in PaidBefore[q]
          BY <1>1, <1>2, <1>5, <3>1, <5>1, SetsAre
        <5>3. b \in Admitted[q2] => b \in Admitted[q]
          BY <1>1, <1>2, <1>5, <3>1, <5>1, SetsAre
        <5> QED BY <5>2, <5>3
      <4>2. ASSUME NEW d \in Limits!Buckets, d.window = DayLength,
                   Limits!Quarter(d.scope) \in Limits!Buckets
            PROVE  d \notin DayToCome[q2]
        BY <1>2, <3>1, <4>2, SetsAre, DaysHaveQuarters
      <4> QED BY <1>4, <4>1, <4>2 DEF Balanced, One
    <3> QED BY <1>1, <1>2, <1>3, <3>1, <3>2, <3>3, <3>4, MovesOn
  <2> QED BY <2>1, <2>2
<1>6. CASE q.todo = <<>>
  BY <1>5, <1>6 DEF Limits!Check
<1>7. CASE q.todo # <<>> /\ Limits!IsThrottled(Limits!CountInWindow(r, Head(q.todo)), Head(q.todo))
  BY <1>5, <1>7 DEF Limits!Check
<1>8. CASE q.todo # <<>> /\ ~ Limits!IsThrottled(Limits!CountInWindow(r, Head(q.todo)), Head(q.todo))
  <2> DEFINE b == Head(q.todo)
             q2 == [q EXCEPT !.todo = Tail(q.todo)]
  <2>1. /\ Tail(q.todo) \in Seq(Limits!Buckets) /\ InOrder(Tail(q.todo)) /\ b \in Limits!ToSet(q.todo)
        /\ Limits!ToSet(Tail(q.todo)) = Limits!ToSet(q.todo) \ {b}
    BY <1>2, <1>8, TailOf
  <2>2. /\ q2 \in Queries /\ q2.at = "check" /\ q2.limiter = l /\ q2.time = q.time
        /\ q2.todo = Tail(q.todo) /\ q2.throttled = FALSE /\ q2.worked = FALSE
    BY <1>1, <1>2, <2>1 DEF Queries
  <2>3. limitRequests' = [limitRequests EXCEPT ![r] = q2]
    BY <1>8 DEF Limits!Check, Limits!Become
  <2> HIDE DEF q2
  <2>4. Sensible(q2)
    BY <1>2, <2>1, <2>2 DEF Sensible
  <2>5. b \in Limits!Buckets /\ b \notin Limits!Reserved
    BY <1>2, <2>1
  <2>6. counters[b][WindowOf(q, b)] < Limits!LimitOf(b)
    <3>1. ~ (counters[b][WindowOf(q, b)] >= Limits!LimitOf(b))
      BY <1>2, <1>8, <2>5 DEF Limits!IsThrottled, Limits!CountInWindow
    <3>2. counters[b][WindowOf(q, b)] \in Nat /\ Limits!LimitOf(b) \in Nat
      BY <1>1, <1>2, <2>5, WindowsBegin, CountsAreNumbers, BucketsAre DEF LimitsTyped
    <3> QED BY <3>1, <3>2
  <2>7. ASSUME NEW c \in Limits!Buckets
        PROVE  /\ c \in PaidBefore[q2] => c \in PaidBefore[q]
               /\ c \in Admitted[q2] => c \in Admitted[q] \/ c = b
               /\ c \notin DayToCome[q2]
    BY <1>1, <1>2, <2>1, <2>2, SetsAre
  <2>8. Balanced(q, q2, {}, {}, {})
    BY <1>2, <1>4, <2>5, <2>6, <2>7 DEF Balanced, One
  <2> QED BY <1>1, <1>2, <1>3, <2>2, <2>3, <2>4, <2>8, MovesOn
<1> QED BY <1>6, <1>7, <1>8

LEMMA WorkSteps ==
    ASSUME LimitsInv, NEW r \in Requests, Limits!Work(r)
    PROVE  BalancedStep(r)
<1> DEFINE q == limitRequests[r]
           l == q.limiter
<1>1. LimitsTyped /\ q.at = "work" /\ q.at # "idle"
  BY DEF LimitsInv, Limits!Work, Limits!In
<1>2. /\ q \in Queries /\ q # Limits!AtRest /\ Sensible(q) /\ q.time <= quarter
      /\ l \in Offered /\ WellFormed(l) /\ l.counted \in Seq(Limits!Buckets)
      /\ Limits!ToSet(l.counted) \subseteq Limits!Buckets \ Limits!Reserved
      /\ l.reserved \in Seq(Limits!Reserved) /\ Limits!ToSet(l.reserved) \subseteq Limits!Reserved
      /\ q.throttled = FALSE /\ q.worked = FALSE
      /\ \A c \in Limits!Buckets : Limits!Window(r, c) = WindowOf(q, c)
  BY <1>1, InFlightIs DEF Sensible, Queries
<1>3. PICK outcome \in {"success", "failure"} :
        LET charged == outcome \in l.charges
            due == l.reserved \o IF charged THEN l.counted ELSE <<>>
        IN  /\ spent' = [b \in Limits!Buckets |->
                           IF b \in Limits!ToSet(due) THEN [spent[b] EXCEPT ![Limits!Window(r, b)] = @ + 1]
                           ELSE spent[b]]
            /\ IF charged /\ ~ l.first
               THEN Limits!Become(r, [q EXCEPT !.at = "charge", !.todo = l.counted, !.worked = TRUE])
               ELSE Limits!End(r)
  BY DEF Limits!Work
<1> DEFINE charged == outcome \in l.charges
           S == Limits!ToSet(l.reserved) \cup (IF charged THEN Limits!ToSet(l.counted) ELSE {})
<1>4. S \subseteq Limits!Buckets
  BY <1>2, BucketsAre
<1>5. spent' = Bumped(spent, S, q)
  <2>1. Limits!ToSet(l.reserved \o IF charged THEN l.counted ELSE <<>>) = S
    <3>1. l.reserved \in Seq(Limits!Buckets) /\ <<>> \in Seq(Limits!Buckets)
      BY <1>2, BucketsAre
    <3>2. Limits!ToSet(l.reserved \o l.counted) = Limits!ToSet(l.reserved) \cup Limits!ToSet(l.counted)
      BY <1>2, <3>1, ToSetOf
    <3>3. Limits!ToSet(l.reserved \o <<>>) = Limits!ToSet(l.reserved) \cup {}
      BY <3>1, ToSetOf
    <3> QED BY <3>2, <3>3
  <2>2. spent' = [b \in Limits!Buckets |->
                    IF b \in S THEN [spent[b] EXCEPT ![Limits!Window(r, b)] = @ + 1] ELSE spent[b]]
    BY <1>3, <2>1
  <2> HIDE DEF S
  <2> QED BY <1>2, <2>2 DEF Bumped
<1>6. UNCHANGED <<quarter, counters, lost, begun>>
  BY DEF Limits!Work
<1>7. counters' = Bumped(counters, {}, q) /\ lost' = Bumped(lost, {}, q)
  BY <1>1, <1>6, NothingBumped DEF LimitsTyped
<1>8. ASSUME NEW b \in Limits!Buckets
      PROVE  /\ b \in PaidBefore[q] <=> \/ b \in Limits!ToSet(l.reserved)
                                        \/ l.first /\ b \in Limits!ToSet(l.counted)
             /\ b \in Admitted[q] <=> b \in Limits!ToSet(l.counted)
             /\ b \notin ToPay[q] /\ b \notin DayToCome[q]
  BY <1>1, <1>2, SetsAre
<1>9. CASE charged /\ ~ l.first
  <2> DEFINE q2 == [q EXCEPT !.at = "charge", !.todo = l.counted, !.worked = TRUE]
  <2>1. /\ q2 \in Queries /\ q2.at = "charge" /\ q2.limiter = l /\ q2.time = q.time
        /\ q2.todo = l.counted /\ q2.throttled = FALSE /\ q2.worked = TRUE
    BY <1>2 DEF Queries
  <2>2. limitRequests' = [limitRequests EXCEPT ![r] = q2]
    BY <1>3, <1>9 DEF Limits!Become
  <2> HIDE DEF q2
  <2>3. Sensible(q2)
    BY <1>2, <1>9, <2>1 DEF Sensible, WellFormed
  <2>4. Stepped(r, q2, {}, S, {})
    <3> HIDE DEF S
    <3> QED BY <1>1, <1>2, <1>4, <1>5, <1>6, <1>7, <2>1, <2>2, <2>3 DEF Stepped, LimitRecords, LimitsTyped
  <2>5. Balanced(q, q2, {}, S, {})
    <3>1. ASSUME NEW b \in Limits!Buckets
          PROVE  /\ b \notin PaidBefore[q2] /\ b \notin Admitted[q2]
                 /\ b \in ToPay[q2] <=> b \in Limits!ToSet(l.counted)
      BY <1>2, <1>9, <2>1, SetsAre
    <3>2. ASSUME NEW d \in Limits!Buckets, d.window = DayLength,
                 Limits!Quarter(d.scope) \in Limits!Buckets
          PROVE  d \notin DayToCome[q2]
      BY <1>2, <2>1, <3>2, SetsAre, DaysHaveQuarters
    <3> QED BY <1>2, <1>8, <1>9, <3>1, <3>2 DEF Balanced, One
  <2> QED BY <2>4, <2>5 DEF BalancedStep
<1>10. CASE ~ (charged /\ ~ l.first)
  <2>1. limitRequests' = [limitRequests EXCEPT ![r] = Limits!AtRest]
    BY <1>3, <1>10 DEF Limits!End, Limits!Become
  <2>2. Stepped(r, Limits!AtRest, {}, S, {})
    <3> HIDE DEF S
    <3> QED BY <1>1, <1>2, <1>4, <1>5, <1>6, <1>7, <2>1 DEF Stepped, LimitRecords, LimitsTyped
  <2>3. Balanced(q, Limits!AtRest, {}, S, {})
    <3>1. \A b : /\ b \notin PaidBefore[Limits!AtRest] /\ b \notin ToPay[Limits!AtRest]
                 /\ b \notin Admitted[Limits!AtRest] /\ b \notin DayToCome[Limits!AtRest]
      BY RestIsRest
    <3> QED BY <1>2, <1>8, <1>10, <3>1 DEF Balanced, One
  <2> QED BY <2>2, <2>3 DEF BalancedStep
<1> QED BY <1>9, <1>10

LEMMA ChargeSteps ==
    ASSUME LimitsInv, NEW r \in Requests, Limits!Charge(r)
    PROVE  BalancedStep(r)
<1> DEFINE q == limitRequests[r]
           l == q.limiter
           b == Head(q.todo)
<1>1. LimitsTyped /\ q.at = "charge" /\ q.at # "idle"
  BY DEF LimitsInv, Limits!Charge, Limits!In
<1>2. /\ q \in Queries /\ q # Limits!AtRest /\ Sensible(q) /\ q.time <= quarter
      /\ l \in Offered /\ WellFormed(l)
      /\ Limits!ToSet(l.counted) \subseteq Limits!Buckets \ Limits!Reserved
      /\ q.todo \in Seq(Limits!Buckets) /\ InOrder(q.todo) /\ q.todo # <<>>
      /\ Limits!ToSet(q.todo) \subseteq Limits!ToSet(l.counted)
      /\ q.throttled \in BOOLEAN /\ q.worked \in BOOLEAN
      /\ q.throttled \/ (q.worked <=> ~ l.first)
      /\ \A c \in Limits!Buckets : Limits!Window(r, c) = WindowOf(q, c)
  BY <1>1, InFlightIs DEF Sensible
<1>3. /\ Tail(q.todo) \in Seq(Limits!Buckets) /\ InOrder(Tail(q.todo)) /\ b \in Limits!ToSet(q.todo)
      /\ Limits!ToSet(Tail(q.todo)) = Limits!ToSet(q.todo) \ {b}
      /\ Len(q.todo) > 1 => Tail(q.todo) # <<>> /\ Len(q.todo) # 1
      /\ ~ (Len(q.todo) > 1) => Len(q.todo) = 1 /\ \A c \in Limits!ToSet(q.todo) : c = b
      /\ \A c \in Limits!ToSet(q.todo) : c.window = 1 /\ c.scope = b.scope => c = b
  BY <1>2, TailOf
<1>4. b \in Limits!Buckets /\ b \notin Limits!Reserved
  BY <1>2, <1>3
<1>5. /\ counters' = Bumped(counters, {b}, q)
      /\ UNCHANGED <<quarter, spent, lost, begun>>
  <2>1. counters' = [counters EXCEPT ![b][WindowOf(q, b)] = @ + 1]
    BY <1>2, <1>4 DEF Limits!Charge, Limits!ChargedWindow, Limits!IncrementCeremonyRateLimit
  <2>2. UNCHANGED <<quarter, spent, lost, begun>>
    BY DEF Limits!Charge
  <2> QED BY <1>1, <1>4, <2>1, <2>2 DEF Bumped, LimitsTyped
<1>6. spent' = Bumped(spent, {}, q) /\ lost' = Bumped(lost, {}, q)
  BY <1>1, <1>5, NothingBumped DEF LimitsTyped
\* What becomes of it counts as the balance asks.
<1>7. ASSUME NEW q2 \in LimitRecords,
             \A c \in Limits!Buckets :
               /\ c \in PaidBefore[q2] => (c = b /\ ~ q.worked) \/ c \in PaidBefore[q]
               /\ c \in ToPay[q] => c = b \/ c \in ToPay[q2]
               /\ c \in Admitted[q2] => c \in Admitted[q]
               /\ c \in DayToCome[q2] => /\ c \in Limits!ToSet(q.todo) /\ c # b
                                         /\ Limits!Quarter(c.scope) # b =>
                                              Limits!Quarter(c.scope) \notin Limits!ToSet(q.todo)
      PROVE  Balanced(q, q2, {b}, {}, {})
  <2>1. ASSUME NEW c \in Limits!Buckets
        PROVE  One(c, PaidBefore[q2]) + One(c, ToPay[q]) <= One(c, {b}) + One(c, ToPay[q2]) + One(c, PaidBefore[q])
    <3>1. c \in ToPay[q] => q.worked
      BY <1>2, SetsAre
    <3>2. b \notin PaidBefore[q] \/ c # b
      BY <1>1, <1>2, <1>3, <1>4, SetsAre
    <3> QED BY <1>7, <3>1, <3>2 DEF One
  <2>2. ASSUME NEW d \in Limits!Buckets, d.window = DayLength, Limits!Quarter(d.scope) \in Limits!Buckets
        PROVE  One(d, {b}) + One(d, DayToCome[q2]) <= One(Limits!Quarter(d.scope), {b}) + One(d, DayToCome[q])
    <3> DEFINE o == Limits!Quarter(d.scope)
    <3>1. o.window = 1 /\ o.scope = d.scope /\ o # d
      BY <2>2, LimitConstants DEF Limits!Quarter, Limits!Bucket
    <3>2. d \in DayToCome[q] <=> d \in Limits!ToSet(q.todo) /\ o \notin Limits!ToSet(q.todo)
      BY <1>1, <1>2, SetsAre
    <3>3. d = b => d \in DayToCome[q]
      BY <1>3, <3>1, <3>2
    <3> HIDE DEF o
    <3>4. d \in DayToCome[q2] => d # b /\ (o # b => d \in DayToCome[q])
      BY <1>7, <3>2 DEF o
    <3> QED BY <3>3, <3>4 DEF One, o
  <2> QED BY <1>4, <1>7, <2>1, <2>2 DEF Balanced, One
<1>8. CASE Len(q.todo) > 1
  <2> DEFINE q2 == [q EXCEPT !.todo = Tail(q.todo)]
  <2>1. /\ q2 \in Queries /\ q2.at = "charge" /\ q2.limiter = l /\ q2.time = q.time
        /\ q2.todo = Tail(q.todo) /\ q2.throttled = q.throttled /\ q2.worked = q.worked
    BY <1>1, <1>2, <1>3 DEF Queries
  <2>2. limitRequests' = [limitRequests EXCEPT ![r] = q2]
    <3>1. Len(q.todo) # 1
      BY <1>3, <1>8
    <3>2. Limits!Become(r, [q EXCEPT !.todo = Tail(q.todo)])
      BY <1>8, <3>1 DEF Limits!Charge
    <3> QED BY <3>2 DEF Limits!Become
  <2> HIDE DEF q2
  <2>3. Sensible(q2)
    <3>1. q2.todo # <<>> /\ Limits!ToSet(q2.todo) \subseteq Limits!ToSet(l.counted)
      <4>1. Tail(q.todo) # <<>>
        BY <1>3, <1>8
      <4> QED BY <1>2, <1>3, <2>1, <4>1
    <3> QED BY <1>1, <1>2, <1>3, <2>1, <3>1 DEF Sensible
  <2>4. Stepped(r, q2, {b}, {}, {})
    BY <1>1, <1>2, <1>4, <1>5, <1>6, <2>1, <2>2, <2>3 DEF Stepped, LimitRecords, LimitsTyped
  <2>5. ASSUME NEW c \in Limits!Buckets
        PROVE  /\ c \in PaidBefore[q2] => (c = b /\ ~ q.worked) \/ c \in PaidBefore[q]
               /\ c \in ToPay[q] => c = b \/ c \in ToPay[q2]
               /\ c \in Admitted[q2] => c \in Admitted[q]
               /\ c \in DayToCome[q2] => /\ c \in Limits!ToSet(q.todo) /\ c # b
                                         /\ Limits!Quarter(c.scope) # b =>
                                              Limits!Quarter(c.scope) \notin Limits!ToSet(q.todo)
    BY <1>1, <1>2, <1>3, <2>1, SetsAre
  <2>6. Balanced(q, q2, {b}, {}, {})
    BY <1>7, <2>1, <2>5 DEF LimitRecords
  <2> QED BY <2>4, <2>6 DEF BalancedStep
<1>9. CASE Len(q.todo) = 1 /\ (q.throttled \/ q.worked)
  <2>1. limitRequests' = [limitRequests EXCEPT ![r] = Limits!AtRest]
    BY <1>9 DEF Limits!Charge, Limits!End, Limits!Become
  <2>2. Stepped(r, Limits!AtRest, {b}, {}, {})
    BY <1>1, <1>2, <1>4, <1>5, <1>6, <2>1 DEF Stepped, LimitRecords, LimitsTyped
  <2>3. \A c : /\ c \notin PaidBefore[Limits!AtRest] /\ c \notin ToPay[Limits!AtRest]
               /\ c \notin Admitted[Limits!AtRest] /\ c \notin DayToCome[Limits!AtRest]
    BY RestIsRest
  <2>4. \A c \in Limits!ToSet(q.todo) : c = b
    <3>1. ~ (Len(q.todo) > 1)
      BY <1>9
    <3> QED BY <1>3, <3>1
  <2>5. \A c \in Limits!Buckets : c \in ToPay[q] => c = b
    BY <1>2, <2>4, SetsAre
  <2>6. Balanced(q, Limits!AtRest, {b}, {}, {})
    BY <1>7, <2>3, <2>5 DEF LimitRecords
  <2> QED BY <2>2, <2>6 DEF BalancedStep
<1>10. CASE ~ (Len(q.todo) > 1) /\ ~ (Len(q.todo) = 1 /\ (q.throttled \/ q.worked))
  <2> DEFINE q2 == [q EXCEPT !.at = "work"]
  <2>1. /\ q2 \in Queries /\ q2.at = "work" /\ q2.limiter = l /\ q2.time = q.time
        /\ q2.todo = q.todo /\ q2.throttled = q.throttled /\ q2.worked = q.worked
    BY <1>2 DEF Queries
  <2>2. limitRequests' = [limitRequests EXCEPT ![r] = q2]
    BY <1>10 DEF Limits!Charge, Limits!Become
  <2> HIDE DEF q2
  <2>3. q.throttled = FALSE /\ q.worked = FALSE /\ l.first /\ l.reserved = <<>>
    BY <1>2, <1>3, <1>10 DEF WellFormed
  <2>4. Sensible(q2)
    BY <1>2, <2>1, <2>3 DEF Sensible
  <2>5. Stepped(r, q2, {b}, {}, {})
    BY <1>1, <1>2, <1>4, <1>5, <1>6, <2>1, <2>2, <2>4 DEF Stepped, LimitRecords, LimitsTyped
  <2>6. \A c \in Limits!ToSet(q.todo) : c = b
    BY <1>3, <1>10
  <2>7. Limits!ToSet(<<>>) = {}
    BY DEF Limits!ToSet
  <2>8. ASSUME NEW c \in Limits!Buckets
        PROVE  /\ c \in PaidBefore[q2] => (c = b /\ ~ q.worked) \/ c \in PaidBefore[q]
               /\ c \notin ToPay[q] /\ c \notin DayToCome[q2]
               /\ c \in Admitted[q2] => c \in Admitted[q]
    BY <1>1, <1>2, <2>1, <2>3, <2>6, <2>7, SetsAre
  <2>9. Balanced(q, q2, {b}, {}, {})
    BY <1>7, <2>1, <2>8 DEF LimitRecords
  <2> QED BY <2>5, <2>9 DEF BalancedStep
<1> QED BY <1>8, <1>9, <1>10

LEMMA StopSteps ==
    ASSUME LimitsInv, NEW r \in Requests, Limits!Stop(r)
    PROVE  BalancedStep(r)
<1> DEFINE q == limitRequests[r]
           L == IF q.at = "charge" /\ q.worked THEN Limits!ToSet(q.todo) ELSE {}
<1>1. LimitsTyped /\ q.at # "idle"
  BY DEF LimitsInv, Limits!Stop, Limits!In
<1>2. /\ q \in Queries /\ Sensible(q)
      /\ Limits!ToSet(q.limiter.counted) \subseteq Limits!Buckets \ Limits!Reserved
      /\ \A c \in Limits!Buckets : Limits!Window(r, c) = WindowOf(q, c)
  BY <1>1, InFlightIs
<1>3. L \subseteq Limits!Buckets \ Limits!Reserved
  BY <1>2 DEF Sensible
<1>4. \A b \in Limits!Buckets : b \in ToPay[q] => b \in L
  BY <1>2, SetsAre
<1>5. lost' = Bumped(lost, L, q)
  <2>1. lost' = [b \in Limits!Buckets |->
                   IF b \in L THEN [lost[b] EXCEPT ![Limits!Window(r, b)] = @ + 1] ELSE lost[b]]
    BY DEF Limits!Stop, Limits!In
  <2> HIDE DEF L
  <2> QED BY <1>2, <2>1 DEF Bumped
<1>6. Limits!End(r) /\ UNCHANGED <<quarter, counters, spent, begun>>
  BY DEF Limits!Stop
<1> HIDE DEF L
<1> QED BY <1>1, <1>3, <1>4, <1>5, <1>6, EndSteps

-----------------------------------------------------------------------------
(* The theorem.                                                            *)

LEMMA LimitsStart ==
    ASSUME Limits!Init
    PROVE  LimitsInv
<1>1. /\ counters = [b \in Limits!Buckets |-> [t \in 0..MaxQuarter |-> 0]]
      /\ spent = counters /\ lost = counters
      /\ limitRequests = [r \in Requests |-> Limits!AtRest] /\ quarter = 0 /\ begun = 0
  BY DEF Limits!Init
<1>2. \A b \in Limits!Buckets, t \in 0..MaxQuarter :
        counters[b][t] = 0 /\ spent[b][t] = 0 /\ lost[b][t] = 0
  BY <1>1
<1>3. LimitsTyped
  <2>1. [b \in Limits!Buckets |-> [t \in 0..MaxQuarter |-> 0]] \in [Limits!Buckets -> [0..MaxQuarter -> Nat]]
    OBVIOUS
  <2> QED BY <1>1, <1>2, <2>1, LimitConstants DEF LimitsTyped
<1>4. \A M, b, t : M[Limits!AtRest] = {} => Cardinality(InFlight(M, limitRequests, b, t)) = 0
  <2> TAKE M, b, t
  <2> HAVE M[Limits!AtRest] = {}
  <2>1. InFlight(M, limitRequests, b, t) = {}
    BY <1>1 DEF InFlight
  <2> QED BY <2>1, FS_EmptySet
<1>5. Cardinality(Requests) \in Nat
  BY LimitConstants, FS_CardinalityType
<1>6. \A b \in Limits!Buckets : Limits!LimitOf(b) \in Nat /\ Limits!LimitOf(b) > 0
  BY BucketsAre
<1>7. Limits!Reserved \subseteq Limits!Buckets
  BY BucketsAre
<1>8. DaysFollow
  <2> SUFFICES ASSUME NEW d \in Limits!Buckets, NEW t \in 0..MaxQuarter,
                      Limits!Quarter(d.scope) \in Limits!Buckets
               PROVE  counters[d][t] + Cardinality(InFlight(DayToCome, limitRequests, d, t))
                        <= Cardinality(Limits!Attempts(counters[Limits!Quarter(d.scope)], t))
    BY DEF DaysFollow
  <2>1. counters[Limits!Quarter(d.scope)] \in [0..MaxQuarter -> Nat]
    BY <1>3 DEF LimitsTyped
  <2>2. Cardinality(Limits!Attempts(counters[Limits!Quarter(d.scope)], t)) \in Nat
    BY <2>1, AttemptsAreFinite
  <2>3. counters[d][t] = 0 /\ Cardinality(InFlight(DayToCome, limitRequests, d, t)) = 0
    BY <1>2, <1>4, RestIsRest
  <2> QED BY <2>2, <2>3
<1>9. WorkIsCounted /\ ReservationsFit /\ AdmissionsFit
  BY <1>2, <1>4, <1>5, <1>6, <1>7, RestIsRest DEF WorkIsCounted, ReservationsFit, AdmissionsFit
<1> QED BY <1>3, <1>8, <1>9 DEF LimitsInv

LEMMA LimitsStep ==
    ASSUME LimitsInv, [Limits!Next]_(Limits!vars)
    PROVE  LimitsInv'
<1>1. ASSUME NEW r \in Requests, BalancedStep(r) PROVE LimitsInv'
  BY <1>1, BalanceKeeps DEF BalancedStep
<1>2. CASE UNCHANGED Limits!vars
  BY <1>2 DEF Limits!vars, LimitsInv, LimitsTyped, WorkIsCounted, ReservationsFit, AdmissionsFit, DaysFollow
<1>3. CASE Limits!Tick
  <2>1. UNCHANGED <<counters, limitRequests, spent, lost, begun>>
    BY <1>3 DEF Limits!Tick
  <2>2. quarter' \in 0..MaxQuarter /\ quarter <= quarter' /\ quarter \in Nat /\ quarter' \in Nat
    BY <1>3, LimitConstants DEF Limits!Tick, LimitsInv, LimitsTyped
  <2>3. LimitsTyped'
    <3>1. \A b \in Limits!Buckets, t \in 0..MaxQuarter :
            counters[b][t] > 0 => t % b.window = 0 /\ t <= quarter'
      BY <2>2, LimitConstants DEF LimitsInv, LimitsTyped
    <3>2. \A r \in Requests : limitRequests[r] # Limits!AtRest =>
            Sensible(limitRequests[r]) /\ limitRequests[r].time <= quarter'
      <4> TAKE r \in Requests
      <4> HAVE limitRequests[r] # Limits!AtRest
      <4>1. Sensible(limitRequests[r]) /\ limitRequests[r].time <= quarter /\ limitRequests[r].time \in 0..MaxQuarter
        BY DEF LimitsInv, LimitsTyped, Queries
      <4> QED BY <2>2, <4>1, LimitConstants
    <3> QED BY <2>1, <2>2, <3>1, <3>2 DEF LimitsInv, LimitsTyped
  <2> QED BY <2>1, <2>3 DEF LimitsInv, WorkIsCounted, ReservationsFit, AdmissionsFit, DaysFollow
<1>4. CASE \E r \in Requests : \/ Limits!Begin(r) \/ Limits!Reserve(r) \/ Limits!Check(r)
                               \/ Limits!Work(r) \/ Limits!Charge(r) \/ Limits!Stop(r)
  BY <1>1, <1>4, BeginSteps, ReserveSteps, CheckSteps, WorkSteps, ChargeSteps, StopSteps
<1> QED BY <1>2, <1>3, <1>4 DEF Limits!Next

LEMMA LimitsInvSuffices ==
    ASSUME LimitsInv
    PROVE  LimitsHold
<1>1. Limits!TypeOK
  BY RestIsRest, CountsAreNumbers DEF LimitsInv, LimitsTyped, Limits!TypeOK, Limits!CounterRows
<1>2. \A b \in Limits!Buckets, t \in 0..MaxQuarter :
        /\ counters[b][t] \in Nat /\ spent[b][t] \in Nat /\ lost[b][t] \in Nat
  BY CountsAreNumbers DEF LimitsInv, LimitsTyped
<1>3. \A r \in Requests : limitRequests[r] \in LimitRecords
  BY DEF LimitsInv, LimitsTyped, LimitRecords
<1>4. ASSUME NEW M \in {PaidBefore, ToPay, Admitted, DayToCome}, NEW b, NEW t
      PROVE  Cardinality(InFlight(M, limitRequests, b, t)) \in Nat
  <2>1. InFlight(M, limitRequests, b, t) \in SUBSET Requests
    BY DEF InFlight
  <2> QED BY <2>1, LimitConstants, FS_Subset, FS_CardinalityType
<1>5. Limits!ReservedWithinLimit
  <2> SUFFICES ASSUME NEW b \in Limits!Reserved, NEW t \in 0..MaxQuarter
               PROVE  spent[b][t] <= Limits!LimitOf(b)
    BY DEF Limits!ReservedWithinLimit
  <2>1. b \in Limits!Buckets /\ Limits!LimitOf(b) \in Nat
    BY BucketsAre
  <2>2. InFlight(ToPay, limitRequests, b, t) = {}
    <3>1. ASSUME NEW r \in Requests PROVE b \notin ToPay[limitRequests[r]]
      <4>1. CASE limitRequests[r] = Limits!AtRest
        BY <4>1, RestIsRest
      <4>2. CASE limitRequests[r] \in Queries
        <5>1. limitRequests[r].at # "idle" /\ LimitsTyped
          BY <4>2, RestIsRest DEF LimitsInv
        <5>2. b \notin Limits!ToSet(limitRequests[r].todo)
          BY <5>1, InFlightIs DEF Sensible
        <5> QED BY <2>1, <4>2, <5>2, SetsAre
      <4> QED BY <1>3, <4>1, <4>2 DEF LimitRecords
    <3> QED BY <3>1 DEF InFlight
  <2>3. Cardinality(InFlight(ToPay, limitRequests, b, t)) = 0
    BY <2>2, FS_EmptySet
  <2> QED BY <1>2, <1>4, <2>1, <2>3 DEF LimitsInv, WorkIsCounted, ReservationsFit
<1>6. Limits!OvershootIsBounded
  <2> SUFFICES ASSUME NEW b \in Limits!Buckets \ Limits!Reserved, NEW t \in 0..MaxQuarter
               PROVE  spent[b][t] <= Limits!LimitOf(b) - 1 + Cardinality(Requests) + lost[b][t]
    BY LimitSets DEF Limits!OvershootIsBounded
  <2>1. Limits!LimitOf(b) \in Nat /\ Cardinality(Requests) \in Nat
    BY BucketsAre, LimitConstants, FS_CardinalityType
  <2> QED BY <1>2, <1>4, <2>1 DEF LimitsInv, AdmissionsFit
<1>7. Limits!DayCoversItsQuarters
  <2> SUFFICES ASSUME NEW d \in Limits!Buckets, d.window = DayLength,
                      Limits!Quarter(d.scope) \in Limits!Buckets,
                      NEW t \in 0..MaxQuarter, t % DayLength = 0
               PROVE  counters[d][t] <= Cardinality(Limits!Attempts(counters[Limits!Quarter(d.scope)], t))
    BY LimitSets DEF Limits!DayCoversItsQuarters
  <2>1. counters[Limits!Quarter(d.scope)] \in [0..MaxQuarter -> Nat]
    BY DEF LimitsInv, LimitsTyped
  <2>2. Cardinality(Limits!Attempts(counters[Limits!Quarter(d.scope)], t)) \in Nat
    BY <2>1, AttemptsAreFinite
  <2> QED BY <1>2, <1>4, <2>2 DEF LimitsInv, DaysFollow
<1> QED BY <1>1, <1>5, <1>6, <1>7 DEF LimitsHold

-----------------------------------------------------------------------------
(* The theorems.                                                           *)

\* What is used once is used once, in the set-up (completeInitialPasswordSetup,
\* verifyPasskeyRegistration), in a recovery (verifyRecoveryPasskeyRegistration) and
\* with a passkey (consumeWebAuthnChallenge): every password, passkey, grant and
\* session was paid for with exactly one row, and at most one of an account's grants
\* and ceremonies can still be used.
THEOREM NothingIsEverSpentTwice == MemberSpec => []NothingIsSpentTwice
<1>1. MemberSpec => [](SetupInv /\ RecoveryInv /\ SigningInv)
  <2>1. Setup!Init => SetupInv
    BY SetupStarts
  <2>2. Recovery!Init => RecoveryInv
    BY RecoveryStarts
  <2>3. Signing!Init => SigningInv
    BY SigningStarts
  <2>4. SetupInv /\ [Setup!Next]_Setup!vars => SetupInv'
    BY SetupKept
  <2>5. RecoveryInv /\ [Recovery!Next]_Recovery!vars => RecoveryInv'
    BY RecoveryKept
  <2>6. SigningInv /\ [Signing!Next]_Signing!vars => SigningInv'
    BY SigningKept
  <2> QED BY <2>1, <2>2, <2>3, <2>4, <2>5, <2>6, PTL DEF MemberSpec, Setup!Spec, Recovery!Spec, Signing!Spec
<1>2. SetupInv /\ RecoveryInv /\ SigningInv => NothingIsSpentTwice
  BY SetupImplied, RecoveryImplied, SigningImplied DEF NothingIsSpentTwice
<1> QED BY <1>1, <1>2, PTL

\* A recovery leaves no older code, grant, ceremony or session usable
\* (verifyRecoveryPasskeyRegistration); a passkey that was revoked is not touched again;
\* no sign-in lowers a passkey's counter (updateActivePasskeyCredential).
THEOREM OldProofsNeverOpen == MemberSpec => OldProofsOpenNothing
<1>1. Recovery!Init => RecoveryInv
  BY RecoveryStarts
<1>2. Signing!Init => SigningInv
  BY SigningStarts
<1>3. RecoveryInv /\ [Recovery!Next]_Recovery!vars => RecoveryInv' /\ Recovery!DoorsClose
  BY RecoveryKept
<1>4. SigningInv /\ [Signing!Next]_Signing!vars => SigningInv' /\ Signing!RevokedStays /\ Signing!SignInRaises
  BY SigningKept
<1> QED BY <1>1, <1>2, <1>3, <1>4, PTL DEF MemberSpec, Recovery!Spec, Signing!Spec, OldProofsOpenNothing

\* The set-up refines AccountLifecycle: an account passes its steps in their order, is
\* active only with every factor, and loses none (transitionAccountState,
\* assertActiveRequirements).
THEOREM SetupImplementsLifecycle == MemberSpec => ImplementsLifecycle
<1>1. Setup!Init => SetupInv /\ Setup!Lifecycle!Init
  BY SetupStarts, LifecycleStarts
<1>2. SetupInv /\ [Setup!Next]_Setup!vars => SetupInv' /\ [Setup!Lifecycle!Next]_Setup!Lifecycle!vars
  BY SetupKept DEF LifecycleStep
<1> QED BY <1>1, <1>2, PTL DEF MemberSpec, Setup!Spec, ImplementsLifecycle,
     Setup!ImplementsLifecycle, Setup!Lifecycle!Spec

\* What is reserved is within its limit however many requests race, a limit that is charged
\* later is exceeded only by the requests in flight and the charges that were lost, and a day
\* counts no attempt that its quarters do not.
THEOREM LimitsAlwaysHold == MemberSpec => []LimitsHold
<1>1. Limits!Init => LimitsInv
  BY LimitsStart
<1>2. LimitsInv /\ [Limits!Next]_(Limits!vars) => LimitsInv'
  BY LimitsStep
<1>3. LimitsInv => LimitsHold
  BY LimitsInvSuffices
<1> QED BY <1>1, <1>2, <1>3, PTL DEF MemberSpec, Limits!Spec
=============================================================================
