---------------------------- MODULE OneTimeRows ----------------------------
(***************************************************************************)
(* The rows that codes, grants and ceremonies share: used once, before they *)
(* expire, unless they are revoked.  A table is the sequence of its rows in *)
(* order of insertion.                                                      *)
(***************************************************************************)
EXTENDS Naturals, Sequences

Row(purpose, now, ttl) ==
    [purpose |-> purpose, created |-> now, expires |-> now + ttl,
     state |-> "active", tries |-> 0]

Usable(row, now) == row.state = "active" /\ now < row.expires

\* The rows that "revoke active ... except" updates.
ToRevoke(table, purpose, now, except) ==
    {i \in DOMAIN table :
        table[i].purpose = purpose /\ Usable(table[i], now) /\ i # except}

\* CHECK (revoked_at >= created_at): the update fails on a younger row.
Revocable(table, S, now) == \A i \in S : table[i].created <= now

SetState(table, S, state) ==
    [i \in DOMAIN table |->
        IF i \in S THEN [table[i] EXCEPT !.state = state] ELSE table[i]]
=============================================================================
