----------------------------- MODULE MCSessions -----------------------------
(* Sessions for TLC, with two passkeys and two requests: `part` chooses which *)
(* operations are requested in a behaviour.                                  *)
EXTENDS Sessions, TLC

CONSTANTS k1, k2, r1, r2

MCKeys == {k1, k2}
MCRequests == {r1, r2}
Alike == Permutations(MCRequests)
AllOperations == SessionOperations \cup Revocations

Endings == {"rotate", "logout", "logoutAll", "suspend"}

VARIABLE part

\* "credentials": changes of the credentials, two requests at one time;
\* "keyEndings", "passwordEndings": all ways a session ends, while the clock moves,
\* for sessions that came from a passkey and for those that came from the password;
\* "presence": proofs of presence and what they allow, one request after the other.
Asked == [credentials |-> SignIns \cup {"changePassword", "options", "addPasskey", "revokePasskey",
                                        "recover"},
          keyEndings |-> {"passkeySignIn"} \cup Endings,
          passwordEndings |-> {"passwordSignIn"} \cup Endings,
          presence |-> SignIns \cup {"visit", "rotate", "changePassword", "options",
                                     "reauthenticate", "addPasskey", "revokePasskey"}]

WithinPart ==
    /\ part = "credentials" => clock = 0
    /\ part = "presence" => \E r \in Requests : \A q \in Requests \ {r} : requests[q] = Idle
    /\ \A r \in Requests : requests[r] = Idle \/ requests[r].op \in Asked[part]

MCInit == Init /\ part \in DOMAIN Asked
MCNext == Next /\ UNCHANGED part /\ WithinPart'
MCSpec == MCInit /\ [][MCNext]_<<vars, part>>
=============================================================================
