----------------------------- MODULE MCAccounts -----------------------------
(* Set-up, recovery, passkeys and rate limits of one member's account, for   *)
(* TLC.  The four do not touch each other's rows, so `part` chooses which of *)
(* them runs, and the states are the sum and not the product of theirs.      *)
EXTENDS MemberAccount, FiniteSets, TLC

CONSTANTS r1, r2, k1, k2

MCRequests == {r1, r2}
MCKeys == {k1, k2}
MCCounting == {k1}
Alike == Permutations(MCRequests)

VARIABLE part

vars == <<part, memberVars, limitRows>>

\* Two signatures of one counting passkey, in any order.
Racing == INSTANCE Passkeys WITH
    requests <- passkeyRequests, Backups <- {FALSE},
    MaxTime <- 0, MaxChallenges <- 2, MaxRenames <- 0, MaxSigned <- 2

\* Expiring challenges and backups.
Expiring == INSTANCE Passkeys WITH
    requests <- passkeyRequests,
    MaxTime <- 1, MaxChallenges <- 1, MaxRenames <- 0, MaxSigned <- 1

\* Labels.
Renaming == INSTANCE Passkeys WITH
    requests <- passkeyRequests, Backups <- {FALSE},
    MaxTime <- 0, MaxChallenges <- 1, MaxRenames <- 1, MaxSigned <- 1

\* Bounds: two codes come with one ceremony, and two ceremonies with one code; the
\* grants of both are at most two, but for the three that a whole set-up needs.
SetupOfTwoCodes == Len(setupGrants') <= 2 /\ Len(setupCeremonies') <= 1
SetupOfTwoCeremonies == Len(setupCodes') <= 1
RecoveryOfTwoCodes == Len(recoveryGrants') <= 2 /\ Len(recoveryCeremonies') <= 1
RecoveryOfTwoCeremonies == Len(recoveryGrants') <= 2 /\ Len(recoveryCodes') <= 1

\* The limiters by name.
Catalogue == INSTANCE RateLimits WITH
    Offered <- {}, MaxNow <- MaxQuarter, now <- quarter, rows <- counters, requests <- limitRequests

\* A slot that is reserved before the work, a limit that is charged before it, and
\* limits that are charged when it succeeds, in windows of two lengths.
MCOffered == {Catalogue!PasswordSignIn, Catalogue!MembershipInventory, Catalogue!PasskeyOptions}

ASSUME Racing!PasskeysAssumption /\ Expiring!PasskeysAssumption /\ Renaming!PasskeysAssumption

-----------------------------------------------------------------------------
(* The parts that do not run stay as they begin.                             *)

NoAccount == account = Setup!NoAccount

Init ==
    /\ Setup!Init /\ Recovery!Init /\ Signing!Init /\ Limits!Init
    /\ \/ part \in {"setup", "completing"}
       \/ part \in {"recovery", "recovering", "signing", "expiring", "renaming", "limits"} /\ NoAccount

Next ==
    /\ UNCHANGED part
    /\ \/ /\ part \in {"setup", "completing"} /\ Setup!Next
          /\ IF part = "setup" THEN SetupOfTwoCodes ELSE SetupOfTwoCeremonies
          /\ UNCHANGED <<recoveryRows, passkeyRows, limitRows>>
       \/ /\ part \in {"recovery", "recovering"} /\ Recovery!Next
          /\ IF part = "recovery" THEN RecoveryOfTwoCodes ELSE RecoveryOfTwoCeremonies
          /\ UNCHANGED <<setupRows, passkeyRows, limitRows>>
       \/ /\ part = "signing" /\ Racing!Next
          /\ UNCHANGED <<setupRows, recoveryRows, limitRows>>
       \/ /\ part = "expiring" /\ Expiring!Next
          /\ UNCHANGED <<setupRows, recoveryRows, limitRows>>
       \/ /\ part = "renaming" /\ Renaming!Next
          /\ UNCHANGED <<setupRows, recoveryRows, limitRows>>
       \/ part = "limits" /\ Limits!Next /\ UNCHANGED memberVars

Spec == Init /\ [][Next]_vars
=============================================================================
