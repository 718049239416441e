------------------------- MODULE MembershipPromise --------------------------
(***************************************************************************)
(* What a membership promises, whatever provider pays for it: while it runs *)
(* its time does not shrink; whoever leaves stays a member until that time; *)
(* it ends no earlier than the time it was entered or renewed for; and a    *)
(* purchase that waits for its community becomes a membership for exactly   *)
(* the time paid for.                                                       *)
(***************************************************************************)
EXTENDS Integers

CONSTANT Accounts
VARIABLES time, phase, paidUntil

promiseVars == <<time, phase, paidUntil>>

PromiseInit ==
    /\ phase = [a \in Accounts |-> "outside"]
    /\ time \in Int /\ paidUntil \in [Accounts -> Int]

Pass == time' > time /\ UNCHANGED <<phase, paidUntil>>

Enter(a, from, to) ==
    /\ phase[a] = from
    /\ phase' = [phase EXCEPT ![a] = to]
    /\ UNCHANGED time

Buy(a) == Enter(a, "outside", "waiting")

Bind(a) == Enter(a, "waiting", "member") /\ UNCHANGED paidUntil

Join(a) == Enter(a, "outside", "member")

\* Takes the cancellation back; or a payment or a grant, whose time replaces the other.
Return(a) == Enter(a, "leaving", "member")

Extend(a) ==
    /\ phase[a] = "member" /\ paidUntil'[a] >= paidUntil[a]
    /\ UNCHANGED <<time, phase>>

Leave(a) == Enter(a, "member", "leaving") /\ UNCHANGED paidUntil

End(a) ==
    /\ paidUntil[a] <= time
    /\ Enter(a, "member", "outside") \/ Enter(a, "leaving", "outside")
    /\ UNCHANGED paidUntil

PromiseNext ==
    \/ Pass
    \/ \E a \in Accounts :
        /\ \/ Buy(a) \/ Bind(a) \/ Join(a) \/ Return(a)
           \/ Extend(a) \/ Leave(a) \/ End(a)
        /\ \A b \in Accounts \ {a} : paidUntil'[b] = paidUntil[b]

Promise == PromiseInit /\ [][PromiseNext]_promiseVars
=============================================================================
