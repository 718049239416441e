-------------------------- MODULE AccountLifecycle --------------------------
(***************************************************************************)
(* What the identity of a member promises, whatever the ceremonies do: an   *)
(* account passes through its set-up in order, is active only with every    *)
(* factor in place, never has two passwords, and a closed account stays so. *)
(***************************************************************************)
EXTENDS Naturals

VARIABLES
    status,     \* accounts.status, "none" before the first request
    factors     \* the set-up factors in place

vars == <<status, factors>>

AllFactors == {"email", "password", "handle", "passkey", "actor"}

\* The factors an account of each status has acquired on its way.
RequiredFactors(s) ==
    CASE s = "pending_password" -> {"email"}
      [] s = "pending_passkey" -> {"email"}
      [] s = "active" -> AllFactors
      [] OTHER -> {}

\* The repair of accounts of the passwordless set-up is the only way back.
ValidTransitions ==
    {<<"none", "pending_email">>,
     <<"pending_email", "pending_password">>,
     <<"pending_password", "pending_passkey">>,
     <<"pending_passkey", "pending_password">>, <<"pending_passkey", "active">>,
     <<"active", "suspended">>, <<"active", "closed">>,
     <<"suspended", "active">>, <<"suspended", "closed">>}

Init ==
    /\ status \in {"none", "pending_passkey"}
    /\ factors \in SUBSET AllFactors
    /\ RequiredFactors(status) \subseteq factors

\* Factors are acquired before activation and never lost by the set-up.
Acquire ==
    /\ status # "active"
    /\ factors' \in SUBSET AllFactors /\ factors \subseteq factors'
    /\ UNCHANGED status

TransitionAccountState ==
    /\ <<status, status'>> \in ValidTransitions
    /\ factors' \in SUBSET AllFactors /\ factors \subseteq factors'
    /\ RequiredFactors(status') \subseteq factors'
    /\ status' = "pending_passkey" => "password" \in factors' \ factors
    /\ <<status, status'>> = <<"pending_passkey", "pending_password">> =>
         "password" \notin factors'

Next == Acquire \/ TransitionAccountState

Spec == Init /\ [][Next]_vars
=============================================================================
