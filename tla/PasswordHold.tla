----------------------------- MODULE PasswordHold ---------------------------
(***************************************************************************)
(* What account setup and password change promise, with no requests,       *)
(* handlers or provider in sight: whoever writes an account's password     *)
(* must hold a right to do so, one right of an account is held at a time,  *)
(* it may be used once, and a right that ended never comes back.           *)
(***************************************************************************)

CONSTANTS
    Rights,    \* setup links, or attempts to change a password
    Accounts

VARIABLES
    hold,    \* the stage of each right
    account  \* the account each right is for

holdVars == <<hold, account>>

Holding(r) == hold[r] \in {"open", "written"}

Init ==
    /\ hold = [r \in Rights |-> "free"]
    /\ account \in [Rights -> Accounts]

\* A right that was never taken up may still change hands.
Readdress ==
    /\ account' \in [Rights -> Accounts]
    /\ \A r \in Rights : hold[r] # "free" => account'[r] = account[r]
    /\ UNCHANGED hold

Acquire(r) ==
    /\ hold[r] = "free"
    /\ \A s \in Rights : Holding(s) => account[s] # account[r]
    /\ hold' = [hold EXCEPT ![r] = "open"]
    /\ UNCHANGED account

Write(r) ==
    /\ hold[r] = "open"
    /\ hold' = [hold EXCEPT ![r] = "written"]
    /\ UNCHANGED account

\* Rights end, used or not; one recovery may end several at once.  A right
\* that ended unused is never used later.
Ended(h) == IF h \in {"written", "spent"} THEN "spent" ELSE "closed"

Close(S) ==
    /\ hold' = [r \in Rights |-> IF r \in S THEN Ended(hold[r]) ELSE hold[r]]
    /\ UNCHANGED account

Next ==
    \/ Readdress
    \/ \E r \in Rights : Acquire(r) \/ Write(r)
    \/ \E S \in SUBSET Rights : Close(S)

Spec == Init /\ [][Next]_holdVars
=============================================================================
