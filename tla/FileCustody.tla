----------------------------- MODULE FileCustody -----------------------------
(***************************************************************************)
(* What file retirement promises of stored files, with no locks, sessions  *)
(* or calls under way.  Rows change in whole steps.  In the same step each *)
(* key that a change gives up is retired, if no row names it then, or      *)
(* watched; and a retired key comes back to nobody.                        *)
(***************************************************************************)
CONSTANTS
    Rows, Keys, NoKey,
    Uploads,     \* keys that are uploaded; the others are stored already
    FirstPath,   \* the key each row names at the start
    Owned(_, _)  \* whether a row is of the Person under whose prefix a key lies

VARIABLES
    names,    \* the key each row names
    fate,     \* no, pending or done: whether each key is retired and removed
    watched,  \* keys to be looked at again
    awaited,  \* keys an upload answers for
    stored    \* keys with bytes

Init ==
    /\ names = FirstPath
    /\ fate = [k \in Keys |-> "no"]
    /\ watched = {} /\ awaited = {}
    /\ stored = Keys \ Uploads

Changed == {r \in Rows : names'[r] # names[r]}

\* What the rows of its Person no longer name, unless another comes to name it.
GivenUp ==
    {names[r] : r \in {x \in Changed : Owned(x, names[x])}} \ {names'[r] : r \in Changed}

Ended(K) == [k \in Keys |-> IF k \in K /\ fate[k] = "no" THEN "pending" ELSE fate[k]]

Change ==
    /\ names' \in [Rows -> Keys \cup {NoKey}]
    /\ \A r \in Changed :
        names'[r] = NoKey \/ (Owned(r, names'[r]) /\ fate[names'[r]] = "no")
    /\ \E K \in SUBSET GivenUp :
        /\ \A r \in Rows : names'[r] \notin K
        /\ fate' = Ended(K)
        /\ watched' = (watched \cup GivenUp) \ K
    /\ UNCHANGED <<awaited, stored>>

Expect(k) ==
    /\ fate[k] = "no"
    /\ awaited' = awaited \cup {k}
    /\ UNCHANGED <<names, fate, watched, stored>>

Arrive(k) ==
    /\ k \in awaited /\ fate[k] = "no"
    /\ stored' = stored \cup {k}
    /\ UNCHANGED <<names, fate, watched, awaited>>

\* An upload is over when something else answers for its key.
Settle(k) ==
    /\ fate[k] # "no" \/ k \in watched \/ \E r \in Rows : names[r] = k /\ Owned(r, k)
    /\ awaited' = awaited \ {k}
    /\ UNCHANGED <<names, fate, watched, stored>>

\* An upload that failed or a key looked at again.
Retire(k) ==
    /\ k \in watched \cup awaited
    /\ \A r \in Rows : names[r] # k
    /\ fate' = Ended({k})
    /\ watched' = watched \ {k}
    /\ UNCHANGED <<names, awaited, stored>>

Remove(k) ==
    /\ fate[k] = "pending"
    /\ stored' = stored \ {k}
    /\ UNCHANGED <<names, fate, watched, awaited>>

Finish(k) ==
    /\ fate[k] = "pending" /\ k \notin stored
    /\ fate' = [fate EXCEPT ![k] = "done"]
    /\ UNCHANGED <<names, watched, awaited, stored>>

Next ==
    \/ Change
    \/ \E k \in Keys :
        Expect(k) \/ Arrive(k) \/ Settle(k) \/ Retire(k) \/ Remove(k) \/ Finish(k)

Spec == Init /\ [][Next]_<<names, fate, watched, awaited, stored>>
=============================================================================
