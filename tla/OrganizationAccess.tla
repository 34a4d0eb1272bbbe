------------------------- MODULE OrganizationAccess -------------------------
(***************************************************************************)
(* What membership of an Organization promises its users, whatever rows,   *)
(* locks and overlapping requests keep the promise.  A user has one role   *)
(* or none.  Nobody gets in but by an open offer made to them, at the role *)
(* it names, and an offer is good for one admission or is closed for good. *)
(* Ownership is never given up, only handed to another user in one step.   *)
(***************************************************************************)
CONSTANTS
    Users,
    Offers,
    OfferedTo,   \* the user of each offer
    OfferedRole  \* and the role it names

VARIABLES
    access,  \* the role of each user, or none
    offer    \* what became of each offer

Lesser == {"member", "admin"}
Fates == {"unsent", "open", "used", "closed"}

Init ==
    /\ access \in [Users -> Lesser \cup {"owner", "none"}]
    /\ \E u \in Users : \A v \in Users : access[v] = "owner" <=> v = u
    /\ offer = [i \in Offers |-> "unsent"]

Send(i) ==
    /\ offer[i] = "unsent"
    /\ offer' = [offer EXCEPT ![i] = "open"]
    /\ UNCHANGED access

Close(i) ==
    /\ offer[i] = "open"
    /\ offer' = [offer EXCEPT ![i] = "closed"]
    /\ UNCHANGED access

Join(i) ==
    /\ offer[i] = "open"
    /\ access[OfferedTo[i]] = "none"
    /\ offer' = [offer EXCEPT ![i] = "used"]
    /\ access' = [access EXCEPT ![OfferedTo[i]] = OfferedRole[i]]

\* A member becomes an admin, an admin a member, or either leaves.
Change(u) ==
    /\ access[u] \in Lesser
    /\ access' \in {[access EXCEPT ![u] = x] : x \in Lesser \cup {"none"}}
    /\ UNCHANGED offer

Pass(u, v) ==
    /\ access[u] = "owner"
    /\ access[v] \in Lesser
    /\ access' = [access EXCEPT ![u] = "admin", ![v] = "owner"]
    /\ UNCHANGED offer

Next ==
    \/ \E i \in Offers : Send(i) \/ Close(i) \/ Join(i)
    \/ \E u \in Users : Change(u)
    \/ \E u, v \in Users : Pass(u, v)

Spec == Init /\ [][Next]_<<access, offer>>
=============================================================================
