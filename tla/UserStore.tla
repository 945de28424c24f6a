----------------------------- MODULE UserStore -----------------------------
(***************************************************************************)
(* What a user database promises to requests that do not overlap on a      *)
(* user: every change is atomic, and a crash touches the users that are    *)
(* being changed at that moment, and no other.                             *)
(***************************************************************************)
CONSTANTS Users, Roles, Stamps, None, Damaged

VARIABLES
    stored,   \* per user: the profile, None, or Damaged
    busy      \* users that are being changed

vars == <<stored, busy>>

Profile == [roles : SUBSET Roles, stamp : Stamps]

Init == /\ stored \in [Users -> {None}]
        /\ busy = {}

Begin(u) == /\ u \notin busy
            /\ busy' = busy \cup {u}
            /\ UNCHANGED stored

\* A change that is refused, or changes nothing.
Cancel(u) == /\ u \in busy
             /\ busy' = busy \ {u}
             /\ UNCHANGED stored

Commit(u, p) == /\ u \in busy
                /\ stored' = [stored EXCEPT ![u] = p]
                /\ busy' = busy \ {u}

Create(u, p) == stored[u] = None /\ Commit(u, p)

Change(u, p) ==
    /\ stored[u] \in Profile
    /\ \/ p.roles = stored[u].roles
       \/ p.stamp = stored[u].stamp
    /\ Commit(u, p)

Delete(u) == stored[u] # None /\ Commit(u, None)

Crash ==
    /\ busy' = {}
    /\ stored' \in [Users -> Profile \cup {None, Damaged}]
    /\ \A u \in Users : stored'[u] # stored[u] => u \in busy /\ stored'[u] \in {None, Damaged}

Next ==
    \/ \E u \in Users : Begin(u) \/ Cancel(u) \/ Delete(u)
    \/ \E u \in Users, p \in Profile : Create(u, p) \/ Change(u, p)
    \/ Crash

Spec == Init /\ [][Next]_vars

=============================================================================
