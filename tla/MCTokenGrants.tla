--------------------------- MODULE MCTokenGrants ---------------------------
(***************************************************************************)
(* Small instances of TokenGrants for TLC.                                 *)
(***************************************************************************)
EXTENDS TokenGrants, TLC

CONSTANTS c1, c2

\* A client whose refresh tokens slide by one second, up to one second.
Sliding ==
    [usage |-> "ReUse", expiration |-> "Sliding", absolute |-> 1,
     sliding |-> 1, codeLifetime |-> 0, accessLifetime |-> 1,
     reference |-> FALSE, updateClaims |-> FALSE]

\* c1 rotates refresh tokens that expire at once, c2 extends one handle again and
\* again, up to its absolute lifetime.
RotatingConfig ==
    [c \in Clients |-> IF c = c1 THEN [Sliding EXCEPT !.usage = "OneTimeOnly", !.sliding = 0]
                       ELSE Sliding]

\* c1 refreshes with a handle that neither changes nor moves, and keeps the claims
\* of its reference tokens; c2 builds them anew.
ReferenceConfig ==
    [c \in Clients |->
        [Sliding EXCEPT !.expiration = "Absolute",
                        !.reference = TRUE, !.accessLifetime = 0,
                        !.updateClaims = (c # c1)]]

OneUser == [s \in Sessions |-> CHOOSE u \in Users : TRUE]

Symmetry == Permutations(Keys) \cup Permutations(Requests)

=============================================================================
