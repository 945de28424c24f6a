--------------------------- MODULE MCAuthorizeFlow ---------------------------
(***************************************************************************)
(* Small instances of AuthorizeFlow for TLC.                               *)
(***************************************************************************)
EXTENDS AuthorizeFlow, TLC

CONSTANTS c1, c2, s1, s2

Plain(c, scopes) == [client |-> c, scopes |-> scopes, nonce |-> None,
                     prompts |-> {}, maxAge |-> None]

Prompt(p) == [Plain(c1, {s1}) EXCEPT !.prompts = {p}]

\* One client that asks for consent to two scopes, each time or when it must.
ConsentAsks == {Plain(c1, {s1, s2}), [Prompt("consent") EXCEPT !.scopes = {s1, s2}]}

\* Two clients, one of which may ask for another sign-in or for no page at all.
SessionAsks == {Plain(c2, {s1}), Prompt("login"), Prompt("none")}

ForEver == [c \in Clients |-> None]

AtOnce == [c \in Clients |-> 0]

\* The second client asks for a new sign-in when the last one is too old.
SecondAtOnce == [ForEver EXCEPT ![c2] = 0]

Symmetry == Permutations(Tabs) \cup Permutations(Subjects) \cup Permutations(Scopes)

=============================================================================
