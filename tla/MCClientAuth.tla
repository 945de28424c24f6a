---------------------------- MODULE MCClientAuth ----------------------------
(***************************************************************************)
(* Small instances of ClientAuth for TLC.                                  *)
(***************************************************************************)
EXTENDS ClientAuth, TLC

CONSTANTS c, a, b, pw, key, path, held, j

SharedSecret == [type |-> "shared", value |-> pw, until |-> 0]
KeySecret == [type |-> "key", value |-> key, until |-> None]
VaultSecret == [type |-> "vault", value |-> path, until |-> None]

MCClients == {c}
MCApis == {a, b}
MCValues == {pw, key, path, held}
MCSecrets == {SharedSecret, KeySecret, VaultSecret}
MCVault == [v \in MCValues |-> held]

MCEdits ==
    [kind : {"create", "delete", "disable", "enable"}, party : {c}]
        \cup [kind : {"add"}, party : {c}, secret : MCSecrets]
        \cup [kind : {"remove"}, party : {c}, secret : {SharedSecret}]
        \cup [kind : {"create", "delete"}, party : {a}]
        \cup [kind : {"create"}, party : {b}]
        \cup [kind : {"add"}, party : {a}, secret : {SharedSecret}]

Password == [type |-> "shared", value |-> pw]
Assertion == [type |-> "jwt", value |-> key, jti |-> j, exp |-> 0]

MCLogins ==
    [kind : {"login"}, party : {c},
     credential : {Password, Assertion, [type |-> "shared", value |-> held]}]
        \cup [kind : {"login"}, party : {a}, credential : {Password}]

\* A client and the API resources share the replay cache only, and the secrets
\* of a client one validator each: they are explored apart.  The cache and the
\* expiry of a secret are explored when nothing is edited.
Unused(ps) == \A p \in ps : /\ file[p] = None /\ wanted[p] = None
                             /\ \A r \in Requests : pc[r] # "idle" => Target(r) \notin ps

Apart == /\ Unused(Clients) \/ (Unused(Apis) /\ (KeySecret \in possible[c] => possible[c] = {KeySecret}))
         /\ (now > 0 \/ cache[j] # None) =>
               (VaultSecret \notin possible[c] /\ \A p \in Parties : Editing(p) = {})

Symmetry == Permutations(Requests)

=============================================================================
