---------------------------- MODULE SecretsVault ----------------------------
(***************************************************************************)
(* FileBlobSecretsVaultDb and SecretsVaultManager: lockers are             *)
(* directories, a locker's secrets directories in it, each with an         *)
(* _item.meta; the versions of a secret are files named by the time they   *)
(* were made.  A client with a vault secret is authenticated with what     *)
(* GetSecretVersion returns.                                               *)
(*                                                                         *)
(* Nothing is locked: a request looks for a file, makes a directory,       *)
(* deletes, opens and writes in separate calls.  One action is one of      *)
(* these calls.                                                            *)
(***************************************************************************)
EXTENDS Integers, FiniteSets, Sequences, SequencesExt

CONSTANTS
    Lockers, Secrets,
    Meta,        \* the name _item.meta
    MaxStamp,    \* bound on the versions that are made
    Requests,
    Crashes,     \* whether the process may stop once and start again
    None

ASSUME VaultAssumption ==
    /\ MaxStamp \in Nat /\ Crashes \in BOOLEAN
    /\ Meta \notin Secrets /\ Meta \notin 1..MaxStamp
    /\ Secrets \cap (1..MaxStamp) = {}

\* A path is the sequence of the names on the way to it.
LockerDirs == {<<l>> : l \in Lockers}
SecretDirs == {<<l, s>> : l \in Lockers, s \in Secrets}
Dirs == LockerDirs \cup SecretDirs
Versions == {<<l, s, n>> : l \in Lockers, s \in Secrets, n \in 1..MaxStamp}
Metas == {Append(d, Meta) : d \in Dirs}
Paths == Dirs \cup Versions \cup Metas

Operations ==
    [kind : {"create", "remove"}, path : Dirs \cup Versions]
        \cup [kind : {"update"}, path : Dirs]
        \cup [kind : {"get"}, path : SecretDirs \cup Versions]

VARIABLES
    tree,      \* per path: nothing, or a directory or file and who writes it
    stamp,     \* the clock, as the last version's VersionTimeStamp
    pc, ctx,   \* per request: its next step, its locals
    crashed,   \* the process has stopped once
    stored,    \* history: versions acknowledged and not asked to be removed
    gone,      \* history: versions whose removal was acknowledged
    spoiled    \* history: directories whose _item.meta requests fought over

history == <<stored, gone, spoiled>>
vars == <<tree, stamp, pc, ctx, crashed, history>>

\* A broken file is empty or a mixture of two texts: reading it fails or
\* returns null.
Node == [text : {"dir", "broken", "full"}, writer : Requests \cup {None}]

Context ==
    [op : Operations,
     todo : SUBSET Paths,            \* what is left to read, or to delete
     best : 0..MaxStamp,             \* the newest version read, 0 if none
     knew : SUBSET Versions,         \* history: stored, or there to be removed, when the request came
     barred : SUBSET Versions,       \* history: gone when the request came
     disturbed : BOOLEAN]            \* history: overlapped by a creation or removal

ASSUME NoneAssumption == None \notin Node \cup Context \cup Requests

Steps == {"idle", "absent", "mkdir", "open", "write", "present", "delete",
          "sweep", "list", "find", "read"}

TypeOK ==
    /\ tree \in [Paths -> Node \cup {None}]
    /\ stamp \in 0..MaxStamp
    /\ pc \in [Requests -> Steps]
    /\ ctx \in [Requests -> Context \cup {None}]
    /\ \A r \in Requests : pc[r] = "idle" <=> ctx[r] = None
    /\ crashed \in BOOLEAN
    /\ stored \subseteq Versions /\ gone \subseteq Versions
    /\ spoiled \subseteq Dirs
    \* a file or directory is in a directory, and is written by who says so
    /\ \A p \in Paths : tree[p] # None =>
          /\ Len(p) > 1 => tree[Front(p)] # None
          /\ tree[p].text = "dir" <=> p \in Dirs
          /\ tree[p].writer # None => pc[tree[p].writer] = "write"

Init ==
    /\ tree = [p \in Paths |-> None]
    /\ stamp = 0
    /\ pc = [r \in Requests |-> "idle"]
    /\ ctx = [r \in Requests |-> None]
    /\ crashed = FALSE
    /\ stored = {} /\ gone = {} /\ spoiled = {}

-----------------------------------------------------------------------------
Exists(p) == tree[p] # None
Held(p) == Exists(p) /\ tree[p].writer # None
Under(d) == {p \in Paths : IsStrictPrefix(d, p)}
Inside(d) == {p \in Under(d) : Exists(p)}
Comparable(p, q) == IsPrefix(p, q) \/ IsPrefix(q, p)

Path(r) == ctx[r].op.path
Kind(r) == ctx[r].op.kind
Active == {r \in Requests : pc[r] # "idle"}

\* The file a request writes or deletes.
FileOf(r) == IF Path(r) \in Dirs THEN Append(Path(r), Meta) ELSE Path(r)

Goto(r, step) == pc' = [pc EXCEPT ![r] = step]
Finish(r) == Goto(r, "idle") /\ ctx' = [ctx EXCEPT ![r] = None]

\* An exception ends the request; the history learns nothing.
Fail(r) == Finish(r) /\ UNCHANGED history

-----------------------------------------------------------------------------
(***************************************************************************)
(* Requests arrive.                                                        *)
(***************************************************************************)
\* Overlapping requests of which the first may disturb the second.
Disturbs(a, b) == a.kind \in {"create", "remove"} /\ Comparable(a.path, b.path)

\* Directories that two overlapping requests may leave without a good _item.meta:
\* one is removed while something is made in it, or two write the same text.
Spoils(a, b) ==
    {d \in Dirs : \/ /\ a.kind = "remove" /\ b.kind \in {"create", "update"}
                     /\ IsPrefix(a.path, b.path) /\ IsPrefix(a.path, d)
                  \/ a.kind = b.kind /\ a.kind # "get" /\ a = b /\ d = a.path}

FirstStep(op) == CASE op.kind = "create" -> "absent"
                   [] op.kind \in {"update", "remove"} -> "present"
                   [] op.kind = "get" -> IF op.path \in Versions THEN "find" ELSE "list"

Asked(op) == IF op.kind = "remove" THEN {v \in Versions : IsPrefix(op.path, v)} ELSE {}

\* A new version is named by the clock.
Submit(r, op) ==
    /\ pc[r] = "idle"
    /\ (op.kind = "create" /\ op.path \in Versions) => Last(op.path) = stamp + 1
    /\ op.path \in Versions => Last(op.path) <= stamp + 1
    /\ Goto(r, FirstStep(op))
    /\ stamp' = IF op.kind = "create" /\ op.path \in Versions THEN stamp + 1 ELSE stamp
    /\ ctx' = [q \in Requests |->
          IF q = r
          THEN [op |-> op, todo |-> {}, best |-> 0,
                knew |-> IF op.kind = "get" THEN stored ELSE {v \in Asked(op) : Exists(v)},
                barred |-> IF op.kind = "get" THEN gone ELSE {},
                disturbed |-> \E a \in Active : Disturbs(ctx[a].op, op)]
          ELSE IF q \in Active
          THEN [ctx[q] EXCEPT !.knew = IF Kind(q) = "get" THEN @ \ Asked(op) ELSE @,
                              !.disturbed = @ \/ Disturbs(op, ctx[q].op)]
          ELSE None]
    /\ stored' = stored \ Asked(op)
    /\ spoiled' = spoiled \cup UNION {Spoils(ctx[a].op, op) \cup Spoils(op, ctx[a].op) : a \in Active}
    /\ UNCHANGED <<tree, crashed, gone>>

-----------------------------------------------------------------------------
(***************************************************************************)
(* CreateLockerAsync, CreateVaultSecretAsync, CreateVaultSecretVersionAsync *)
(***************************************************************************)
\* mutant: the locker of a new secret is not looked for
Absent_Rootless(r) ==
    /\ pc[r] = "absent"
    /\ IF /\ Path(r) \in Versions => Exists(Front(Path(r)))
          /\ ~Exists(Path(r))
       THEN /\ Goto(r, IF Path(r) \in Dirs THEN "mkdir" ELSE "open")
            /\ UNCHANGED <<ctx, history>>
       ELSE Fail(r)
    /\ UNCHANGED <<tree, stamp, crashed>>

\* The directories above must be there, the new one not.  (They are looked for
\* one by one; as a locker goes after what is in it, that lets no more through.)
Absent(r) ==
    /\ pc[r] = "absent"
    /\ IF /\ \A p \in Paths : IsStrictPrefix(p, Path(r)) => Exists(p)
          /\ ~Exists(Path(r))
       THEN /\ Goto(r, IF Path(r) \in Dirs THEN "mkdir" ELSE "open")
            /\ UNCHANGED <<ctx, history>>
       ELSE Fail(r)
    /\ UNCHANGED <<tree, stamp, crashed>>

\* DirectoryInfo.Create: a directory above that is gone by now is made again.
MkDir(r) ==
    /\ pc[r] = "mkdir"
    /\ tree' = [p \in Paths |-> IF IsPrefix(p, Path(r)) /\ ~Exists(p)
                                THEN [text |-> "dir", writer |-> None] ELSE tree[p]]
    /\ Goto(r, "open")
    /\ UNCHANGED <<stamp, ctx, crashed, history>>

\* FileMode.OpenOrCreate, FileShare.None
OpenFile(r) ==
    LET f == FileOf(r) IN
    /\ pc[r] = "open"
    /\ IF Exists(Front(f)) /\ ~Held(f)
       THEN /\ tree' = [tree EXCEPT ![f] = [text |-> IF Exists(f) THEN @.text ELSE "broken",
                                            writer |-> r]]
            /\ Goto(r, "write")
            /\ UNCHANGED <<ctx, history>>
       ELSE Fail(r) /\ UNCHANGED tree
    /\ UNCHANGED <<stamp, crashed>>

\* mutant: the file is not closed
WriteFile_Open(r) ==
    LET f == FileOf(r) IN
    /\ pc[r] = "write"
    /\ tree' = IF Held(f) /\ tree[f].writer = r THEN [tree EXCEPT ![f].text = "full"] ELSE tree
    /\ Finish(r)
    /\ UNCHANGED <<stamp, crashed, history>>

\* A file that was deleted meanwhile is written nowhere.  A text over a longer
\* one leaves the end of that.
WriteFile(r) ==
    LET f == FileOf(r)
        mine == Held(f) /\ tree[f].writer = r IN
    /\ pc[r] = "write"
    /\ IF mine
       THEN \E text \in {"full"} \cup (IF tree[f].text = "full" THEN {"broken"} ELSE {}) :
               tree' = [tree EXCEPT ![f] = [text |-> text, writer |-> None]]
       ELSE UNCHANGED tree
    /\ stored' = IF Path(r) \in Versions /\ ~ctx[r].disturbed
                 THEN stored \cup {Path(r)} ELSE stored
    /\ Finish(r)
    /\ UNCHANGED <<stamp, crashed, gone, spoiled>>

-----------------------------------------------------------------------------
(***************************************************************************)
(* RemoveLockerAsync, RemoveVaultSecretAsync, RemoveVaultSecretVersionAsync, *)
(* UpadteLockerAsync, UpadteVaultSecretAsync                               *)
(***************************************************************************)
\* mutant: an update clears the directory first
Present_Cleared(r) ==
    LET recursive == Path(r) \in Dirs IN
    /\ pc[r] = "present"
    /\ IF Exists(IF Kind(r) = "update" THEN FileOf(r) ELSE Path(r))
       THEN /\ Goto(r, IF recursive THEN "sweep" ELSE "delete")
            /\ ctx' = [ctx EXCEPT ![r].todo = IF recursive THEN Inside(Path(r)) ELSE {}]
            /\ UNCHANGED history
       ELSE Fail(r)
    /\ UNCHANGED <<tree, stamp, crashed>>

\* What has to be there: the file an update replaces, the path a removal is of.
Present(r) ==
    LET recursive == Kind(r) = "remove" /\ Path(r) \in Dirs IN
    /\ pc[r] = "present"
    /\ IF Exists(IF Kind(r) = "update" THEN FileOf(r) ELSE Path(r))
       THEN /\ Goto(r, IF recursive THEN "sweep" ELSE "delete")
            /\ ctx' = [ctx EXCEPT ![r].todo = IF recursive THEN Inside(Path(r)) ELSE {}]
            /\ UNCHANGED history
       ELSE Fail(r)
    /\ UNCHANGED <<tree, stamp, crashed>>

\* FileInfo.Delete: a file that is gone is no error, one in a directory that is
\* gone is.  A file somebody writes is unlinked (POSIX) or cannot be (Windows).
DeleteFile(r) ==
    LET f == FileOf(r) IN
    /\ pc[r] = "delete"
    /\ \/ /\ Exists(Front(f))
          /\ tree' = [tree EXCEPT ![f] = None]
          /\ IF Kind(r) = "update"
             THEN Goto(r, "open") /\ UNCHANGED <<ctx, gone>>
             ELSE Finish(r) /\ gone' = gone \cup {f}
          /\ UNCHANGED <<stored, spoiled>>
       \/ /\ ~(Exists(Front(f)) /\ ~Held(f))
          /\ Fail(r) /\ UNCHANGED tree
    /\ UNCHANGED <<stamp, crashed>>

\* DirectoryInfo.Delete(true): what is listed goes, innermost first; what came
\* after the listing may be seen or not; what cannot go is left.
Sweep(r) ==
    /\ pc[r] = "sweep"
    /\ \E p \in ctx[r].todo \cup Inside(Path(r)) :
          /\ ctx[r].todo \cap Under(p) = {}
          /\ \/ Inside(p) = {} /\ tree' = [tree EXCEPT ![p] = None]
             \/ (Held(p) \/ Inside(p) # {}) /\ p \in ctx[r].todo /\ UNCHANGED tree
          /\ ctx' = [ctx EXCEPT ![r].todo = @ \ {p}]
    /\ UNCHANGED <<stamp, pc, crashed, history>>

\* mutant: what is left in the directory goes unnoticed
RmDir_Unnoticed(r) ==
    /\ pc[r] = "sweep"
    /\ ctx[r].todo = {}
    /\ Finish(r)
    /\ tree' = IF Inside(Path(r)) = {} THEN [tree EXCEPT ![Path(r)] = None] ELSE tree
    /\ gone' = gone \cup ctx[r].knew
    /\ UNCHANGED <<stamp, crashed, stored, spoiled>>

\* At last the directory itself, if it is there and nothing is in it.
RmDir(r) ==
    /\ pc[r] = "sweep"
    /\ ctx[r].todo = {}
    /\ IF Exists(Path(r)) /\ Inside(Path(r)) = {}
       THEN /\ tree' = [tree EXCEPT ![Path(r)] = None]
            /\ gone' = gone \cup ctx[r].knew
            /\ Finish(r)
            /\ UNCHANGED <<stored, spoiled>>
       ELSE Fail(r) /\ UNCHANGED tree
    /\ UNCHANGED <<stamp, crashed>>

-----------------------------------------------------------------------------
(***************************************************************************)
(* GetSecretVersion                                                        *)
(***************************************************************************)
\* GetFiles("*.secret")
Files(d) == {v \in Versions : Front(v) = d /\ Exists(v)}

\* GetVaultSecretVersionsAsync lists the files.
List(r) ==
    /\ pc[r] = "list"
    /\ IF Exists(Path(r))
       THEN /\ Goto(r, "read")
            /\ ctx' = [ctx EXCEPT ![r].todo = Files(Path(r))]
            /\ UNCHANGED history
       ELSE Fail(r)
    /\ UNCHANGED <<tree, stamp, crashed>>

\* GetSecretVersionAsync looks for one.
Find(r) ==
    /\ pc[r] = "find"
    /\ IF Exists(Path(r))
       THEN /\ Goto(r, "read")
            /\ ctx' = [ctx EXCEPT ![r].todo = {Path(r)}]
            /\ UNCHANGED history
       ELSE Fail(r)
    /\ UNCHANGED <<tree, stamp, crashed>>

\* mutant: the versions are ordered the other way round
Newest_First(best, v) == IF best = 0 \/ Last(v) < best THEN Last(v) ELSE best

\* OrderByDescending, FirstOrDefault
Newest(best, v) == IF Last(v) > best THEN Last(v) ELSE best

Readable(p) == Exists(p) /\ ~Held(p) /\ tree[p].text = "full"

\* One file after the other is opened and read.  (A null in the list fails when
\* the list is ordered.)
Read(r) ==
    /\ pc[r] = "read"
    /\ \E v \in ctx[r].todo :
          IF Readable(v)
          THEN /\ ctx' = [ctx EXCEPT ![r].todo = @ \ {v}, ![r].best = Newest(@, v)]
               /\ UNCHANGED <<pc, history>>
          ELSE Fail(r)
    /\ UNCHANGED <<tree, stamp, crashed>>

\* The version is returned, or "not found" when there was none.
Serve(r) ==
    /\ pc[r] = "read"
    /\ ctx[r].todo = {}
    /\ Fail(r)
    /\ UNCHANGED <<tree, stamp, crashed>>

-----------------------------------------------------------------------------
\* No request is under way that changes d or what is above it.
Quiet(d) == \A r \in Active : Kind(r) # "get" => ~IsPrefix(Path(r), d)

\* The process stops and starts again: files that were open stay as they are.
Crash ==
    /\ Crashes /\ ~crashed
    /\ crashed' = TRUE
    /\ tree' = [p \in Paths |-> IF Exists(p) THEN [tree[p] EXCEPT !.writer = None] ELSE None]
    /\ pc' = [r \in Requests |-> "idle"]
    /\ ctx' = [r \in Requests |-> None]
    /\ spoiled' = spoiled \cup {d \in Dirs : ~Quiet(d)}
    /\ UNCHANGED <<stamp, stored, gone>>

Step(r) ==
    \/ Absent(r) \/ MkDir(r) \/ OpenFile(r) \/ WriteFile(r)
    \/ Present(r) \/ DeleteFile(r) \/ Sweep(r) \/ RmDir(r)
    \/ List(r) \/ Find(r) \/ Read(r) \/ Serve(r)

Next ==
    \/ Crash
    \/ \E r \in Requests : Step(r) \/ \E op \in Operations : Submit(r, op)

Spec == Init /\ [][Next]_vars

-----------------------------------------------------------------------------
\* All files of the request are read: ctx[r].best is what it answers with.
Answers(r) == pc[r] = "read" /\ ctx[r].todo = {}

\* GetSecretVersion without a version never answers with an older version than
\* one whose creation was acknowledged before it was called and that nobody has
\* asked to remove: a client authenticates with the newest secret.
NewestIsServed ==
    \A r \in Requests : Answers(r) /\ Path(r) \in SecretDirs =>
       \A v \in ctx[r].knew : Front(v) = Path(r) => Last(v) <= ctx[r].best

\* A version whose removal, alone or with its secret or locker, was acknowledged
\* is not served to a request that comes later.
RemovedIsNotServed ==
    \A r \in Requests : Answers(r) /\ ctx[r].best # 0 =>
       SubSeq(Path(r), 1, 2) \o <<ctx[r].best>> \notin ctx[r].barred

\* GetSecretVersion fails for a secret that has a version only if a version of
\* it was made or removed meanwhile, or a crash has left an empty version:
\* updates of the secret or the locker and other secrets do no harm.
FailuresAreExplained ==
    [][\A r \in Requests :
          /\ pc[r] \in {"list", "find", "read"} /\ pc'[r] = "idle" /\ ~Answers(r)
          /\ \E v \in ctx[r].knew : IsPrefix(Path(r), v)
          => ctx[r].disturbed \/ crashed']_vars

\* A directory nobody works on has an _item.meta that can be read, and is listed
\* and can be removed on the pages, unless it was removed while something was
\* made in it, two requests wrote its text at once, or the process stopped.
MetaIsReadable ==
    \A d \in Dirs \ spoiled : Exists(d) /\ Quiet(d) => Readable(Append(d, Meta))

=============================================================================
