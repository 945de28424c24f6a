--------------------------- MODULE FileBlobUserDb ---------------------------
(***************************************************************************)
(* FileBlobUserDb: a directory with one file per user.  The file is found, *)
(* deleted, opened and written in separate calls, and requests load a user *)
(* and write the whole of it back.  One action is one of these calls.      *)
(* (FileBlobRoleDb does the same with roles.)                              *)
(***************************************************************************)
EXTENDS FiniteSets

CONSTANTS
    Users, Roles,
    Stamps,     \* values of a property that is no role
    Requests,
    Exclusive,  \* the users on whom requests do not overlap
    Crashes,    \* the process may stop at any point and start again
    None, Damaged

ASSUME FileBlobAssumption ==
    /\ Exclusive \subseteq Users /\ Crashes \in BOOLEAN
    /\ None # Damaged

Profile == [roles : SUBSET Roles, stamp : Stamps]

Operations ==
    [kind : {"create", "set"}, arg : Stamps]
        \cup [kind : {"add_role", "remove_role"}, arg : Roles]
        \cup [kind : {"delete"}, arg : {None}]

VARIABLES
    file,      \* per user: no file, or what is in it and who has it open
    pc, ctx    \* per request: its next step, its locals

vars == <<file, pc, ctx>>

\* Content that is no user: an empty file, or the end of an older, longer text
\* after a newer one.  Deserializing it throws or returns null.
File == [text : Profile \cup {Damaged}, empty : BOOLEAN, holder : Requests \cup {None}]

Context ==
    [user : Users, op : Operations, copy : Profile \cup {None},
     old : Profile \cup {None, Damaged}]   \* history: what the change replaces

ASSUME NoneAssumption ==
    /\ None \notin Profile \cup File \cup Context \cup Requests
    /\ Damaged \notin Profile

Steps == {"idle", "load", "exists", "remove", "open", "write", "create_exists",
          "delete_exists", "delete"}

TypeOK ==
    /\ file \in [Users -> File \cup {None}]
    /\ pc \in [Requests -> Steps]
    /\ ctx \in [Requests -> Context \cup {None}]

Init ==
    /\ file = [u \in Users |-> None]
    /\ pc = [r \in Requests |-> "idle"]
    /\ ctx = [r \in Requests |-> None]

-----------------------------------------------------------------------------
Goto(r, step) == pc' = [pc EXCEPT ![r] = step]
Answer(r) == Goto(r, "idle") /\ ctx' = [ctx EXCEPT ![r] = None]

User(r) == ctx[r].user
Op(r) == ctx[r].op
Missing(u) == file[u] = None
Open(u) == file[u] # None /\ file[u].holder # None

Readable(u) == ~ Missing(u) /\ ~ Open(u) /\ file[u].text # Damaged

Submit(r, u, op) ==
    /\ pc[r] = "idle"
    /\ u \in Exclusive => \A q \in Requests : ctx[q] # None => User(q) # u
    /\ Goto(r, IF op.kind = "create" THEN "create_exists" ELSE "load")
    /\ ctx' = [ctx EXCEPT ![r] = [user |-> u, op |-> op, copy |-> None, old |-> None]]
    /\ UNCHANGED file

\* What the operation makes of the user it loaded.
Changed(op, p) ==
    CASE op.kind = "set"         -> [p EXCEPT !.stamp = op.arg]
      [] op.kind = "add_role"    -> [p EXCEPT !.roles = @ \cup {op.arg}]
      [] op.kind = "remove_role" -> [p EXCEPT !.roles = @ \ {op.arg}]
      [] OTHER                   -> p

\* FindByIdAsync.  A file that is open for writing cannot be opened.  A role
\* that is there already, or not there, needs no update.
Load(r) ==
    /\ pc[r] = "load"
    /\ IF \/ ~ Readable(User(r))
          \/ /\ Op(r).kind \in {"add_role", "remove_role"}
             /\ Changed(Op(r), file[User(r)].text) = file[User(r)].text
       THEN Answer(r)
       ELSE /\ Goto(r, IF Op(r).kind = "delete" THEN "delete_exists" ELSE "exists")
            /\ ctx' = [ctx EXCEPT ![r].copy = Changed(Op(r), file[User(r)].text)]
    /\ UNCHANGED file

-----------------------------------------------------------------------------
(***************************************************************************)
(* CreateAsync and UpdateAsync.                                            *)
(***************************************************************************)
\* Mutant of CreateExists: nothing is made of the input.
CreateExists_Null(r) ==
    /\ pc[r] = "create_exists"
    /\ IF Missing(User(r)) THEN Goto(r, "open") /\ UNCHANGED ctx ELSE Answer(r)
    /\ UNCHANGED file

CreateExists(r) ==
    /\ pc[r] = "create_exists"
    /\ IF Missing(User(r))
       THEN /\ Goto(r, "open")
            /\ ctx' = [ctx EXCEPT ![r].copy = [roles |-> {}, stamp |-> Op(r).arg]]
       ELSE Answer(r)
    /\ UNCHANGED file

\* Mutant of Exists: the update does not ask.
Exists_Unasked(r) ==
    /\ pc[r] = "exists"
    /\ Goto(r, "remove")
    /\ UNCHANGED <<file, ctx>>

\* Updating a user that is gone fails; UpdatePropertyAsync ignores the failure.
Exists(r) ==
    /\ pc[r] = "exists"
    /\ IF Missing(User(r))
       THEN Answer(r)
       ELSE /\ Goto(r, "remove")
            /\ ctx' = [ctx EXCEPT ![r].old = file[User(r)].text]
    /\ UNCHANGED file

\* Mutant of Remove: the file is overwritten where it is.
Remove_Kept(r) ==
    /\ pc[r] = "remove"
    /\ Goto(r, "open")
    /\ UNCHANGED <<file, ctx>>

\* A file that another request writes is removed under its hands (POSIX), or
\* cannot be (Windows).
Remove(r) ==
    /\ pc[r] = "remove"
    /\ \/ /\ Goto(r, "open")
          /\ file' = [file EXCEPT ![User(r)] = None]
          /\ UNCHANGED ctx
       \/ Open(User(r)) /\ Answer(r) /\ UNCHANGED file

\* FileMode.OpenOrCreate, FileShare.None: a file that is there is not truncated.
OpenFile(r) ==
    /\ pc[r] = "open"
    /\ IF Open(User(r))
       THEN Answer(r) /\ UNCHANGED file
       ELSE /\ Goto(r, "write")
            /\ file' = [file EXCEPT ![User(r)] =
                  IF Missing(User(r)) THEN [text |-> Damaged, empty |-> TRUE, holder |-> r]
                  ELSE [file[User(r)] EXCEPT !.holder = r]]
            /\ UNCHANGED ctx

\* Over an older text the new one may be too short to cover it.  The text of a
\* removed file goes nowhere.
WriteFile(r) ==
    /\ pc[r] = "write"
    /\ IF ~ Missing(User(r)) /\ file[User(r)].holder = r
       THEN \E text \in {ctx[r].copy} \cup (IF file[User(r)].empty THEN {} ELSE {Damaged}) :
               file' = [file EXCEPT ![User(r)] =
                           [text |-> text, empty |-> FALSE, holder |-> None]]
       ELSE UNCHANGED file
    /\ Answer(r)

-----------------------------------------------------------------------------
(***************************************************************************)
(* DeleteAsync.                                                            *)
(***************************************************************************)
DeleteExists(r) ==
    /\ pc[r] = "delete_exists"
    /\ IF Missing(User(r))
       THEN Answer(r)
       ELSE Goto(r, "delete") /\ UNCHANGED ctx
    /\ UNCHANGED file

Delete(r) ==
    /\ pc[r] = "delete"
    /\ \/ file' = [file EXCEPT ![User(r)] = None]
       \/ Open(User(r)) /\ UNCHANGED file
    /\ Answer(r)

\* The process stops: open files keep what they had, locals are lost.
Crash ==
    /\ Crashes
    /\ pc' = [r \in Requests |-> "idle"]
    /\ ctx' = [r \in Requests |-> None]
    /\ file' = [u \in Users |-> IF Missing(u) THEN None ELSE [file[u] EXCEPT !.holder = None]]

Step(r) ==
    \/ Load(r) \/ CreateExists(r) \/ Exists(r) \/ Remove(r) \/ OpenFile(r) \/ WriteFile(r)
    \/ DeleteExists(r) \/ Delete(r)

Next ==
    \/ \E r \in Requests : Step(r) \/ \E u \in Users, op \in Operations : Submit(r, u, op)
    \/ Crash

Spec == Init /\ [][Next]_vars

-----------------------------------------------------------------------------
(***************************************************************************)
(* Properties.                                                             *)
(***************************************************************************)
Working(r, u) == ctx[r] # None /\ User(r) = u
Quiet(u) == \A r \in Requests : ~ Working(r, u)

\* Requests that do not overlap on a user see an atomic store, crashes included:
\* the file of a user that is being rewritten stands for its last whole content.
Rewriting(r, u) == Working(r, u) /\ pc[r] \in {"open", "write"}

StoredAs(u) ==
    IF \E r \in Requests : Rewriting(r, u)
    THEN ctx[CHOOSE r \in Requests : Rewriting(r, u)].old
    ELSE IF Missing(u) THEN None
    ELSE file[u].text

Store == INSTANCE UserStore
            WITH Users <- Exclusive,
                 stored <- [u \in Exclusive |-> StoredAs(u)],
                 busy <- {u \in Exclusive : ~ Quiet(u)}

\* FileBlobUserDb implements UserStore for the users on whom requests do not overlap.
ImplementsUserStore == Store!Spec

\* A user is brought into being by a creation only: an update, however old the
\* copy it writes, does not bring back a user that was gone when it began.
BroughtBack(u) ==
    \E r \in Requests : Working(r, u) /\ pc[r] = "open" /\ pc'[r] = "write"
                        /\ Op(r).kind # "create" /\ ctx[r].old = None

NoResurrection == [][\A u \in Users : Missing(u) => ~ BroughtBack(u)]_vars

=============================================================================
