------------------------ MODULE FileBlobUserDbProofs ------------------------
(***************************************************************************)
(* Theorems of FileBlobUserDb, for every set of users, roles, property     *)
(* values and requests, with and without crashes.                          *)
(***************************************************************************)
EXTENDS FileBlobUserDb, TLAPS

Updates == {"set", "add_role", "remove_role"}

\* Steps of an update that has looked at the file it replaces.
Replacing == {"remove", "open", "write"}

\* A request has the locals its next step reads.
LocalsOf(r) ==
    /\ pc[r] = "idle" <=> ctx[r] = None
    /\ pc[r] = "create_exists" =>
          ctx[r].op.kind = "create" /\ ctx[r].old = None
    /\ pc[r] \in {"load", "exists", "remove"} => ctx[r].op.kind # "create"
    /\ pc[r] \in {"exists"} \cup Replacing => ctx[r].copy \in Profile
    /\ pc[r] \in Replacing /\ ctx[r].op.kind # "create" => ctx[r].old # None

\* A file is open only in the hands of a request that is about to write it.
HeldByWriter(u) ==
    Open(u) => pc[file[u].holder] = "write" /\ ctx[file[u].holder].user = u

TypeInv ==
    /\ TypeOK
    /\ \A r \in Requests : LocalsOf(r)
    /\ \A u \in Users : HeldByWriter(u)

\* What a request writes: a new user, or the user it read with one change.
Written(r) ==
    \/ ctx[r].op.kind = "create" /\ ctx[r].old = None
    \/ /\ ctx[r].op.kind \in Updates
       /\ ctx[r].old \in Profile
       /\ ctx[r].copy = Changed(ctx[r].op, ctx[r].old)

\* The file of the user a request has to itself, at each step of the request.
FileAt(r) ==
    LET u == ctx[r].user IN
    /\ pc[r] = "exists" =>
          /\ file[u] # None /\ file[u].text \in Profile
          /\ ctx[r].op.kind \in Updates
          /\ ctx[r].copy = Changed(ctx[r].op, file[u].text)
    /\ pc[r] = "remove" => file[u] # None /\ file[u].text = ctx[r].old
    /\ pc[r] = "open" => file[u] = None
    /\ pc[r] = "write" => file[u] = [text |-> Damaged, empty |-> TRUE, holder |-> r]
    /\ pc[r] \in {"delete_exists", "delete"} => file[u] # None
    /\ pc[r] \in Replacing => Written(r)

\* On such a user one request works at a time.
OneAtATime ==
    \A q, r \in Requests :
       ctx[q] # None /\ ctx[r] # None /\ ctx[q].user \in Exclusive /\ ctx[q].user = ctx[r].user
       => q = r

ExclusiveInv ==
    /\ TypeInv
    /\ OneAtATime
    /\ \A r \in Requests : ctx[r] # None /\ ctx[r].user \in Exclusive => FileAt(r)

-----------------------------------------------------------------------------
LEMMA ChangedIsProfile ==
    ASSUME NEW op \in Operations, NEW p \in Profile
    PROVE  Changed(op, p) \in Profile
<1>1. CASE op.kind = "set"
  <2>1. op.arg \in Stamps
    BY <1>1 DEF Operations
  <2> QED
    BY <1>1, <2>1 DEF Changed, Profile
<1>2. CASE op.kind = "add_role"
  <2>1. op.arg \in Roles
    BY <1>2 DEF Operations
  <2> QED
    BY <1>2, <2>1 DEF Changed, Profile
<1>3. CASE op.kind = "remove_role"
  BY <1>3 DEF Changed, Profile
<1>4. CASE op.kind \notin {"set", "add_role", "remove_role"}
  BY <1>4 DEF Changed
<1> QED
  BY <1>1, <1>2, <1>3, <1>4

\* One change touches the roles or the other property, never both.
LEMMA ChangedOneThing ==
    ASSUME NEW op \in Operations, NEW p \in Profile
    PROVE  Changed(op, p).roles = p.roles \/ Changed(op, p).stamp = p.stamp
BY DEF Changed, Profile, Operations

LEMMA TypeInvInit == Init => TypeInv
BY DEF Init, TypeInv, TypeOK, Steps, LocalsOf, Replacing, HeldByWriter, Open

\* The request r moves on: the others keep their locals, and a file changes
\* hands only to r, or is let go.
LEMMA OneMoves ==
    ASSUME TypeInv, NEW r \in Requests,
           file' \in [Users -> File \cup {None}],
           pc' \in [Requests -> Steps], ctx' \in [Requests -> Context \cup {None}],
           \A q \in Requests \ {r} : pc'[q] = pc[q] /\ ctx'[q] = ctx[q],
           LocalsOf(r)',
           \A u \in Users :
              file'[u] # None /\ file'[u].holder # None =>
                 \/ file'[u].holder = r /\ pc'[r] = "write" /\ ctx'[r].user = u
                 \/ file'[u].holder # r /\ file[u] # None /\ file'[u].holder = file[u].holder
    PROVE  TypeInv'
<1>1. \A q \in Requests : LocalsOf(q)'
  BY DEF TypeInv, LocalsOf
<1>2. ASSUME NEW u \in Users, Open(u)'
      PROVE  pc'[file'[u].holder] = "write" /\ ctx'[file'[u].holder].user = u
  <2>1. file'[u].holder \in Requests
    BY <1>2 DEF Open, File
  <2> QED
    BY <1>2, <2>1 DEF TypeInv, HeldByWriter, Open
<1> QED
  BY <1>1, <1>2 DEF TypeInv, TypeOK, HeldByWriter

\* The request r answers without a word to the file.
LEMMA AnswerTypeInv ==
    ASSUME TypeInv, NEW r \in Requests, pc[r] # "write", Answer(r), UNCHANGED file
    PROVE  TypeInv'
<1>1. pc' \in [Requests -> Steps] /\ ctx' \in [Requests -> Context \cup {None}]
  BY DEF TypeInv, TypeOK, Answer, Goto, Steps
<1>2. pc'[r] = "idle" /\ ctx'[r] = None
      /\ \A q \in Requests \ {r} : pc'[q] = pc[q] /\ ctx'[q] = ctx[q]
  BY DEF TypeInv, TypeOK, Answer, Goto
<1>3. LocalsOf(r)'
  BY <1>2 DEF LocalsOf, Replacing
<1>4. \A u \in Users : file'[u] # None /\ file'[u].holder # None =>
                          file'[u].holder # r /\ file'[u].holder = file[u].holder
  BY DEF TypeInv, HeldByWriter, Open
<1> QED
  BY <1>1, <1>2, <1>3, <1>4, OneMoves DEF TypeInv, TypeOK

\* The request r goes to another step, or changes its locals, and writes no file.
LEMMA MoveTypeInv ==
    ASSUME TypeInv, NEW r \in Requests, pc[r] # "write", UNCHANGED file,
           NEW step \in Steps, Goto(r, step),
           NEW c \in Context \cup {None}, ctx' = [ctx EXCEPT ![r] = c],
           LocalsOf(r)'
    PROVE  TypeInv'
<1>1. pc' \in [Requests -> Steps] /\ ctx' \in [Requests -> Context \cup {None}]
  BY DEF TypeInv, TypeOK, Goto
<1>2. \A q \in Requests \ {r} : pc'[q] = pc[q] /\ ctx'[q] = ctx[q]
  BY DEF TypeInv, TypeOK, Goto
<1>3. \A u \in Users : file'[u] # None /\ file'[u].holder # None =>
                          file'[u].holder # r /\ file'[u].holder = file[u].holder
  BY DEF TypeInv, HeldByWriter, Open
<1> QED
  BY <1>1, <1>2, <1>3, OneMoves DEF TypeInv, TypeOK

LEMMA SubmitTypeInv ==
    ASSUME TypeInv, NEW r \in Requests, NEW u \in Users, NEW op \in Operations, Submit(r, u, op)
    PROVE  TypeInv'
<1> DEFINE c == [user |-> u, op |-> op, copy |-> None, old |-> None]
           step == IF op.kind = "create" THEN "create_exists" ELSE "load"
<1>1. c \in Context /\ step \in Steps /\ step \notin {"idle", "exists"} \cup Replacing
  BY DEF Context, Steps, Replacing
<1>2. pc'[r] = step /\ ctx'[r] = c
  BY DEF Submit, Goto, TypeInv, TypeOK
<1>3. LocalsOf(r)'
  BY <1>1, <1>2, NoneAssumption DEF LocalsOf
<1> QED
  BY <1>1, <1>3, MoveTypeInv DEF Submit

\* What the locals of a request are made of.
LEMMA LocalsTyped ==
    ASSUME TypeInv, NEW r \in Requests, pc[r] # "idle"
    PROVE  /\ ctx[r] \in Context
           /\ ctx[r].user \in Users /\ ctx[r].op \in Operations
           /\ file[ctx[r].user] \in File \cup {None}
           /\ file[ctx[r].user] # None =>
                 /\ file[ctx[r].user].text \in Profile \cup {Damaged}
                 /\ file[ctx[r].user].text # None
<1>1. ctx[r] \in Context
  BY DEF TypeInv, TypeOK, LocalsOf
<1>2. ctx[r].user \in Users /\ ctx[r].op \in Operations
  BY <1>1 DEF Context
<1>3. file[ctx[r].user] \in File \cup {None}
  BY <1>2 DEF TypeInv, TypeOK
<1> QED
  BY <1>1, <1>2, <1>3, NoneAssumption, FileBlobAssumption DEF File

LEMMA LoadTypeInv ==
    ASSUME TypeInv, NEW r \in Requests, Load(r)
    PROVE  TypeInv'
<1>1. pc[r] = "load" /\ UNCHANGED file
  BY DEF Load
<1>2. CASE Answer(r)
  BY <1>1, <1>2, AnswerTypeInv
<1>3. CASE ~ Answer(r)
  <2> DEFINE c == [ctx[r] EXCEPT !.copy = Changed(Op(r), file[User(r)].text)]
             step == IF Op(r).kind = "delete" THEN "delete_exists" ELSE "exists"
  <2>1. Readable(User(r)) /\ Goto(r, step)
        /\ ctx' = [ctx EXCEPT ![r].copy = Changed(Op(r), file[User(r)].text)]
    BY <1>3 DEF Load
  <2>2. ctx[r] \in Context /\ Op(r) \in Operations /\ file[User(r)].text \in Profile
    BY <1>1, <2>1, LocalsTyped DEF Readable, Missing, User, Op
  <2>3. Changed(Op(r), file[User(r)].text) \in Profile
    BY <2>2, ChangedIsProfile
  <2>4. c \in Context /\ c.copy \in Profile /\ c.op.kind # "create"
    BY <1>1, <2>2, <2>3 DEF Context, TypeInv, LocalsOf
  <2>5. ctx' = [ctx EXCEPT ![r] = c] /\ ctx'[r] = c
    BY <2>1 DEF TypeInv, TypeOK
  <2>6. step \in Steps /\ pc'[r] = step /\ step \notin {"idle"} \cup Replacing
    BY <2>1 DEF TypeInv, TypeOK, Goto, Steps, Replacing
  <2>7. LocalsOf(r)'
    BY <2>4, <2>5, <2>6, NoneAssumption DEF LocalsOf
  <2> QED
    BY <1>1, <2>1, <2>4, <2>5, <2>6, <2>7, MoveTypeInv
<1> QED
  BY <1>2, <1>3

LEMMA CreateExistsTypeInv ==
    ASSUME TypeInv, NEW r \in Requests, CreateExists(r)
    PROVE  TypeInv'
<1>1. pc[r] = "create_exists" /\ UNCHANGED file
  BY DEF CreateExists
<1>2. CASE Answer(r)
  BY <1>1, <1>2, AnswerTypeInv
<1>3. CASE ~ Answer(r)
  <2> DEFINE new == [roles |-> {}, stamp |-> Op(r).arg]
             c == [ctx[r] EXCEPT !.copy = new]
  <2>1. Goto(r, "open") /\ ctx' = [ctx EXCEPT ![r].copy = new]
    BY <1>3 DEF CreateExists
  <2>2. ctx[r] \in Context /\ Op(r) \in Operations /\ Op(r).kind = "create"
    BY <1>1, LocalsTyped DEF Op, TypeInv, LocalsOf
  <2>3. new \in Profile
    BY <2>2 DEF Operations, Profile
  <2>4. c \in Context /\ c.copy \in Profile /\ c.op.kind = "create"
    BY <2>2, <2>3 DEF Context, Op
  <2>5. ctx' = [ctx EXCEPT ![r] = c] /\ ctx'[r] = c
    BY <2>1 DEF TypeInv, TypeOK
  <2>6. pc'[r] = "open" /\ "open" \in Steps
    BY <2>1 DEF TypeInv, TypeOK, Goto, Steps
  <2>7. LocalsOf(r)'
    BY <2>4, <2>5, <2>6, NoneAssumption DEF LocalsOf
  <2> QED
    BY <1>1, <2>1, <2>4, <2>5, <2>6, <2>7, MoveTypeInv
<1> QED
  BY <1>2, <1>3

LEMMA ExistsTypeInv ==
    ASSUME TypeInv, NEW r \in Requests, Exists(r)
    PROVE  TypeInv'
<1>1. pc[r] = "exists" /\ UNCHANGED file
  BY DEF Exists
<1>2. CASE Answer(r)
  BY <1>1, <1>2, AnswerTypeInv
<1>3. CASE ~ Answer(r)
  <2> DEFINE c == [ctx[r] EXCEPT !.old = file[User(r)].text]
  <2>1. ~ Missing(User(r)) /\ Goto(r, "remove")
        /\ ctx' = [ctx EXCEPT ![r].old = file[User(r)].text]
    BY <1>3 DEF Exists
  <2>2. /\ ctx[r] \in Context /\ ctx[r].copy \in Profile /\ ctx[r].op.kind # "create"
        /\ file[User(r)].text \in Profile \cup {Damaged} /\ file[User(r)].text # None
    BY <1>1, <2>1, LocalsTyped DEF User, Missing, TypeInv, LocalsOf
  <2>3. c \in Context /\ c.copy \in Profile /\ c.op.kind # "create" /\ c.old # None
    BY <2>2 DEF Context
  <2>4. ctx' = [ctx EXCEPT ![r] = c] /\ ctx'[r] = c
    BY <2>1 DEF TypeInv, TypeOK
  <2>5. pc'[r] = "remove" /\ "remove" \in Steps
    BY <2>1 DEF TypeInv, TypeOK, Goto, Steps
  <2>6. LocalsOf(r)'
    BY <2>3, <2>4, <2>5, NoneAssumption DEF LocalsOf
  <2> QED
    BY <1>1, <2>1, <2>3, <2>4, <2>5, <2>6, MoveTypeInv
<1> QED
  BY <1>2, <1>3

LEMMA RemoveTypeInv ==
    ASSUME TypeInv, NEW r \in Requests, Remove(r)
    PROVE  TypeInv'
<1>1. pc[r] = "remove"
  BY DEF Remove
<1>2. CASE Answer(r) /\ UNCHANGED file
  BY <1>1, <1>2, AnswerTypeInv
<1>3. CASE /\ Goto(r, "open")
           /\ file' = [file EXCEPT ![User(r)] = None]
           /\ UNCHANGED ctx
  <2>1. User(r) \in Users
    BY <1>1, LocalsTyped DEF User
  <2>2. file' \in [Users -> File \cup {None}] /\ pc' \in [Requests -> Steps]
    BY <1>3, <2>1 DEF TypeInv, TypeOK, Goto, Steps
  <2>3. pc'[r] = "open" /\ \A q \in Requests \ {r} : pc'[q] = pc[q]
    BY <1>3 DEF TypeInv, TypeOK, Goto
  <2>4. LocalsOf(r)'
    BY <1>1, <1>3, <2>3 DEF TypeInv, LocalsOf, Replacing
  <2>5. \A u \in Users : file'[u] # None /\ file'[u].holder # None =>
           file'[u].holder # r /\ file[u] # None /\ file'[u].holder = file[u].holder
    BY <1>1, <1>3, <2>1 DEF TypeInv, TypeOK, HeldByWriter, Open
  <2> QED
    BY <1>3, <2>2, <2>3, <2>4, <2>5, OneMoves DEF TypeInv, TypeOK
<1> QED
  BY <1>2, <1>3 DEF Remove

LEMMA OpenFileTypeInv ==
    ASSUME TypeInv, NEW r \in Requests, OpenFile(r)
    PROVE  TypeInv'
<1>1. pc[r] = "open"
  BY DEF OpenFile
<1>2. CASE Answer(r) /\ UNCHANGED file
  BY <1>1, <1>2, AnswerTypeInv
<1>3. CASE ~ (Answer(r) /\ UNCHANGED file)
  <2> DEFINE opened == IF Missing(User(r)) THEN [text |-> Damaged, empty |-> TRUE, holder |-> r]
                       ELSE [file[User(r)] EXCEPT !.holder = r]
  <2>1. Goto(r, "write") /\ UNCHANGED ctx /\ file' = [file EXCEPT ![User(r)] = opened]
    BY <1>3 DEF OpenFile
  <2>2. User(r) \in Users /\ file[User(r)] \in File \cup {None}
    BY <1>1, LocalsTyped DEF User
  <2>3. opened \in File /\ opened.holder = r
    BY <2>2 DEF File, Missing
  <2>4. file' \in [Users -> File \cup {None}] /\ pc' \in [Requests -> Steps]
    BY <2>1, <2>2, <2>3 DEF TypeInv, TypeOK, Goto, Steps
  <2>5. pc'[r] = "write" /\ \A q \in Requests \ {r} : pc'[q] = pc[q]
    BY <2>1 DEF TypeInv, TypeOK, Goto
  <2>6. LocalsOf(r)'
    BY <1>1, <2>1, <2>5 DEF TypeInv, LocalsOf, Replacing
  <2>7. \A u \in Users \ {User(r)} : file'[u] = file[u]
    BY <2>1 DEF TypeInv, TypeOK
  <2>8. file'[User(r)].holder = r /\ ctx'[r].user = User(r)
    BY <2>1, <2>2, <2>3 DEF TypeInv, TypeOK, User
  <2>9. \A u \in Users : file[u] # None /\ file[u].holder # None => file[u].holder # r
    BY <1>1 DEF TypeInv, HeldByWriter, Open
  <2>10. \A u \in Users : file'[u] # None /\ file'[u].holder # None =>
           \/ file'[u].holder = r /\ pc'[r] = "write" /\ ctx'[r].user = u
           \/ file'[u].holder # r /\ file[u] # None /\ file'[u].holder = file[u].holder
    BY <2>5, <2>7, <2>8, <2>9
  <2> QED
    BY <2>1, <2>4, <2>5, <2>6, <2>10, OneMoves DEF TypeInv, TypeOK
<1> QED
  BY <1>2, <1>3

\* The request r answers after a last word to the file of its user, which it lets go.
LEMMA LastWord ==
    ASSUME TypeInv, NEW r \in Requests, pc[r] # "idle", Answer(r),
           file' \in [Users -> File \cup {None}],
           \A u \in Users \ {User(r)} : file'[u] = file[u],
           \/ UNCHANGED file /\ (file[User(r)] # None => file[User(r)].holder # r)
           \/ file'[User(r)] = None
           \/ file'[User(r)].holder = None
    PROVE  TypeInv'
<1>1. pc' \in [Requests -> Steps] /\ ctx' \in [Requests -> Context \cup {None}]
  BY DEF TypeInv, TypeOK, Answer, Goto, Steps
<1>2. pc'[r] = "idle" /\ ctx'[r] = None
      /\ \A q \in Requests \ {r} : pc'[q] = pc[q] /\ ctx'[q] = ctx[q]
  BY DEF TypeInv, TypeOK, Answer, Goto
<1>3. LocalsOf(r)'
  BY <1>2 DEF LocalsOf, Replacing
<1>4. User(r) \in Users
  BY LocalsTyped DEF User
<1>5. ASSUME NEW u \in Users, file'[u] # None, file'[u].holder # None
      PROVE  file'[u].holder # r /\ file[u] # None /\ file'[u].holder = file[u].holder
  <2>1. file'[u] = file[u]
    BY <1>5
  <2>2. file[u].holder = r => u = User(r)
    BY <1>5, <2>1 DEF TypeInv, HeldByWriter, Open, User
  <2> QED
    BY <1>5, <2>1, <2>2
<1> QED
  BY <1>1, <1>2, <1>3, <1>5, OneMoves

LEMMA WriteFileTypeInv ==
    ASSUME TypeInv, NEW r \in Requests, WriteFile(r)
    PROVE  TypeInv'
<1>1. pc[r] = "write" /\ Answer(r) /\ User(r) \in Users
  BY LocalsTyped DEF WriteFile, User
<1>2. CASE ~ Missing(User(r)) /\ file[User(r)].holder = r
  <2>1. PICK text \in {ctx[r].copy} \cup (IF file[User(r)].empty THEN {} ELSE {Damaged}) :
           file' = [file EXCEPT ![User(r)] = [text |-> text, empty |-> FALSE, holder |-> None]]
    BY <1>2 DEF WriteFile
  <2>2. text \in Profile \cup {Damaged}
    BY <1>1 DEF TypeInv, LocalsOf, Replacing
  <2>3. [text |-> text, empty |-> FALSE, holder |-> None] \in File
    BY <2>2 DEF File
  <2>4. /\ file' \in [Users -> File \cup {None}]
        /\ \A u \in Users \ {User(r)} : file'[u] = file[u]
        /\ file'[User(r)].holder = None
    BY <1>1, <2>1, <2>3 DEF TypeInv, TypeOK
  <2> QED
    BY <1>1, <2>4, LastWord
<1>3. CASE ~ (~ Missing(User(r)) /\ file[User(r)].holder = r)
  BY <1>1, <1>3, LastWord DEF WriteFile, Missing, TypeInv, TypeOK
<1> QED
  BY <1>2, <1>3

LEMMA DeleteExistsTypeInv ==
    ASSUME TypeInv, NEW r \in Requests, DeleteExists(r)
    PROVE  TypeInv'
<1>1. pc[r] = "delete_exists" /\ UNCHANGED file
  BY DEF DeleteExists
<1>2. CASE Answer(r)
  BY <1>1, <1>2, AnswerTypeInv
<1>3. CASE ~ Answer(r)
  <2>1. Goto(r, "delete") /\ UNCHANGED ctx
    BY <1>3 DEF DeleteExists
  <2>2. pc'[r] = "delete" /\ "delete" \in Steps /\ ctx[r] \in Context
    BY <1>1, <2>1, LocalsTyped DEF TypeInv, TypeOK, Goto, Steps
  <2>3. ctx' = [ctx EXCEPT ![r] = ctx[r]]
    BY <2>1 DEF TypeInv, TypeOK
  <2>4. LocalsOf(r)'
    BY <1>1, <2>1, <2>2 DEF TypeInv, LocalsOf, Replacing
  <2> QED
    BY <1>1, <2>1, <2>2, <2>3, <2>4, MoveTypeInv
<1> QED
  BY <1>2, <1>3

LEMMA DeleteTypeInv ==
    ASSUME TypeInv, NEW r \in Requests, Delete(r)
    PROVE  TypeInv'
<1>1. pc[r] = "delete" /\ Answer(r)
  BY DEF Delete
<1>2. CASE UNCHANGED file
  BY <1>1, <1>2, AnswerTypeInv
<1>3. CASE file' = [file EXCEPT ![User(r)] = None]
  <2>1. User(r) \in Users
    BY <1>1, LocalsTyped DEF User
  <2>2. /\ file' \in [Users -> File \cup {None}]
        /\ \A u \in Users \ {User(r)} : file'[u] = file[u]
        /\ file'[User(r)] = None
    BY <1>3, <2>1 DEF TypeInv, TypeOK
  <2> QED
    BY <1>1, <2>2, LastWord
<1> QED
  BY <1>2, <1>3 DEF Delete

LEMMA CrashTypeInv == TypeInv /\ Crash => TypeInv'
<1> SUFFICES ASSUME TypeInv, Crash PROVE TypeInv'
  OBVIOUS
<1>1. pc' \in [Requests -> Steps] /\ ctx' \in [Requests -> Context \cup {None}]
  BY DEF Crash, Steps
<1>2. \A r \in Requests : LocalsOf(r)'
  BY DEF Crash, LocalsOf, Replacing
<1>3. \A u \in Users : /\ file'[u] \in File \cup {None}
                       /\ file'[u] # None => file'[u].holder = None
  BY DEF Crash, Missing, TypeInv, TypeOK, File
<1>4. file' \in [Users -> File \cup {None}]
  BY <1>3 DEF Crash
<1>5. \A u \in Users : HeldByWriter(u)'
  BY <1>3 DEF HeldByWriter, Open
<1> QED
  BY <1>1, <1>2, <1>4, <1>5 DEF TypeInv, TypeOK

LEMMA StepTypeInv == TypeInv /\ [Next]_vars => TypeInv'
<1> SUFFICES ASSUME TypeInv, [Next]_vars PROVE TypeInv'
  OBVIOUS
<1>1. CASE UNCHANGED vars
  BY <1>1 DEF vars, TypeInv, TypeOK, LocalsOf, HeldByWriter, Open
<1>2. ASSUME NEW r \in Requests, Step(r) PROVE TypeInv'
  BY <1>2, LoadTypeInv, CreateExistsTypeInv, ExistsTypeInv, RemoveTypeInv, OpenFileTypeInv,
     WriteFileTypeInv, DeleteExistsTypeInv, DeleteTypeInv DEF Step
<1> QED
  BY <1>1, <1>2, SubmitTypeInv, CrashTypeInv DEF Next

LEMMA TypeInductive == Spec => []TypeInv
BY TypeInvInit, StepTypeInv, PTL DEF Spec

\* The variables have their types: no step of the store, and no crash, leaves a
\* file or the locals of a request in a shape the code does not know.
THEOREM TypeCorrect == Spec => []TypeOK
BY TypeInductive, PTL DEF TypeInv

\* An update does not bring back a user that was gone when it began: CreateAsync
\* alone makes a file where the one it found was not there.
THEOREM GoneStayGone == Spec => NoResurrection
<1>1. TypeInv /\ [Next]_vars => [\A u \in Users : Missing(u) => ~ BroughtBack(u)]_vars
  BY DEF TypeInv, LocalsOf, Replacing, BroughtBack, Working, Op
<1> QED
  BY <1>1, TypeInductive, PTL DEF Spec, NoResurrection

-----------------------------------------------------------------------------
(***************************************************************************)
(* Users on whom requests do not overlap.                                  *)
(***************************************************************************)
LEMMA ExclusiveInvInit == Init => ExclusiveInv
BY TypeInvInit DEF Init, ExclusiveInv, OneAtATime

\* A step of the request r leaves the users of other requests alone.
LEMMA OnlyItsUser ==
    ASSUME ExclusiveInv, TypeInv', NEW r \in Requests, pc[r] # "idle",
           \A q \in Requests \ {r} : pc'[q] = pc[q] /\ ctx'[q] = ctx[q],
           ctx'[r] # None => ctx'[r].user = ctx[r].user,
           \A u \in Users \ {ctx[r].user} : file'[u] = file[u],
           ctx'[r] # None /\ ctx[r].user \in Exclusive => FileAt(r)'
    PROVE  ExclusiveInv'
<1>1. ctx[r] # None
  BY DEF ExclusiveInv, TypeInv, LocalsOf
<1>2. OneAtATime'
  BY <1>1 DEF ExclusiveInv, OneAtATime
<1>3. ASSUME NEW q \in Requests, ctx'[q] # None, ctx'[q].user \in Exclusive
      PROVE  FileAt(q)'
  <2>1. CASE q = r
    BY <1>3, <2>1
  <2>2. CASE q # r
    <3>1. ctx[q] # None /\ ctx[q].user \in Exclusive /\ ctx[q].user # ctx[r].user
      BY <1>1, <1>3, <2>2 DEF ExclusiveInv, OneAtATime
    <3>2. file'[ctx[q].user] = file[ctx[q].user]
      BY <3>1, FileBlobAssumption
    <3>3. FileAt(q)
      BY <3>1 DEF ExclusiveInv
    <3> QED
      BY <2>2, <3>2, <3>3 DEF FileAt, Written
  <2> QED
    BY <2>1, <2>2
<1> QED
  BY <1>2, <1>3 DEF ExclusiveInv

\* The pc and the locals after a step of the request r.
LEMMA Moved ==
    ASSUME TypeInv, NEW r \in Requests, pc[r] # "idle"
    PROVE  /\ Answer(r) => /\ ctx'[r] = None
                           /\ \A q \in Requests \ {r} : pc'[q] = pc[q] /\ ctx'[q] = ctx[q]
           /\ \A step \in Steps : Goto(r, step) =>
                 pc'[r] = step /\ \A q \in Requests \ {r} : pc'[q] = pc[q]
           /\ UNCHANGED ctx => /\ ctx'[r] = ctx[r]
                               /\ \A q \in Requests \ {r} : ctx'[q] = ctx[q]
           /\ \A x : ctx' = [ctx EXCEPT ![r].copy = x] =>
                 /\ ctx'[r] = [ctx[r] EXCEPT !.copy = x]
                 /\ \A q \in Requests \ {r} : ctx'[q] = ctx[q]
           /\ \A x : ctx' = [ctx EXCEPT ![r].old = x] =>
                 /\ ctx'[r] = [ctx[r] EXCEPT !.old = x]
                 /\ \A q \in Requests \ {r} : ctx'[q] = ctx[q]
           /\ ctx[r] \in Context
<1>1. ctx[r] \in Context /\ ctx[r].user \in Users
  BY LocalsTyped
<1> QED
  BY <1>1 DEF TypeInv, TypeOK, Answer, Goto

\* An answer leaves nothing to say of the file.
LEMMA AnswerExclusive ==
    ASSUME ExclusiveInv, TypeInv', NEW r \in Requests, pc[r] # "idle", Answer(r),
           \A u \in Users \ {ctx[r].user} : file'[u] = file[u]
    PROVE  ExclusiveInv'
BY Moved, OnlyItsUser DEF ExclusiveInv

\* A file of such a user is open only while its one request is about to write it.
LEMMA OpenOnlyByWriter ==
    ASSUME ExclusiveInv, NEW r \in Requests, pc[r] # "idle", ctx[r].user \in Exclusive
    PROVE  Open(ctx[r].user) => pc[r] = "write"
<1> SUFFICES ASSUME Open(ctx[r].user) PROVE pc[r] = "write"
  OBVIOUS
<1>1. ctx[r].user \in Users /\ ctx[r] # None
  BY FileBlobAssumption DEF ExclusiveInv, TypeInv, LocalsOf
<1>2. file[ctx[r].user].holder \in Requests
  BY <1>1 DEF Open, ExclusiveInv, TypeInv, TypeOK, File
<1>3. pc[file[ctx[r].user].holder] = "write" /\ ctx[file[ctx[r].user].holder].user = ctx[r].user
  BY <1>1 DEF ExclusiveInv, TypeInv, HeldByWriter
<1>4. ctx[file[ctx[r].user].holder] # None
  BY <1>2, <1>3 DEF ExclusiveInv, TypeInv, LocalsOf
<1> QED
  BY <1>1, <1>2, <1>3, <1>4 DEF ExclusiveInv, OneAtATime

LEMMA SubmitExclusive ==
    ASSUME ExclusiveInv, TypeInv', NEW r \in Requests, NEW u \in Users, NEW op \in Operations,
           Submit(r, u, op)
    PROVE  ExclusiveInv'
<1>1. /\ ctx'[r] = [user |-> u, op |-> op, copy |-> None, old |-> None]
      /\ pc'[r] \in {"create_exists", "load"}
      /\ \A q \in Requests \ {r} : ctx'[q] = ctx[q] /\ pc'[q] = pc[q]
  BY DEF Submit, Goto, ExclusiveInv, TypeInv, TypeOK
<1>2. OneAtATime'
  BY <1>1 DEF Submit, User, ExclusiveInv, OneAtATime
<1>3. FileAt(r)'
  BY <1>1 DEF FileAt, Replacing
<1>4. ASSUME NEW q \in Requests \ {r}, ctx'[q] # None, ctx'[q].user \in Exclusive
      PROVE  FileAt(q)'
  BY <1>1, <1>4 DEF Submit, ExclusiveInv, FileAt, Written
<1> QED
  BY <1>2, <1>3, <1>4 DEF ExclusiveInv

LEMMA LoadExclusive ==
    ASSUME ExclusiveInv, TypeInv', NEW r \in Requests, Load(r)
    PROVE  ExclusiveInv'
<1>1. pc[r] = "load" /\ UNCHANGED file /\ ctx[r] \in Context
  BY Moved DEF Load, ExclusiveInv
<1>2. CASE Answer(r)
  BY <1>1, <1>2, AnswerExclusive
<1>3. CASE ~ Answer(r)
  <2> DEFINE step == IF Op(r).kind = "delete" THEN "delete_exists" ELSE "exists"
  <2>1. Readable(User(r)) /\ Goto(r, step)
        /\ ctx' = [ctx EXCEPT ![r].copy = Changed(Op(r), file[User(r)].text)]
    BY <1>3 DEF Load
  <2>2. step \in Steps
    BY DEF Steps
  <2>3. pc'[r] = step /\ ctx'[r] = [ctx[r] EXCEPT !.copy = Changed(Op(r), file[User(r)].text)]
    BY <1>1, <2>1, <2>2, Moved DEF ExclusiveInv
  <2>4. /\ ctx'[r].user = ctx[r].user /\ ctx'[r].op = ctx[r].op
        /\ ctx'[r].copy = Changed(ctx[r].op, file[ctx[r].user].text)
    BY <1>1, <2>3 DEF Context, Op, User
  <2>5. \A q \in Requests \ {r} : pc'[q] = pc[q] /\ ctx'[q] = ctx[q]
    BY <1>1, <2>1, <2>2, Moved DEF ExclusiveInv
  <2>6. file[ctx[r].user] # None /\ file[ctx[r].user].text \in Profile
    BY <1>1, <2>1, LocalsTyped DEF Readable, Missing, User, ExclusiveInv
  <2>7. ctx[r].op.kind # "delete" => ctx[r].op.kind \in Updates
    BY <1>1 DEF Context, Operations, Updates, ExclusiveInv, TypeInv, LocalsOf
  <2>8. FileAt(r)'
    BY <1>1, <2>3, <2>4, <2>6, <2>7 DEF FileAt, Op, Replacing
  <2> QED
    BY <1>1, <2>4, <2>5, <2>8, OnlyItsUser
<1> QED
  BY <1>2, <1>3

LEMMA CreateExistsExclusive ==
    ASSUME ExclusiveInv, TypeInv', NEW r \in Requests, CreateExists(r)
    PROVE  ExclusiveInv'
<1>1. pc[r] = "create_exists" /\ UNCHANGED file /\ ctx[r] \in Context
  BY Moved DEF CreateExists, ExclusiveInv
<1>2. CASE Answer(r)
  BY <1>1, <1>2, AnswerExclusive
<1>3. CASE ~ Answer(r)
  <2>1. Missing(User(r)) /\ Goto(r, "open")
        /\ ctx' = [ctx EXCEPT ![r].copy = [roles |-> {}, stamp |-> Op(r).arg]]
    BY <1>3 DEF CreateExists
  <2>2. pc'[r] = "open" /\ ctx'[r] = [ctx[r] EXCEPT !.copy = [roles |-> {}, stamp |-> Op(r).arg]]
        /\ \A q \in Requests \ {r} : pc'[q] = pc[q] /\ ctx'[q] = ctx[q]
    BY <1>1, <2>1, Moved DEF ExclusiveInv, Steps
  <2>3. ctx'[r].user = ctx[r].user /\ ctx'[r].op = ctx[r].op /\ ctx'[r].old = ctx[r].old
    BY <1>1, <2>2 DEF Context
  <2>4. ctx[r].op.kind = "create" /\ ctx[r].old = None
    BY <1>1 DEF ExclusiveInv, TypeInv, LocalsOf
  <2>5. FileAt(r)'
    BY <1>1, <2>1, <2>2, <2>3, <2>4 DEF FileAt, Written, Missing, User
  <2> QED
    BY <1>1, <2>2, <2>3, <2>5, OnlyItsUser
<1> QED
  BY <1>2, <1>3

LEMMA ExistsExclusive ==
    ASSUME ExclusiveInv, TypeInv', NEW r \in Requests, Exists(r)
    PROVE  ExclusiveInv'
<1>1. pc[r] = "exists" /\ UNCHANGED file /\ ctx[r] \in Context
  BY Moved DEF Exists, ExclusiveInv
<1>2. CASE Answer(r)
  BY <1>1, <1>2, AnswerExclusive
<1>3. CASE ~ Answer(r)
  <2>1. ~ Missing(User(r)) /\ Goto(r, "remove")
        /\ ctx' = [ctx EXCEPT ![r].old = file[User(r)].text]
    BY <1>3 DEF Exists
  <2>2. pc'[r] = "remove" /\ ctx'[r] = [ctx[r] EXCEPT !.old = file[User(r)].text]
        /\ \A q \in Requests \ {r} : pc'[q] = pc[q] /\ ctx'[q] = ctx[q]
    BY <1>1, <2>1, Moved DEF ExclusiveInv, Steps
  <2>3. /\ ctx'[r].user = ctx[r].user /\ ctx'[r].op = ctx[r].op /\ ctx'[r].copy = ctx[r].copy
        /\ ctx'[r].old = file[ctx[r].user].text
    BY <1>1, <2>2 DEF Context, User
  <2>4. ASSUME ctx[r].user \in Exclusive PROVE FileAt(r)'
    <3>1. FileAt(r)
      BY <1>1, <2>4 DEF ExclusiveInv, TypeInv, LocalsOf
    <3> QED
      BY <1>1, <2>2, <2>3, <3>1 DEF FileAt, Written, Updates
  <2> QED
    BY <1>1, <2>2, <2>3, <2>4, OnlyItsUser
<1> QED
  BY <1>2, <1>3

LEMMA RemoveExclusive ==
    ASSUME ExclusiveInv, TypeInv', NEW r \in Requests, Remove(r)
    PROVE  ExclusiveInv'
<1>1. pc[r] = "remove" /\ ctx[r] \in Context /\ ctx[r] # None
  BY Moved DEF Remove, ExclusiveInv, TypeInv, LocalsOf
<1>2. CASE Answer(r) /\ UNCHANGED file
  BY <1>1, <1>2, AnswerExclusive
<1>3. CASE /\ Goto(r, "open")
           /\ file' = [file EXCEPT ![User(r)] = None]
           /\ UNCHANGED ctx
  <2>0. /\ file'[ctx[r].user] = None
        /\ \A u \in Users \ {ctx[r].user} : file'[u] = file[u]
    BY <1>1, <1>3, LocalsTyped DEF ExclusiveInv, TypeInv, TypeOK, User
  <2>1. /\ pc'[r] = "open" /\ ctx'[r] = ctx[r]
        /\ \A q \in Requests \ {r} : pc'[q] = pc[q] /\ ctx'[q] = ctx[q]
    BY <1>1, <1>3, Moved DEF ExclusiveInv, Steps
  <2>2. ASSUME ctx[r].user \in Exclusive PROVE FileAt(r)'
    <3>1. FileAt(r)
      BY <1>1, <2>2 DEF ExclusiveInv
    <3> QED
      BY <1>1, <2>0, <2>1, <3>1 DEF FileAt, Written, Replacing
  <2> QED
    BY <1>1, <2>0, <2>1, <2>2, OnlyItsUser
<1> QED
  BY <1>2, <1>3 DEF Remove

LEMMA OpenFileExclusive ==
    ASSUME ExclusiveInv, TypeInv', NEW r \in Requests, OpenFile(r)
    PROVE  ExclusiveInv'
<1>1. pc[r] = "open" /\ ctx[r] \in Context /\ ctx[r] # None
  BY Moved DEF OpenFile, ExclusiveInv, TypeInv, LocalsOf
<1>2. CASE Answer(r) /\ UNCHANGED file
  BY <1>1, <1>2, AnswerExclusive
<1>3. CASE ~ (Answer(r) /\ UNCHANGED file)
  <2> DEFINE opened == IF Missing(User(r)) THEN [text |-> Damaged, empty |-> TRUE, holder |-> r]
                       ELSE [file[User(r)] EXCEPT !.holder = r]
  <2>1. Goto(r, "write") /\ UNCHANGED ctx /\ file' = [file EXCEPT ![ctx[r].user] = opened]
    BY <1>3 DEF OpenFile, User
  <2>2. /\ pc'[r] = "write" /\ ctx'[r] = ctx[r]
        /\ \A q \in Requests \ {r} : pc'[q] = pc[q] /\ ctx'[q] = ctx[q]
    BY <1>1, <2>1, Moved DEF ExclusiveInv, Steps
  <2>3. file'[ctx[r].user] = opened /\ \A u \in Users \ {ctx[r].user} : file'[u] = file[u]
    BY <1>1, <2>1, LocalsTyped DEF ExclusiveInv, TypeInv, TypeOK
  <2>4. ASSUME ctx[r].user \in Exclusive PROVE FileAt(r)'
    <3>1. FileAt(r)
      BY <1>1, <2>4 DEF ExclusiveInv
    <3> QED
      BY <1>1, <2>2, <2>3, <3>1 DEF FileAt, Written, Replacing, Missing, User
  <2> QED
    BY <1>1, <2>2, <2>3, <2>4, OnlyItsUser
<1> QED
  BY <1>2, <1>3

LEMMA WriteFileExclusive ==
    ASSUME ExclusiveInv, TypeInv', NEW r \in Requests, WriteFile(r)
    PROVE  ExclusiveInv'
<1>1. pc[r] = "write" /\ Answer(r)
  BY DEF WriteFile
<1>2. \A u \in Users \ {ctx[r].user} : file'[u] = file[u]
  BY DEF WriteFile, User, ExclusiveInv, TypeInv, TypeOK
<1> QED
  BY <1>1, <1>2, AnswerExclusive

LEMMA DeleteExistsExclusive ==
    ASSUME ExclusiveInv, TypeInv', NEW r \in Requests, DeleteExists(r)
    PROVE  ExclusiveInv'
<1>1. pc[r] = "delete_exists" /\ UNCHANGED file /\ ctx[r] \in Context
  BY Moved DEF DeleteExists, ExclusiveInv
<1>2. CASE Answer(r)
  BY <1>1, <1>2, AnswerExclusive
<1>3. CASE ~ Answer(r)
  <2>1. ~ Missing(User(r)) /\ Goto(r, "delete") /\ UNCHANGED ctx
    BY <1>3 DEF DeleteExists
  <2>2. pc'[r] = "delete" /\ ctx'[r] = ctx[r]
        /\ \A q \in Requests \ {r} : pc'[q] = pc[q] /\ ctx'[q] = ctx[q]
    BY <1>1, <2>1, Moved DEF ExclusiveInv, Steps
  <2>3. FileAt(r)'
    BY <1>1, <2>1, <2>2 DEF FileAt, Missing, User, Replacing
  <2> QED
    BY <1>1, <2>2, <2>3, OnlyItsUser
<1> QED
  BY <1>2, <1>3

LEMMA DeleteExclusive ==
    ASSUME ExclusiveInv, TypeInv', NEW r \in Requests, Delete(r)
    PROVE  ExclusiveInv'
<1>1. pc[r] = "delete" /\ Answer(r)
  BY DEF Delete
<1>2. \A u \in Users \ {ctx[r].user} : file'[u] = file[u]
  BY DEF Delete, User, ExclusiveInv, TypeInv, TypeOK
<1> QED
  BY <1>1, <1>2, AnswerExclusive

LEMMA StepExclusive == ExclusiveInv /\ [Next]_vars => ExclusiveInv'
<1> SUFFICES ASSUME ExclusiveInv, [Next]_vars PROVE ExclusiveInv'
  OBVIOUS
<1>0. TypeInv'
  BY StepTypeInv DEF ExclusiveInv
<1>1. CASE UNCHANGED vars
  BY <1>0, <1>1 DEF vars, ExclusiveInv, OneAtATime, FileAt, Written
<1>2. CASE Crash
  BY <1>0, <1>2 DEF Crash, ExclusiveInv, OneAtATime
<1>3. ASSUME NEW r \in Requests, Step(r) PROVE ExclusiveInv'
  BY <1>0, <1>3, LoadExclusive, CreateExistsExclusive, ExistsExclusive, RemoveExclusive,
     OpenFileExclusive, WriteFileExclusive, DeleteExistsExclusive, DeleteExclusive DEF Step
<1> QED
  BY <1>0, <1>1, <1>2, <1>3, SubmitExclusive DEF Next

LEMMA ExclusiveInductive == Spec => []ExclusiveInv
BY ExclusiveInvInit, StepExclusive, PTL DEF Spec

-----------------------------------------------------------------------------
(***************************************************************************)
(* The refinement of UserStore.                                            *)
(***************************************************************************)
\* What the store of the refinement mapping holds of a user: the old profile
\* while the request that has the user rewrites the file, else what is in the
\* file.
HoldsOld ==
    \A u \in Exclusive : \A r \in Requests :
       Rewriting(r, u) => StoredAs(u) = ctx[r].old

HoldsText ==
    \A u \in Exclusive :
       (\A r \in Requests : ~ Rewriting(r, u)) =>
          StoredAs(u) = IF file[u] = None THEN None ELSE file[u].text

LEMMA Stored == ExclusiveInv => HoldsOld /\ HoldsText
<1> SUFFICES ASSUME ExclusiveInv PROVE HoldsOld /\ HoldsText
  OBVIOUS
<1>1. HoldsText
  BY DEF HoldsText, StoredAs, Missing
<1>2. ASSUME NEW u \in Exclusive, NEW r \in Requests, Rewriting(r, u)
      PROVE  StoredAs(u) = ctx[r].old
  <2>1. \A q \in Requests : Rewriting(q, u) => q = r
    BY <1>2 DEF ExclusiveInv, OneAtATime, Rewriting, Working, User
  <2>2. (CHOOSE q \in Requests : Rewriting(q, u)) = r
    BY <1>2, <2>1
  <2> QED
    BY <1>2, <2>2 DEF StoredAs
<1> QED
  BY <1>1, <1>2 DEF HoldsOld

LEMMA StoredThen == (ExclusiveInv => HoldsOld /\ HoldsText)'
BY Stored, PTL

storedNow == [u \in Exclusive |-> StoredAs(u)]
busyNow == {u \in Exclusive : ~ Quiet(u)}

\* A step that touches one user changes its entry of the abstract store only.
LEMMA OneEntry ==
    ASSUME NEW u \in Exclusive,
           \A x \in Exclusive \ {u} : StoredAs(x)' = StoredAs(x) /\ (Quiet(x)' <=> Quiet(x))
    PROVE  /\ storedNow' = [storedNow EXCEPT ![u] = StoredAs(u)']
           /\ busyNow' = IF Quiet(u)' THEN busyNow \ {u} ELSE busyNow \cup {u}
<1>1. \A x \in Exclusive : StoredAs(x)' = IF x = u THEN StoredAs(u)' ELSE StoredAs(x)
  OBVIOUS
<1>2. storedNow' = [storedNow EXCEPT ![u] = StoredAs(u)']
  BY <1>1 DEF storedNow
<1>3. \A x \in Exclusive : Quiet(x)' <=> IF x = u THEN Quiet(u)' ELSE Quiet(x)
  OBVIOUS
<1>4. busyNow' = IF Quiet(u)' THEN busyNow \ {u} ELSE busyNow \cup {u}
  BY <1>3 DEF busyNow
<1> QED
  BY <1>2, <1>4

\* Requests and files that are none of the user x: its entry stays.
LEMMA EntryStays ==
    ASSUME ExclusiveInv, ExclusiveInv', NEW r \in Requests, NEW x \in Exclusive,
           \A q \in Requests \ {r} : pc'[q] = pc[q] /\ ctx'[q] = ctx[q],
           ctx[r] # None => ctx[r].user # x,
           ctx'[r] # None => ctx'[r].user # x,
           file'[x] = file[x]
    PROVE  StoredAs(x)' = StoredAs(x) /\ (Quiet(x)' <=> Quiet(x))
<1>1. \A q \in Requests : /\ Working(q, x)' <=> Working(q, x)
                          /\ Rewriting(q, x)' <=> Rewriting(q, x)
                          /\ Working(q, x) => q # r
  BY DEF Working, Rewriting, User
<1>2. Quiet(x)' <=> Quiet(x)
  BY <1>1 DEF Quiet
<1>3. CASE \E q \in Requests : Rewriting(q, x)
  <2> PICK q \in Requests : Rewriting(q, x)
    BY <1>3
  <2>1. q # r /\ Rewriting(q, x)' /\ ctx'[q] = ctx[q]
    BY <1>1 DEF Rewriting
  <2> QED
    BY <1>2, <2>1, Stored, StoredThen DEF HoldsOld
<1>4. CASE \A q \in Requests : ~ Rewriting(q, x)
  BY <1>1, <1>2, <1>4, Stored, StoredThen DEF HoldsText
<1> QED
  BY <1>3, <1>4

\* The user of the request r is nobody else's.
LEMMA OwnEntry ==
    ASSUME ExclusiveInv, NEW r \in Requests, ctx[r] # None, ctx[r].user \in Exclusive
    PROVE  /\ ~ Quiet(ctx[r].user)
           /\ pc[r] \in {"open", "write"} => StoredAs(ctx[r].user) = ctx[r].old
           /\ pc[r] \notin {"open", "write"} =>
                 StoredAs(ctx[r].user) =
                    IF file[ctx[r].user] = None THEN None ELSE file[ctx[r].user].text
<1>1. \A q \in Requests : Working(q, ctx[r].user) <=> q = r
  BY DEF ExclusiveInv, OneAtATime, Working, User
<1>2. ~ Quiet(ctx[r].user)
  BY <1>1 DEF Quiet
<1>3. \A q \in Requests : Rewriting(q, ctx[r].user) <=> q = r /\ pc[r] \in {"open", "write"}
  BY <1>1 DEF Rewriting
<1> QED
  BY <1>2, <1>3, Stored DEF HoldsOld, HoldsText

OwnEntries ==
    \A r \in Requests : ctx[r] # None /\ ctx[r].user \in Exclusive =>
       /\ ~ Quiet(ctx[r].user)
       /\ pc[r] \in {"open", "write"} => StoredAs(ctx[r].user) = ctx[r].old
       /\ pc[r] \notin {"open", "write"} =>
             StoredAs(ctx[r].user) =
                IF file[ctx[r].user] = None THEN None ELSE file[ctx[r].user].text

LEMMA OwnEntriesThen == (ExclusiveInv => OwnEntries)'
<1>1. ExclusiveInv => OwnEntries
  BY OwnEntry DEF OwnEntries
<1> QED
  BY <1>1, PTL

\* After an answer nobody works on the user.
LEMMA NobodysEntry ==
    ASSUME ExclusiveInv, ExclusiveInv', NEW r \in Requests, ctx[r] # None,
           ctx[r].user \in Exclusive, ctx'[r] = None,
           \A q \in Requests \ {r} : pc'[q] = pc[q] /\ ctx'[q] = ctx[q],
           NEW u, u = ctx[r].user
    PROVE  /\ Quiet(u)'
           /\ StoredAs(u)' = IF file'[u] = None THEN None ELSE file'[u].text
<1>1. \A q \in Requests : ~ (ctx'[q] # None /\ ctx'[q].user = u)
  BY DEF ExclusiveInv, OneAtATime
<1>2. Quiet(u)' /\ \A q \in Requests : ~ Rewriting(q, u)'
  BY <1>1 DEF Quiet, Working, Rewriting, User
<1> QED
  BY <1>2, StoredThen DEF HoldsText

AbstractStep == [Store!Next]_<<storedNow, busyNow>>

LEMMA SubmitRefines ==
    ASSUME ExclusiveInv, ExclusiveInv', NEW r \in Requests, NEW u \in Users,
           NEW op \in Operations, Submit(r, u, op)
    PROVE  AbstractStep
<1>1. /\ ctx[r] = None
      /\ ctx'[r] = [user |-> u, op |-> op, copy |-> None, old |-> None]
      /\ ctx'[r] # None /\ ctx'[r].user = u
      /\ pc'[r] \in {"create_exists", "load"}
      /\ \A q \in Requests \ {r} : ctx'[q] = ctx[q] /\ pc'[q] = pc[q]
      /\ UNCHANGED file
  BY NoneAssumption DEF Submit, Goto, ExclusiveInv, TypeInv, TypeOK, LocalsOf, Context
<1>2. \A x \in Exclusive \ {u} : StoredAs(x)' = StoredAs(x) /\ (Quiet(x)' <=> Quiet(x))
  BY <1>1, EntryStays
<1>3. CASE u \notin Exclusive
  BY <1>2, <1>3 DEF AbstractStep, storedNow, busyNow
<1>4. CASE u \in Exclusive
  <2>1. Quiet(u)
    BY <1>4 DEF Submit, Quiet, Working
  <2>2. StoredAs(u) = IF file[u] = None THEN None ELSE file[u].text
    BY <1>4, <2>1, Stored DEF HoldsText, Quiet, Rewriting
  <2>3. StoredAs(u)' = StoredAs(u) /\ ~ Quiet(u)'
    BY <1>1, <1>4, <2>2, OwnEntriesThen DEF OwnEntries
  <2>4. storedNow' = storedNow /\ busyNow' = busyNow \cup {u} /\ u \notin busyNow
    BY <1>2, <1>4, <2>1, <2>3, OneEntry DEF storedNow, busyNow
  <2> QED
    BY <1>4, <2>4 DEF AbstractStep, storedNow, busyNow, Store!Next, Store!Begin
<1> QED
  BY <1>3, <1>4

\* A step of the request r, which works on u: all other users keep their entries,
\* and u's is what the step makes of it.
StepOf(r) ==
    /\ pc[r] # "idle"
    /\ \A q \in Requests \ {r} : pc'[q] = pc[q] /\ ctx'[q] = ctx[q]
    /\ ctx'[r] # None => ctx'[r].user = ctx[r].user
    /\ \A x \in Users \ {ctx[r].user} : file'[x] = file[x]

LEMMA StepOfOne ==
    ASSUME ExclusiveInv, ExclusiveInv', NEW r \in Requests, StepOf(r),
           NEW u, u = ctx[r].user
    PROVE  /\ u \notin Exclusive => AbstractStep
           /\ u \in Exclusive =>
                 /\ storedNow' = [storedNow EXCEPT ![u] = StoredAs(u)']
                 /\ u \in busyNow
                 /\ ctx'[r] # None => busyNow' = busyNow
                 /\ ctx'[r] = None => busyNow' = busyNow \ {u}
                 /\ storedNow[u] = StoredAs(u)
<1>0. ctx[r] # None
  BY DEF StepOf, ExclusiveInv, TypeInv, LocalsOf
<1>1. \A x \in Exclusive \ {u} : StoredAs(x)' = StoredAs(x) /\ (Quiet(x)' <=> Quiet(x))
  BY EntryStays, FileBlobAssumption DEF StepOf
<1>2. CASE u \notin Exclusive
  BY <1>1, <1>2 DEF AbstractStep, storedNow, busyNow
<1>3. CASE u \in Exclusive
  <2>1. u \in busyNow
    BY <1>0, <1>3, OwnEntry DEF busyNow
  <2>2. ctx'[r] # None => ~ Quiet(u)'
    BY <1>3, OwnEntriesThen DEF OwnEntries, StepOf
  <2>3. ctx'[r] = None => Quiet(u)'
    BY <1>0, <1>3, NobodysEntry DEF StepOf
  <2>4. /\ storedNow' = [storedNow EXCEPT ![u] = StoredAs(u)']
        /\ busyNow' = IF Quiet(u)' THEN busyNow \ {u} ELSE busyNow \cup {u}
    BY <1>1, <1>3, OneEntry
  <2>5. storedNow[u] = StoredAs(u)
    BY <1>3 DEF storedNow
  <2> QED
    BY <1>3, <2>1, <2>2, <2>3, <2>4, <2>5
<1> QED
  BY <1>2, <1>3

\* The entry before and after the step, as far as it is settled by where r is.
LEMMA EntryBefore ==
    ASSUME ExclusiveInv, NEW r \in Requests, pc[r] # "idle",
           NEW u, u = ctx[r].user, u \in Exclusive
    PROVE  StoredAs(u) = IF pc[r] \in {"open", "write"} THEN ctx[r].old
                         ELSE IF file[u] = None THEN None ELSE file[u].text
BY OwnEntry DEF ExclusiveInv, TypeInv, LocalsOf

LEMMA EntryAfter ==
    ASSUME ExclusiveInv, ExclusiveInv', NEW r \in Requests, StepOf(r),
           NEW u, u = ctx[r].user, u \in Exclusive
    PROVE  StoredAs(u)' = IF pc'[r] \in {"open", "write"} THEN ctx'[r].old
                          ELSE IF file'[u] = None THEN None ELSE file'[u].text
<1>1. CASE ctx'[r] = None
  <2>1. pc'[r] = "idle" /\ ctx[r] # None
    BY <1>1 DEF ExclusiveInv, TypeInv, LocalsOf, StepOf
  <2> QED
    BY <1>1, <2>1, NobodysEntry DEF StepOf
<1>2. CASE ctx'[r] # None
  BY <1>2, OwnEntriesThen DEF OwnEntries, StepOf
<1> QED
  BY <1>1, <1>2

\* A step that leaves the entry as it is is a stutter, or the end of a change
\* that came to nothing.
LEMMA SilentRefines ==
    ASSUME ExclusiveInv, ExclusiveInv', NEW r \in Requests, StepOf(r),
           \A u \in Exclusive : u = ctx[r].user => StoredAs(u)' = StoredAs(u)
    PROVE  AbstractStep
<1>1. CASE ctx[r].user \notin Exclusive
  BY <1>1, StepOfOne
<1>2. ASSUME NEW u \in Exclusive, u = ctx[r].user PROVE AbstractStep
  <2>0. /\ storedNow' = [storedNow EXCEPT ![u] = StoredAs(u)']
        /\ storedNow[u] = StoredAs(u) /\ u \in busyNow
    BY <1>2, StepOfOne
  <2>1. storedNow' = storedNow /\ u \in busyNow
    BY <1>2, <2>0 DEF storedNow
  <2>2. CASE ctx'[r] # None
    BY <1>2, <2>1, <2>2, StepOfOne DEF AbstractStep
  <2>3. CASE ctx'[r] = None
    <3>1. busyNow' = busyNow \ {u}
      BY <1>2, <2>3, StepOfOne
    <3>2. Store!Cancel(u)
      BY <2>1, <3>1 DEF Store!Cancel, storedNow, busyNow
    <3> QED
      BY <1>2, <3>2 DEF AbstractStep, Store!Next
  <2> QED
    BY <2>2, <2>3
<1> QED
  BY <1>1, <1>2

\* A step that answers, or goes on with the user and the operation it has.
LEMMA StepsOn ==
    ASSUME ExclusiveInv, NEW r \in Requests, pc[r] # "idle",
           \A x \in Users \ {ctx[r].user} : file'[x] = file[x]
    PROVE  /\ Answer(r) => StepOf(r) /\ pc'[r] = "idle"
           /\ \A step \in Steps : \A x :
                 /\ Goto(r, step)
                 /\ \/ UNCHANGED ctx
                    \/ ctx' = [ctx EXCEPT ![r].copy = x]
                    \/ ctx' = [ctx EXCEPT ![r].old = x]
                 => /\ StepOf(r) /\ pc'[r] = step
                    /\ ctx'[r].old = IF ctx' = [ctx EXCEPT ![r].old = x] THEN x ELSE ctx[r].old
<1>1. ctx[r] \in Context
  BY LocalsTyped DEF ExclusiveInv
<1>2. Answer(r) => StepOf(r) /\ pc'[r] = "idle"
  BY Moved DEF StepOf, Answer, Goto, ExclusiveInv, TypeInv, TypeOK
<1>3. ASSUME NEW step \in Steps, NEW x, Goto(r, step), UNCHANGED ctx
      PROVE  StepOf(r) /\ pc'[r] = step /\ ctx'[r].old = ctx[r].old
  BY <1>3, Moved DEF StepOf, ExclusiveInv
<1>4. ASSUME NEW step \in Steps, NEW x, Goto(r, step), ctx' = [ctx EXCEPT ![r].copy = x]
      PROVE  StepOf(r) /\ pc'[r] = step /\ ctx'[r].old = ctx[r].old
  <2>1. ctx'[r] = [ctx[r] EXCEPT !.copy = x] /\ pc'[r] = step
        /\ \A q \in Requests \ {r} : pc'[q] = pc[q] /\ ctx'[q] = ctx[q]
    BY <1>4, Moved DEF ExclusiveInv
  <2>2. ctx'[r].user = ctx[r].user /\ ctx'[r].old = ctx[r].old
    BY <1>1, <2>1 DEF Context
  <2> QED
    BY <2>1, <2>2 DEF StepOf
<1>5. ASSUME NEW step \in Steps, NEW x, Goto(r, step), ctx' = [ctx EXCEPT ![r].old = x]
      PROVE  StepOf(r) /\ pc'[r] = step /\ ctx'[r].old = x
  <2>1. ctx'[r] = [ctx[r] EXCEPT !.old = x] /\ pc'[r] = step
        /\ \A q \in Requests \ {r} : pc'[q] = pc[q] /\ ctx'[q] = ctx[q]
    BY <1>5, Moved DEF ExclusiveInv
  <2>2. ctx'[r].user = ctx[r].user /\ ctx'[r].old = x
    BY <1>1, <2>1 DEF Context
  <2> QED
    BY <2>1, <2>2 DEF StepOf
<1> QED
  BY <1>2, <1>3, <1>4, <1>5

\* Answers and looks at the file leave the entry as it is.
LEMMA LookRefines ==
    ASSUME ExclusiveInv, ExclusiveInv', NEW r \in Requests, StepOf(r), UNCHANGED file,
           \/ pc[r] \notin {"open", "write"} /\ pc'[r] \notin {"open", "write"}
           \/ /\ pc[r] \notin {"open", "write"} /\ pc'[r] \in {"open", "write"}
              /\ file[ctx[r].user] = None /\ ctx'[r].old = None
    PROVE  AbstractStep
<1>1. ASSUME NEW u \in Exclusive, u = ctx[r].user
      PROVE  StoredAs(u)' = StoredAs(u)
  <2>1. StoredAs(u) = IF file[u] = None THEN None ELSE file[u].text
    BY <1>1, EntryBefore DEF StepOf
  <2>2. StoredAs(u)' = IF pc'[r] \in {"open", "write"} THEN ctx'[r].old
                       ELSE IF file'[u] = None THEN None ELSE file'[u].text
    BY <1>1, EntryAfter
  <2> QED
    BY <1>1, <2>1, <2>2
<1> QED
  BY <1>1, SilentRefines

LEMMA LoadRefines ==
    ASSUME ExclusiveInv, ExclusiveInv', NEW r \in Requests, Load(r)
    PROVE  AbstractStep
<1>1. pc[r] = "load" /\ UNCHANGED file
  BY DEF Load
<1>2. StepOf(r) /\ pc'[r] \notin {"open", "write"}
  BY <1>1, StepsOn DEF Load, Steps
<1> QED
  BY <1>1, <1>2, LookRefines

LEMMA CreateExistsRefines ==
    ASSUME ExclusiveInv, ExclusiveInv', NEW r \in Requests, CreateExists(r)
    PROVE  AbstractStep
<1>1. pc[r] = "create_exists" /\ UNCHANGED file /\ ctx[r].old = None
  BY DEF CreateExists, ExclusiveInv, TypeInv, LocalsOf
<1>2. CASE Answer(r)
  BY <1>1, <1>2, StepsOn, LookRefines
<1>3. CASE ~ Answer(r)
  <2> DEFINE new == [roles |-> {}, stamp |-> Op(r).arg]
  <2>1. Missing(User(r)) /\ Goto(r, "open") /\ ctx' = [ctx EXCEPT ![r].copy = new]
    BY <1>3 DEF CreateExists
  <2>2. ctx[r] \in Context
    BY <1>1, LocalsTyped DEF ExclusiveInv
  <2>3. ctx'[r] = [ctx[r] EXCEPT !.copy = new]
    BY <1>1, <2>1, Moved DEF ExclusiveInv
  <2>4. StepOf(r) /\ pc'[r] = "open"
    BY <1>1, <2>1, StepsOn DEF Steps
  <2> QED
    BY <1>1, <2>1, <2>2, <2>3, <2>4, LookRefines DEF Missing, User, Context
<1> QED
  BY <1>2, <1>3

LEMMA ExistsRefines ==
    ASSUME ExclusiveInv, ExclusiveInv', NEW r \in Requests, Exists(r)
    PROVE  AbstractStep
<1>1. pc[r] = "exists" /\ UNCHANGED file
  BY DEF Exists
<1>2. StepOf(r) /\ pc'[r] \notin {"open", "write"}
  BY <1>1, StepsOn DEF Exists, Steps
<1> QED
  BY <1>1, <1>2, LookRefines

LEMMA DeleteExistsRefines ==
    ASSUME ExclusiveInv, ExclusiveInv', NEW r \in Requests, DeleteExists(r)
    PROVE  AbstractStep
<1>1. pc[r] = "delete_exists" /\ UNCHANGED file
  BY DEF DeleteExists
<1>2. StepOf(r) /\ pc'[r] \notin {"open", "write"}
  BY <1>1, StepsOn DEF DeleteExists, Steps
<1> QED
  BY <1>1, <1>2, LookRefines

LEMMA RemoveRefines ==
    ASSUME ExclusiveInv, ExclusiveInv', NEW r \in Requests, Remove(r)
    PROVE  AbstractStep
<1>1. pc[r] = "remove" /\ ctx[r] # None
  BY DEF Remove, ExclusiveInv, TypeInv, LocalsOf
<1>2. CASE Answer(r) /\ UNCHANGED file
  BY <1>1, <1>2, StepsOn, LookRefines
<1>3. CASE /\ Goto(r, "open")
           /\ file' = [file EXCEPT ![User(r)] = None]
           /\ UNCHANGED ctx
  <2>1. \A x \in Users \ {ctx[r].user} : file'[x] = file[x]
    BY <1>3 DEF User, ExclusiveInv, TypeInv, TypeOK
  <2>2. StepOf(r) /\ pc'[r] = "open" /\ ctx'[r] = ctx[r]
    BY <1>1, <1>3, <2>1, StepsOn DEF Steps
  <2>3. ASSUME NEW u \in Exclusive, u = ctx[r].user
        PROVE  StoredAs(u)' = StoredAs(u)
    <3>1. FileAt(r)
      BY <1>1, <2>3 DEF ExclusiveInv
    <3>2. StoredAs(u) = IF file[u] = None THEN None ELSE file[u].text
      BY <1>1, <2>3, EntryBefore
    <3>3. StoredAs(u)' = ctx'[r].old
      BY <2>2, <2>3, EntryAfter
    <3> QED
      BY <1>1, <2>2, <2>3, <3>1, <3>2, <3>3 DEF FileAt
  <2> QED
    BY <2>2, <2>3, SilentRefines
<1> QED
  BY <1>2, <1>3 DEF Remove

LEMMA OpenFileRefines ==
    ASSUME ExclusiveInv, ExclusiveInv', NEW r \in Requests, OpenFile(r)
    PROVE  AbstractStep
<1>1. pc[r] = "open" /\ ctx[r] # None
  BY DEF OpenFile, ExclusiveInv, TypeInv, LocalsOf
<1>2. \A x \in Users \ {ctx[r].user} : file'[x] = file[x]
  BY DEF OpenFile, User, ExclusiveInv, TypeInv, TypeOK
<1>3. StepOf(r)
  BY <1>1, <1>2, StepsOn DEF OpenFile, Steps
<1>4. ASSUME NEW u \in Exclusive, u = ctx[r].user
      PROVE  StoredAs(u)' = StoredAs(u)
  <2>1. FileAt(r)
    BY <1>1, <1>4 DEF ExclusiveInv
  <2>2. ~ Open(User(r))
    BY <1>1, <1>4, <2>1 DEF FileAt, Open, User
  <2>3. pc'[r] = "write" /\ ctx'[r] = ctx[r]
    BY <1>1, <1>2, <2>2, StepsOn DEF OpenFile, Steps
  <2>4. StoredAs(u)' = ctx'[r].old
    BY <1>3, <1>4, <2>3, EntryAfter
  <2>5. StoredAs(u) = ctx[r].old
    BY <1>1, <1>4, EntryBefore
  <2> QED
    BY <2>3, <2>4, <2>5
<1> QED
  BY <1>3, <1>4, SilentRefines

LEMMA WriteFileRefines ==
    ASSUME ExclusiveInv, ExclusiveInv', NEW r \in Requests, WriteFile(r)
    PROVE  AbstractStep
<1>1. pc[r] = "write" /\ ctx[r] # None /\ ctx[r] \in Context /\ ctx[r].copy \in Profile
  BY LocalsTyped DEF WriteFile, ExclusiveInv, TypeInv, LocalsOf, Replacing
<1>2. \A x \in Users \ {ctx[r].user} : file'[x] = file[x]
  BY DEF WriteFile, User, ExclusiveInv, TypeInv, TypeOK
<1>3. StepOf(r) /\ pc'[r] = "idle" /\ ctx'[r] = None
  BY <1>1, <1>2, StepsOn, Moved DEF WriteFile, ExclusiveInv
<1>4. CASE ctx[r].user \notin Exclusive
  BY <1>3, <1>4, StepOfOne
<1>5. ASSUME NEW u \in Exclusive, u = ctx[r].user PROVE AbstractStep
  <2>1. FileAt(r) /\ u \in Users
    BY <1>1, <1>5, FileBlobAssumption DEF ExclusiveInv
  <2>2. file[u] = [text |-> Damaged, empty |-> TRUE, holder |-> r] /\ Written(r)
    BY <1>1, <1>5, <2>1 DEF FileAt, Replacing
  <2>3. ~ Missing(User(r)) /\ file[User(r)].holder = r /\ file[User(r)].empty
    <3>1. [text |-> Damaged, empty |-> TRUE, holder |-> r] \in File
      BY DEF File
    <3>2. file[u] # None
      BY <2>2, <3>1, NoneAssumption
    <3>3. file[u].holder = r /\ file[u].empty
      BY <2>2
    <3> QED
      BY <1>5, <3>2, <3>3 DEF Missing, User
  <2>4. file' = [file EXCEPT ![u] = [text |-> ctx[r].copy, empty |-> FALSE, holder |-> None]]
    BY <1>5, <2>3 DEF WriteFile, User
  <2>5. file'[u] = [text |-> ctx[r].copy, empty |-> FALSE, holder |-> None]
    BY <2>1, <2>4 DEF ExclusiveInv, TypeInv, TypeOK
  <2>6. file'[u] # None
    <3>1. [text |-> ctx[r].copy, empty |-> FALSE, holder |-> None] \in File
      BY <1>1 DEF File
    <3> QED
      BY <2>5, <3>1, NoneAssumption
  <2>7. StoredAs(u)' = ctx[r].copy
    BY <1>3, <1>5, <2>5, <2>6, EntryAfter
  <2>8. StoredAs(u) = ctx[r].old
    BY <1>1, <1>5, EntryBefore
  <2>9. Store!Commit(u, ctx[r].copy)
    BY <1>3, <1>5, <2>7, StepOfOne DEF Store!Commit, storedNow, busyNow
  <2>10. CASE ctx[r].old = None
    BY <1>1, <1>5, <2>8, <2>9, <2>10
       DEF AbstractStep, Store!Next, Store!Create, Store!Profile, Profile, storedNow, busyNow
  <2>11. CASE ctx[r].old # None
    <3>1. ctx[r].old \in Profile /\ ctx[r].copy = Changed(ctx[r].op, ctx[r].old)
      BY <2>2, <2>11 DEF Written
    <3>2. ctx[r].copy.roles = ctx[r].old.roles \/ ctx[r].copy.stamp = ctx[r].old.stamp
      BY <1>1, <3>1, ChangedOneThing, LocalsTyped DEF ExclusiveInv
    <3>3. Store!Change(u, ctx[r].copy)
      BY <1>5, <2>8, <2>9, <3>1, <3>2 DEF Store!Change, Store!Profile, Profile
    <3> QED
      BY <1>1, <1>5, <3>3
         DEF AbstractStep, Store!Next, Store!Profile, Profile, storedNow, busyNow
  <2> QED
    BY <2>10, <2>11
<1> QED
  BY <1>4, <1>5

LEMMA DeleteRefines ==
    ASSUME ExclusiveInv, ExclusiveInv', NEW r \in Requests, Delete(r)
    PROVE  AbstractStep
<1>1. pc[r] = "delete" /\ ctx[r] # None
  BY DEF Delete, ExclusiveInv, TypeInv, LocalsOf
<1>2. \A x \in Users \ {ctx[r].user} : file'[x] = file[x]
  BY DEF Delete, User, ExclusiveInv, TypeInv, TypeOK
<1>3. StepOf(r) /\ pc'[r] = "idle" /\ ctx'[r] = None
  BY <1>1, <1>2, StepsOn, Moved DEF Delete, ExclusiveInv
<1>4. CASE ctx[r].user \notin Exclusive
  BY <1>3, <1>4, StepOfOne
<1>5. ASSUME NEW u \in Exclusive, u = ctx[r].user PROVE AbstractStep
  <2>1. file[u] # None /\ ~ Open(User(r)) /\ u \in Users
    BY <1>1, <1>5, OpenOnlyByWriter, FileBlobAssumption DEF ExclusiveInv, FileAt, User
  <2>2. file'[u] = None
    BY <1>5, <2>1 DEF Delete, User, ExclusiveInv, TypeInv, TypeOK
  <2>3. StoredAs(u)' = None
    BY <1>3, <1>5, <2>2, EntryAfter
  <2>4. StoredAs(u) = file[u].text /\ file[u].text # None
    BY <1>1, <1>5, <2>1, EntryBefore, LocalsTyped DEF ExclusiveInv
  <2>5. Store!Delete(u)
    BY <1>3, <1>5, <2>3, <2>4, StepOfOne DEF Store!Delete, Store!Commit, storedNow, busyNow
  <2> QED
    BY <1>5, <2>5 DEF AbstractStep, Store!Next
<1> QED
  BY <1>4, <1>5

LEMMA CrashRefines ==
    ASSUME ExclusiveInv, ExclusiveInv', Crash
    PROVE  AbstractStep
<1>1. busyNow' = {}
  BY DEF Crash, busyNow, Quiet, Working
<1>2. ASSUME NEW u \in Exclusive
      PROVE  StoredAs(u)' = IF file[u] = None THEN None ELSE file[u].text
  <2>1. StoredAs(u)' = IF file'[u] = None THEN None ELSE file'[u].text
    BY StoredThen DEF HoldsText, Crash, Rewriting
  <2>2. u \in Users /\ file[u] \in File \cup {None}
    BY FileBlobAssumption DEF ExclusiveInv, TypeInv, TypeOK
  <2>3. file[u] # None => file'[u] # None /\ file'[u].text = file[u].text
    BY <2>2, NoneAssumption DEF Crash, Missing, File
  <2>4. file[u] = None => file'[u] = None
    BY <2>2 DEF Crash, Missing
  <2> QED
    BY <2>1, <2>3, <2>4
<1>3. ASSUME NEW u \in Exclusive
      PROVE  /\ StoredAs(u)' \in Profile \cup {None, Damaged}
             /\ StoredAs(u)' # StoredAs(u) =>
                   u \in busyNow /\ StoredAs(u)' \in {None, Damaged}
  <2>1. StoredAs(u)' \in Profile \cup {None, Damaged}
    BY <1>2, FileBlobAssumption DEF ExclusiveInv, TypeInv, TypeOK, File
  <2>2. CASE \A r \in Requests : ~ Rewriting(r, u)
    BY <1>2, <2>1, <2>2, Stored DEF HoldsText
  <2>3. CASE \E r \in Requests : Rewriting(r, u)
    <3>1. PICK r \in Requests : Rewriting(r, u)
      BY <2>3
    <3>2. FileAt(r) /\ ctx[r].user = u /\ pc[r] \in {"open", "write"}
      BY <3>1 DEF ExclusiveInv, Rewriting, Working, User
    <3>3. file[u] = None \/ file[u].text = Damaged
      BY <3>2 DEF FileAt
    <3>4. u \in busyNow
      BY <3>1 DEF busyNow, Quiet, Rewriting
    <3> QED
      BY <1>2, <2>1, <3>3, <3>4
  <2> QED
    BY <2>2, <2>3
<1>4. Store!Crash
  BY <1>1, <1>3 DEF Store!Crash, Store!Profile, Profile, storedNow, busyNow
<1> QED
  BY <1>4 DEF AbstractStep, Store!Next

\* FileBlobUserDb implements UserStore: to requests that do not overlap on a
\* user its finds, deletes, opens and writes, cut off by a crash at any point,
\* look like atomic creations, changes and deletions.
THEOREM UsersAreAnAtomicStore == Spec => ImplementsUserStore
<1>1. Init => Store!Init
  <2> SUFFICES ASSUME Init PROVE Store!Init
    OBVIOUS
  <2>1. \A u \in Exclusive : StoredAs(u) = None /\ Quiet(u)
    BY FileBlobAssumption DEF Init, StoredAs, Quiet, Working, Rewriting, Missing
  <2> QED
    BY <2>1 DEF Store!Init
<1>2. ExclusiveInv /\ ExclusiveInv' /\ [Next]_vars => AbstractStep
  <2> SUFFICES ASSUME ExclusiveInv, ExclusiveInv', [Next]_vars PROVE AbstractStep
    OBVIOUS
  <2>1. CASE UNCHANGED vars
    BY <2>1 DEF vars, AbstractStep, storedNow, busyNow, StoredAs, Quiet, Working, Rewriting,
                Missing, User
  <2>2. ASSUME NEW r \in Requests, Step(r) PROVE AbstractStep
    BY <2>2, LoadRefines, CreateExistsRefines, ExistsRefines, RemoveRefines, OpenFileRefines,
       WriteFileRefines, DeleteExistsRefines, DeleteRefines DEF Step
  <2> QED
    BY <2>1, <2>2, SubmitRefines, CrashRefines DEF Next
<1> QED
  BY <1>1, <1>2, ExclusiveInductive, PTL
     DEF Spec, ImplementsUserStore, Store!Spec, AbstractStep, storedNow, busyNow, Store!vars

=============================================================================
