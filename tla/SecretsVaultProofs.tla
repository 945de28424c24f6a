------------------------- MODULE SecretsVaultProofs -------------------------
(***************************************************************************)
(* Theorems of SecretsVault, for all lockers, secrets, requests and any    *)
(* number of versions.                                                     *)
(***************************************************************************)
EXTENDS SecretsVault, SequenceTheorems, TLAPS

\* A request has the operation and the locals its next step reads.
LocalsOf(r) ==
    /\ pc[r] \in {"absent", "mkdir"} => Kind(r) = "create"
    /\ pc[r] = "mkdir" => Path(r) \in Dirs
    /\ pc[r] \in {"open", "write"} => Kind(r) \in {"create", "update"}
    /\ pc[r] = "present" => Kind(r) \in {"remove", "update"}
    /\ pc[r] = "delete" => Kind(r) = "update" \/ (Kind(r) = "remove" /\ Path(r) \in Versions)
    /\ pc[r] = "sweep" =>
          Kind(r) = "remove" /\ Path(r) \in Dirs /\ ctx[r].todo \subseteq Under(Path(r))
    /\ pc[r] = "list" => Kind(r) = "get" /\ Path(r) \in SecretDirs
    /\ pc[r] = "find" => Kind(r) = "get" /\ Path(r) \in Versions
    /\ pc[r] = "read" =>
          Kind(r) = "get" /\ ctx[r].todo \subseteq {v \in Versions : IsPrefix(Path(r), v)}

\* A file is written by a request whose file it is.
TypeInv ==
    /\ TypeOK
    /\ \A r \in Requests : LocalsOf(r)
    /\ \A p \in Paths : Held(p) => FileOf(tree[p].writer) = p

\* Overlapping requests know of each other.
Aware ==
    \A q, r \in Active : q # r =>
       /\ Spoils(ctx[q].op, ctx[r].op) \subseteq spoiled
       /\ Disturbs(ctx[q].op, ctx[r].op) => ctx[r].disturbed

-----------------------------------------------------------------------------
\* Versions: each is made once, and not again when it is gone.
Creates(r, v) == r \in Active /\ Kind(r) = "create" /\ Path(r) = v

Removes(r) == r \in Active /\ Kind(r) = "remove"

\* What was in the directory, or is the file, a request is removing.
Doomed(r) == ctx[r].knew \cup (IF pc[r] = "delete" THEN {Path(r)} ELSE {})

MadeOnce ==
    /\ \A v \in Versions : Exists(v) => Last(v) <= stamp
    /\ \A v \in gone : ~Exists(v) /\ Last(v) <= stamp
    /\ \A r \in Requests, v \in Versions : Creates(r, v) =>
          /\ Last(v) <= stamp
          /\ \A q \in Requests : Creates(q, v) => q = r
          /\ pc[r] \in {"absent", "open"} =>
                /\ ~Exists(v) /\ v \notin gone
                /\ \A q \in Requests : Removes(q) => v \notin Doomed(q)
    /\ \A r \in Requests : Removes(r) =>
          \A v \in Doomed(r) : IsPrefix(Path(r), v) /\ Last(v) <= stamp

\* The version a request has found newest so far.
Best(r) == SubSeq(Path(r), 1, 2) \o <<ctx[r].best>>

FoundKept(r) ==
    r \in Active /\ Kind(r) = "get" =>
       /\ ctx[r].barred \subseteq gone
       /\ pc[r] \in {"list", "find"} => ctx[r].best = 0
       /\ Path(r) \in Versions => ctx[r].best \in {0, Last(Path(r))}
       /\ ctx[r].best # 0 => Best(r) \notin ctx[r].barred

RemovedInv == TypeInv /\ MadeOnce /\ \A r \in Requests : FoundKept(r)

-----------------------------------------------------------------------------
\* A version that was stored is there, and nobody removes it.
Stored ==
    \A v \in stored :
       /\ Exists(v)
       /\ \A q \in Requests : Removes(q) => ~IsPrefix(Path(q), v)

StoredLocals(r) ==
    r \in Active =>
       /\ Kind(r) = "get" => ctx[r].knew \subseteq stored
       /\ pc[r] = "write" /\ Kind(r) = "create" /\ Path(r) \in Versions /\ ~ctx[r].disturbed
             => Exists(Path(r))
       /\ pc[r] = "read" /\ Path(r) \in SecretDirs =>
             \A v \in ctx[r].knew : Front(v) = Path(r) =>
                v \in ctx[r].todo \/ Last(v) <= ctx[r].best

StoredInv ==
    /\ TypeInv /\ Aware
    /\ Stored
    /\ \A r \in Requests : StoredLocals(r)

\* A version nobody makes is whole, until a stop.
Whole ==
    \A v \in Versions : Exists(v) /\ ~crashed /\ (\A q \in Requests : ~Creates(q, v)) => Readable(v)

WholeLocals(r) ==
    r \in Active =>
       /\ pc[r] = "write" /\ Kind(r) = "create" /\ Path(r) \in Versions /\ Exists(Path(r))
             => tree[Path(r)] = [text |-> "broken", writer |-> r]
       /\ pc[r] = "read" /\ ~ctx[r].disturbed => \A v \in ctx[r].todo : Exists(v)

WholeInv ==
    /\ StoredInv /\ MadeOnce
    /\ Whole
    /\ \A r \in Requests : WholeLocals(r)

-----------------------------------------------------------------------------
\* Directories whose _item.meta nobody fought over.
MetaOf(d) == Append(d, Meta)

\* What requests have made of such a directory.
AtWork(r, d) ==
    /\ Kind(r) \in {"create", "update"} /\ IsPrefix(d, Path(r)) /\ pc[r] \in {"open", "write"}
          => Exists(d)
    /\ Kind(r) = "create" /\ IsStrictPrefix(d, Path(r)) /\ pc[r] = "mkdir" => Exists(d)
    /\ Kind(r) = "update" /\ Path(r) = d /\ pc[r] = "delete" => Exists(d)
    /\ Path(r) = d /\ pc[r] = "mkdir" => ~Exists(d)
    /\ Path(r) = d /\ pc[r] = "open" => ~Exists(MetaOf(d))
    /\ Path(r) = d /\ Kind(r) = "create" /\ pc[r] \in {"mkdir", "open"} =>
          \A q \in Active : Kind(q) = "update" /\ Path(q) = d => pc[q] = "present"
    /\ pc[r] = "sweep" /\ IsPrefix(Path(r), d) => Inside(Path(r)) \subseteq ctx[r].todo

\* Somebody is going to write the _item.meta, or to take the directory away.
Unfinished(d) ==
    \E r \in Active :
       \/ pc[r] = "sweep" /\ IsPrefix(Path(r), d)
       \/ pc[r] = "open" /\ Path(r) = d
       \/ pc[r] = "write" /\ Path(r) = d /\ tree[MetaOf(d)] = [text |-> "broken", writer |-> r]

MetaInv ==
    /\ TypeInv /\ Aware
    /\ \A d \in Dirs \ spoiled :
          /\ \A r \in Active : AtWork(r, d)
          /\ Exists(d) => Readable(MetaOf(d)) \/ Unfinished(d)

-----------------------------------------------------------------------------
\* Paths.
LEMMA Single ==
    ASSUME NEW S, NEW s \in Seq(S), Len(s) = 1
    PROVE  s = <<s[1]>>
<1> DEFINE t == <<s[1]>>
<1>1. s[1] \in S
  BY ElementOfSeq
<1>2. t \in Seq(S) /\ Len(t) = 1 /\ t[1] = s[1]
  BY <1>1
<1> HIDE DEF t
<1>3. \A i \in 1..Len(s) : s[i] = t[i]
  BY <1>2
<1>4. s = t
  BY <1>2, <1>3, SeqEqual
<1> QED
  BY <1>4 DEF t

LEMMA Pair ==
    ASSUME NEW S, NEW s \in Seq(S), Len(s) = 2
    PROVE  s = <<s[1], s[2]>>
<1> DEFINE t == <<s[1], s[2]>>
<1>1. s[1] \in S /\ s[2] \in S
  BY ElementOfSeq
<1>2. t \in Seq(S) /\ Len(t) = 2 /\ t[1] = s[1] /\ t[2] = s[2]
  BY <1>1
<1> HIDE DEF t
<1>3. \A i \in 1..Len(s) : s[i] = t[i]
  BY <1>2
<1>4. s = t
  BY <1>2, <1>3, SeqEqual
<1> QED
  BY <1>4 DEF t

LEMMA Triple ==
    ASSUME NEW S, NEW s \in Seq(S), Len(s) = 3
    PROVE  s = <<s[1], s[2], s[3]>>
<1> DEFINE t == <<s[1], s[2], s[3]>>
<1>1. 1 \in 1..Len(s) /\ 2 \in 1..Len(s) /\ 3 \in 1..Len(s)
  OBVIOUS
<1>2. s[1] \in S /\ s[2] \in S /\ s[3] \in S
  BY <1>1, ElementOfSeq, Zenon
<1>3. t \in Seq(S) /\ Len(t) = 3 /\ t[1] = s[1] /\ t[2] = s[2] /\ t[3] = s[3]
  BY <1>2
<1> HIDE DEF t
<1>4. \A i \in 1..Len(s) : s[i] = t[i]
  BY <1>3
<1>5. s = t
  BY <1>3, <1>4, SeqEqual
<1> QED
  BY <1>5 DEF t

\* What the operators on sequences make of paths.
LEMMA Names ==
    /\ \A a, b : Append(<<a>>, b) = <<a, b>>
    /\ \A a, b, c : Append(<<a, b>>, c) = <<a, b, c>>
    /\ \A a, b : Front(<<a, b>>) = <<a>>
    /\ \A a, b, c : Front(<<a, b, c>>) = <<a, b>>
    /\ \A a, b, c : Last(<<a, b, c>>) = c
    /\ \A a, b : SubSeq(<<a, b>>, 1, 2) = <<a, b>>
    /\ \A a, b, c : SubSeq(<<a, b, c>>, 1, 2) = <<a, b>>
    /\ \A a, b, c : <<a, b>> \o <<c>> = <<a, b, c>>
<1> SUFFICES ASSUME NEW a, NEW b, NEW c
             PROVE  /\ Append(<<a>>, b) = <<a, b>>
                    /\ Append(<<a, b>>, c) = <<a, b, c>>
                    /\ Front(<<a, b>>) = <<a>>
                    /\ Front(<<a, b, c>>) = <<a, b>>
                    /\ Last(<<a, b, c>>) = c
                    /\ SubSeq(<<a, b>>, 1, 2) = <<a, b>>
                    /\ SubSeq(<<a, b, c>>, 1, 2) = <<a, b>>
                    /\ <<a, b>> \o <<c>> = <<a, b, c>>
  BY Zenon
<1> DEFINE S == {a, b, c}
<1>1. Append(<<a>>, b) = <<a, b>>
  <2> DEFINE s == Append(<<a>>, b)
  <2>1. s \in Seq(S) /\ Len(s) = 2 /\ s[1] = a /\ s[2] = b
    OBVIOUS
  <2> QED
    BY <2>1, Pair
<1>2. Append(<<a, b>>, c) = <<a, b, c>>
  <2> DEFINE s == Append(<<a, b>>, c)
  <2>1. s \in Seq(S) /\ Len(s) = 3 /\ s[1] = a /\ s[2] = b /\ s[3] = c
    OBVIOUS
  <2> QED
    BY <2>1, Triple
<1>3. SubSeq(<<a, b>>, 1, 1) = <<a>>
  <2> DEFINE s == SubSeq(<<a, b>>, 1, 1)
  <2>1. s \in Seq(S) /\ Len(s) = 1 /\ s[1] = a
    OBVIOUS
  <2> QED
    BY <2>1, Single
<1>4. SubSeq(<<a, b, c>>, 1, 2) = <<a, b>>
  <2> DEFINE s == SubSeq(<<a, b, c>>, 1, 2)
  <2>1. s \in Seq(S) /\ Len(s) = 2 /\ s[1] = a /\ s[2] = b
    OBVIOUS
  <2> QED
    BY <2>1, Pair
<1>5. SubSeq(<<a, b>>, 1, 2) = <<a, b>>
  <2> DEFINE s == SubSeq(<<a, b>>, 1, 2)
  <2>1. s \in Seq(S) /\ Len(s) = 2 /\ s[1] = a /\ s[2] = b
    OBVIOUS
  <2> QED
    BY <2>1, Pair
<1>6. <<a, b>> \o <<c>> = <<a, b, c>>
  <2> DEFINE s == <<a, b>> \o <<c>>
  <2>1. s \in Seq(S) /\ Len(s) = 3 /\ s[1] = a /\ s[2] = b /\ s[3] = c
    OBVIOUS
  <2> QED
    BY <2>1, Triple
<1>7. Front(<<a, b>>) = <<a>> /\ Front(<<a, b, c>>) = <<a, b>>
  BY <1>3, <1>4 DEF Front
<1>8. Last(<<a, b, c>>) = c
  BY DEF Last
<1> QED
  BY <1>1, <1>2, <1>4, <1>5, <1>6, <1>7, <1>8, Zenon

\* Which path is on the way to which.
LEMMA OnTheWay ==
    /\ \A a, d : IsPrefix(<<a>>, <<d>>) <=> a = d
    /\ \A a, d, e : IsPrefix(<<a>>, <<d, e>>) <=> a = d
    /\ \A a, d, e, f : IsPrefix(<<a>>, <<d, e, f>>) <=> a = d
    /\ \A a, b, d : ~IsPrefix(<<a, b>>, <<d>>)
    /\ \A a, b, d, e : IsPrefix(<<a, b>>, <<d, e>>) <=> a = d /\ b = e
    /\ \A a, b, d, e, f : IsPrefix(<<a, b>>, <<d, e, f>>) <=> a = d /\ b = e
    /\ \A a, b, c, d : ~IsPrefix(<<a, b, c>>, <<d>>)
    /\ \A a, b, c, d, e : ~IsPrefix(<<a, b, c>>, <<d, e>>)
    /\ \A a, b, c, d, e, f : IsPrefix(<<a, b, c>>, <<d, e, f>>) <=> a = d /\ b = e /\ c = f
<1>1. \A a, d : IsPrefix(<<a>>, <<d>>) <=> a = d
  BY DEF IsPrefix
<1>2. \A a, d, e : IsPrefix(<<a>>, <<d, e>>) <=> a = d
  BY DEF IsPrefix
<1>3. \A a, d, e, f : IsPrefix(<<a>>, <<d, e, f>>) <=> a = d
  BY DEF IsPrefix
<1>4. \A a, b, d : ~IsPrefix(<<a, b>>, <<d>>)
  BY DEF IsPrefix
<1>5. \A a, b, d, e : IsPrefix(<<a, b>>, <<d, e>>) <=> a = d /\ b = e
  BY DEF IsPrefix
<1>6. \A a, b, d, e, f : IsPrefix(<<a, b>>, <<d, e, f>>) <=> a = d /\ b = e
  BY DEF IsPrefix
<1>7. \A a, b, c, d : ~IsPrefix(<<a, b, c>>, <<d>>)
  BY DEF IsPrefix
<1>8. \A a, b, c, d, e : ~IsPrefix(<<a, b, c>>, <<d, e>>)
  BY DEF IsPrefix
<1>9. \A a, b, c, d, e, f : IsPrefix(<<a, b, c>>, <<d, e, f>>) <=> a = d /\ b = e /\ c = f
  BY DEF IsPrefix
<1> QED
  BY <1>1, <1>2, <1>3, <1>4, <1>5, <1>6, <1>7, <1>8, <1>9, Zenon

LEMMA MetasAre ==
    \A p : p \in Metas <=> \/ \E l \in Lockers : p = <<l, Meta>>
                          \/ \E l \in Lockers, s \in Secrets : p = <<l, s, Meta>>
<1> SUFFICES ASSUME NEW p
             PROVE  p \in Metas <=> \/ \E l \in Lockers : p = <<l, Meta>>
                                   \/ \E l \in Lockers, s \in Secrets : p = <<l, s, Meta>>
  OBVIOUS
<1>1. p \in Metas <=> \E d \in Dirs : p = Append(d, Meta)
  BY DEF Metas
<1>2. ASSUME NEW d \in Dirs, p = Append(d, Meta)
      PROVE  \/ \E l \in Lockers : p = <<l, Meta>>
             \/ \E l \in Lockers, s \in Secrets : p = <<l, s, Meta>>
  <2>1. CASE d \in LockerDirs
    <3>1. PICK l \in Lockers : d = <<l>>
      BY <2>1 DEF LockerDirs
    <3> QED
      BY <1>2, <3>1, Names
  <2>2. CASE d \in SecretDirs
    <3>1. PICK l \in Lockers, s \in Secrets : d = <<l, s>>
      BY <2>2 DEF SecretDirs
    <3>2. p = <<l, s, Meta>>
      BY <1>2, <3>1, Names
    <3> QED
      BY <3>2
  <2> QED
    BY <2>1, <2>2 DEF Dirs
<1>3. ASSUME NEW l \in Lockers, p = <<l, Meta>>
      PROVE  \E d \in Dirs : p = Append(d, Meta)
  <2>1. <<l>> \in Dirs /\ p = Append(<<l>>, Meta)
    BY <1>3, Names DEF Dirs, LockerDirs
  <2> QED
    BY <2>1
<1>4. ASSUME NEW l \in Lockers, NEW s \in Secrets, p = <<l, s, Meta>>
      PROVE  \E d \in Dirs : p = Append(d, Meta)
  <2>1. <<l, s>> \in Dirs /\ p = Append(<<l, s>>, Meta)
    BY <1>4, Names DEF Dirs, SecretDirs
  <2> QED
    BY <2>1
<1> QED
  BY <1>1, <1>2, <1>3, <1>4

\* A path has one of five shapes.
LEMMA Shapes ==
    ASSUME NEW p \in Paths
    PROVE  \/ p \in LockerDirs /\ \E l \in Lockers : p = <<l>>
           \/ p \in SecretDirs /\ \E l \in Lockers, s \in Secrets : p = <<l, s>>
           \/ p \in Metas /\ \E l \in Lockers : p = <<l, Meta>>
           \/ p \in Versions /\ \E l \in Lockers, s \in Secrets, n \in 1..MaxStamp : p = <<l, s, n>>
           \/ p \in Metas /\ \E l \in Lockers, s \in Secrets : p = <<l, s, Meta>>
BY MetasAre DEF Paths, Dirs, LockerDirs, SecretDirs, Versions

\* No path is of two kinds.
LEMMA Kinds ==
    /\ \A l : <<l>> \in LockerDirs <=> l \in Lockers
    /\ \A l : <<l>> \notin SecretDirs /\ <<l>> \notin Versions /\ <<l>> \notin Metas
    /\ \A l, s : <<l, s>> \in SecretDirs <=> l \in Lockers /\ s \in Secrets
    /\ \A l, s : <<l, s>> \in Metas <=> l \in Lockers /\ s = Meta
    /\ \A l, s : <<l, s>> \notin LockerDirs /\ <<l, s>> \notin Versions
    /\ \A l, s, n : <<l, s, n>> \in Versions <=> l \in Lockers /\ s \in Secrets /\ n \in 1..MaxStamp
    /\ \A l, s, n : <<l, s, n>> \in Metas <=> l \in Lockers /\ s \in Secrets /\ n = Meta
    /\ \A l, s, n : <<l, s, n>> \notin LockerDirs /\ <<l, s, n>> \notin SecretDirs
<1>1. /\ \A l : <<l>> \in LockerDirs <=> l \in Lockers
      /\ \A l, s : <<l, s>> \notin LockerDirs
      /\ \A l, s, n : <<l, s, n>> \notin LockerDirs
  BY DEF LockerDirs
<1>2. /\ \A l : <<l>> \notin SecretDirs
      /\ \A l, s : <<l, s>> \in SecretDirs <=> l \in Lockers /\ s \in Secrets
      /\ \A l, s, n : <<l, s, n>> \notin SecretDirs
  BY DEF SecretDirs
<1>3. /\ \A l : <<l>> \notin Versions
      /\ \A l, s : <<l, s>> \notin Versions
      /\ \A l, s, n : <<l, s, n>> \in Versions <=> l \in Lockers /\ s \in Secrets /\ n \in 1..MaxStamp
  BY DEF Versions
<1>4. /\ \A l : <<l>> \notin Metas
      /\ \A l, s : <<l, s>> \in Metas <=> l \in Lockers /\ s = Meta
      /\ \A l, s, n : <<l, s, n>> \in Metas <=> l \in Lockers /\ s \in Secrets /\ n = Meta
  BY MetasAre
<1> QED
  BY <1>1, <1>2, <1>3, <1>4, Zenon

LEMMA KindsDiffer ==
    /\ LockerDirs \cap SecretDirs = {} /\ Dirs \cap Versions = {}
    /\ Dirs \cap Metas = {} /\ Versions \cap Metas = {}
<1>1. \A p \in LockerDirs : p \notin SecretDirs /\ p \notin Versions /\ p \notin Metas
  BY Kinds DEF LockerDirs
<1>2. \A p \in SecretDirs : p \notin Versions /\ p \notin Metas
  <2>1. \A p \in SecretDirs : \E l, s : s # Meta /\ p = <<l, s>>
    BY VaultAssumption DEF SecretDirs
  <2> QED
    BY <2>1, Kinds
<1>3. \A p \in Versions : p \notin Metas
  <2>1. \A p \in Versions : \E l, s, n : n # Meta /\ p = <<l, s, n>>
    BY VaultAssumption DEF Versions
  <2> QED
    BY <2>1, Kinds
<1> QED
  BY <1>1, <1>2, <1>3, Zenon DEF Dirs

Word == Lockers \cup Secrets \cup {Meta} \cup 1..MaxStamp

LEMMA PathsAreSeqs == \A p \in Paths : p \in Seq(Word) /\ Len(p) \in 1..3
<1> SUFFICES ASSUME NEW p \in Paths PROVE p \in Seq(Word) /\ Len(p) \in 1..3
  OBVIOUS
<1>1. CASE \E l \in Lockers : p = <<l>>
  BY <1>1 DEF Word
<1>2. CASE \E l \in Lockers, s \in Secrets : p = <<l, s>>
  BY <1>2 DEF Word
<1>3. CASE \E l \in Lockers : p = <<l, Meta>>
  BY <1>3 DEF Word
<1>4. CASE \E l \in Lockers, s \in Secrets, n \in 1..MaxStamp : p = <<l, s, n>>
  BY <1>4 DEF Word
<1>5. CASE \E l \in Lockers, s \in Secrets : p = <<l, s, Meta>>
  BY <1>5 DEF Word
<1> QED
  BY <1>1, <1>2, <1>3, <1>4, <1>5, Shapes, Zenon

LEMMA PrefixIs ==
    ASSUME NEW S, NEW s \in Seq(S), NEW t \in Seq(S)
    PROVE  IsPrefix(s, t) <=> Len(s) <= Len(t) /\ \A i \in 1..Len(s) : s[i] = t[i]
<1> SUFFICES ASSUME Len(s) <= Len(t)
             PROVE  SubSeq(s, 1, Len(s)) = SubSeq(t, 1, Len(s)) <=> \A i \in 1..Len(s) : s[i] = t[i]
  BY DEF IsPrefix
<1> DEFINE a == SubSeq(s, 1, Len(s))
           b == SubSeq(t, 1, Len(s))
<1>1. /\ a \in Seq(S) /\ b \in Seq(S) /\ Len(a) = Len(s) /\ Len(b) = Len(s)
      /\ \A i \in 1..Len(s) : a[i] = s[i] /\ b[i] = t[i]
  OBVIOUS
<1> HIDE DEF a, b
<1>2. a = b <=> \A i \in 1..Len(s) : s[i] = t[i]
  BY <1>1, SeqEqual
<1> QED
  BY <1>2 DEF a, b

\* The tree of paths: what is above a path, and what is below.
LEMMA Order ==
    ASSUME NEW p \in Paths, NEW q \in Paths, NEW w \in Paths
    PROVE  /\ IsPrefix(p, p)
           /\ IsPrefix(p, q) /\ IsPrefix(q, w) => IsPrefix(p, w)
           /\ IsPrefix(p, q) /\ IsPrefix(q, p) => p = q
           /\ IsPrefix(p, q) /\ p # q => p \in Dirs /\ q \notin LockerDirs /\ IsPrefix(p, Front(q))
           /\ IsPrefix(p, q) /\ q \in Dirs => p \in Dirs
<1>0. /\ p \in Seq(Word) /\ q \in Seq(Word) /\ w \in Seq(Word)
      /\ Len(p) \in Nat /\ Len(q) \in Nat /\ Len(w) \in Nat
  BY PathsAreSeqs
<1>1. IsPrefix(p, p)
  BY <1>0, PrefixIs
<1>2. IsPrefix(p, q) /\ IsPrefix(q, w) => IsPrefix(p, w)
  <2> SUFFICES ASSUME IsPrefix(p, q), IsPrefix(q, w) PROVE IsPrefix(p, w)
    OBVIOUS
  <2>1. Len(p) <= Len(q) /\ \A i \in 1..Len(p) : p[i] = q[i]
    BY <1>0, PrefixIs
  <2>2. Len(q) <= Len(w) /\ \A i \in 1..Len(q) : q[i] = w[i]
    BY <1>0, PrefixIs
  <2>3. Len(p) <= Len(w) /\ \A i \in 1..Len(p) : p[i] = w[i]
    BY <1>0, <2>1, <2>2
  <2> QED
    BY <1>0, <2>3, PrefixIs
<1>3. IsPrefix(p, q) /\ IsPrefix(q, p) => p = q
  <2> SUFFICES ASSUME IsPrefix(p, q), IsPrefix(q, p) PROVE p = q
    OBVIOUS
  <2>1. Len(p) <= Len(q) /\ \A i \in 1..Len(p) : p[i] = q[i]
    BY <1>0, PrefixIs
  <2>2. Len(q) <= Len(p)
    BY <1>0, PrefixIs
  <2> QED
    BY <1>0, <2>1, <2>2, SeqEqual
<1>4. IsPrefix(p, q) /\ p # q => p \in Dirs /\ q \notin LockerDirs /\ IsPrefix(p, Front(q))
  <2> SUFFICES ASSUME IsPrefix(p, q), p # q
               PROVE  p \in Dirs /\ q \notin LockerDirs /\ IsPrefix(p, Front(q))
    OBVIOUS
  <2>1. CASE \E l : q = <<l>>
    <3>1. PICK l : q = <<l>>
      BY <2>1
    <3> QED
      BY <3>1, Shapes, OnTheWay
  <2>2. CASE \E l, s : q = <<l, s>>
    <3>1. PICK l, s : q = <<l, s>>
      BY <2>2
    <3>2. p = <<l>> /\ p \in LockerDirs
      BY <3>1, Shapes, OnTheWay
    <3>3. Front(q) = <<l>> /\ q \notin LockerDirs
      BY <3>1, Names, Kinds
    <3> QED
      BY <3>2, <3>3, <1>1 DEF Dirs
  <2>3. CASE \E l, s, n : q = <<l, s, n>>
    <3>1. PICK l, s, n : q = <<l, s, n>>
      BY <2>3
    <3>2. s # Meta
      BY <3>1, Shapes, VaultAssumption
    <3>3. (p = <<l>> /\ p \in LockerDirs) \/ (p = <<l, s>> /\ p \in SecretDirs)
      <4>1. CASE p \in LockerDirs /\ \E k \in Lockers : p = <<k>>
        BY <3>1, <4>1, OnTheWay
      <4>2. CASE \E k, u : p = <<k, u>>
        <5>1. p = <<l, s>>
          BY <3>1, <4>2, OnTheWay
        <5> QED
          BY <3>2, <5>1, Shapes
      <4>3. CASE \E k, u, m : p = <<k, u, m>>
        BY <3>1, <4>3, OnTheWay
      <4> QED
        BY <4>1, <4>2, <4>3, Shapes
    <3>4. Front(q) = <<l, s>> /\ q \notin LockerDirs
      BY <3>1, Names, Kinds
    <3>5. IsPrefix(<<l>>, <<l, s>>) /\ IsPrefix(<<l, s>>, <<l, s>>)
      BY OnTheWay
    <3> QED
      BY <3>3, <3>4, <3>5 DEF Dirs
  <2> QED
    BY <2>1, <2>2, <2>3, Shapes
<1>5. IsPrefix(p, q) /\ q \in Dirs => p \in Dirs
  BY <1>4
<1> QED
  BY <1>1, <1>2, <1>3, <1>4, <1>5, Zenon

LEMMA Parents ==
    ASSUME NEW p \in Paths
    PROVE  /\ Len(p) > 1 <=> p \notin LockerDirs
           /\ p \notin LockerDirs => Front(p) \in Dirs /\ IsPrefix(Front(p), p) /\ Front(p) # p
           /\ p \in SecretDirs => Front(p) \in LockerDirs
           /\ p \in Versions => Front(p) \in SecretDirs
<1>1. CASE \E l \in Lockers : p = <<l>>
  <2>1. PICK l \in Lockers : p = <<l>>
    BY <1>1
  <2>2. p \in LockerDirs /\ p \notin SecretDirs /\ p \notin Versions /\ Len(p) = 1
    BY <2>1, Kinds
  <2> QED
    BY <2>2
<1>2. CASE \E l \in Lockers, s \in Secrets \cup {Meta} : p = <<l, s>>
  <2>1. PICK l \in Lockers, s \in Secrets \cup {Meta} : p = <<l, s>>
    BY <1>2
  <2>2. Front(p) = <<l>> /\ p \notin LockerDirs /\ p \notin Versions /\ <<l>> \in LockerDirs
    BY <2>1, Names, Kinds
  <2>3. IsPrefix(<<l>>, p) /\ Len(p) = 2 /\ <<l>> # p
    BY <2>1, OnTheWay
  <2> QED
    BY <2>2, <2>3 DEF Dirs
<1>3. CASE \E l \in Lockers, s \in Secrets, n \in (1..MaxStamp) \cup {Meta} : p = <<l, s, n>>
  <2>1. PICK l \in Lockers, s \in Secrets, n \in (1..MaxStamp) \cup {Meta} : p = <<l, s, n>>
    BY <1>3
  <2>2. p \notin LockerDirs /\ p \notin SecretDirs /\ <<l, s>> \in SecretDirs
    BY <2>1, Kinds
  <2>3. Front(p) = <<l, s>>
    BY <2>1, Names
  <2>4. IsPrefix(<<l, s>>, p) /\ Len(p) = 3 /\ <<l, s>> # p
    BY <2>1, OnTheWay
  <2> QED
    BY <2>2, <2>3, <2>4 DEF Dirs
<1> QED
  BY <1>1, <1>2, <1>3, Shapes

\* The _item.meta of a directory, and what the names of versions are made of.
LEMMA MetaPaths ==
    ASSUME NEW d \in Dirs
    PROVE  /\ Append(d, Meta) \in Metas /\ Append(d, Meta) \in Paths
           /\ Append(d, Meta) \notin Dirs \cup Versions
           /\ Front(Append(d, Meta)) = d
           /\ IsPrefix(d, Append(d, Meta)) /\ d # Append(d, Meta)
<1>1. Append(d, Meta) \in Metas /\ Append(d, Meta) \in Paths
  BY DEF Metas, Paths
<1>2. Append(d, Meta) \notin Dirs \cup Versions
  BY <1>1, KindsDiffer
<1>3. Front(Append(d, Meta)) = d /\ IsPrefix(d, Append(d, Meta))
  <2>1. CASE \E l : d = <<l>>
    <3>1. PICK l : d = <<l>>
      BY <2>1
    <3>2. Append(d, Meta) = <<l, Meta>>
      BY <3>1, Names
    <3>3. Front(<<l, Meta>>) = <<l>>
      BY Names
    <3>4. IsPrefix(<<l>>, <<l, Meta>>)
      BY OnTheWay
    <3> QED
      BY <3>1, <3>2, <3>3, <3>4
  <2>2. CASE \E l, s : d = <<l, s>>
    <3>1. PICK l, s : d = <<l, s>>
      BY <2>2
    <3>2. Append(d, Meta) = <<l, s, Meta>>
      BY <3>1, Names
    <3>3. Front(<<l, s, Meta>>) = <<l, s>>
      BY Names
    <3>4. IsPrefix(<<l, s>>, <<l, s, Meta>>)
      BY OnTheWay
    <3> QED
      BY <3>1, <3>2, <3>3, <3>4
  <2> QED
    BY <2>1, <2>2 DEF Dirs, LockerDirs, SecretDirs
<1> QED
  BY <1>1, <1>2, <1>3

LEMMA VersionPaths ==
    ASSUME NEW v \in Versions
    PROVE  /\ Last(v) \in 1..MaxStamp
           /\ SubSeq(v, 1, 2) = Front(v)
           /\ Front(v) \o <<Last(v)>> = v
           /\ \A d \in SecretDirs : IsPrefix(d, v) <=> Front(v) = d
<1>1. PICK l \in Lockers, s \in Secrets, n \in 1..MaxStamp : v = <<l, s, n>>
  BY DEF Versions
<1>2. Last(v) = n /\ Front(v) = <<l, s>> /\ SubSeq(v, 1, 2) = <<l, s>>
  BY <1>1, Names
<1>3. <<l, s>> \o <<n>> = v
  BY <1>1, Names
<1>4. ASSUME NEW d \in SecretDirs PROVE IsPrefix(d, v) <=> <<l, s>> = d
  <2>1. PICK k \in Lockers, u \in Secrets : d = <<k, u>>
    BY DEF SecretDirs
  <2> QED
    BY <1>1, <2>1, OnTheWay
<1> QED
  BY <1>2, <1>3, <1>4

LEMMA LastIs == \A v \in Versions : Last(v) \in Int
<1> SUFFICES ASSUME NEW v \in Versions PROVE Last(v) \in Int
  OBVIOUS
<1>1. Last(v) \in 1..MaxStamp
  BY VersionPaths
<1> QED
  BY <1>1, VaultAssumption

LEMMA SecretPaths ==
    ASSUME NEW d \in SecretDirs, NEW n
    PROVE  /\ SubSeq(d, 1, 2) = d
           /\ Last(d \o <<n>>) = n /\ Front(d \o <<n>>) = d
<1>1. PICK k \in Lockers, u \in Secrets : d = <<k, u>>
  BY DEF SecretDirs
<1>2. d \o <<n>> = <<k, u, n>>
  BY <1>1, Names
<1>3. SubSeq(d, 1, 2) = d
  BY <1>1, Names
<1>4. Last(<<k, u, n>>) = n /\ Front(<<k, u, n>>) = <<k, u>>
  BY Names
<1> QED
  BY <1>1, <1>2, <1>3, <1>4

-----------------------------------------------------------------------------
\* The type invariant, in parts.
TreeOK ==
    /\ tree \in [Paths -> Node \cup {None}]
    /\ \A p \in Paths : Exists(p) =>
          /\ p \notin LockerDirs => Exists(Front(p))
          /\ tree[p].text = "dir" <=> p \in Dirs

HeldOK ==
    \A p \in Paths : Held(p) => pc[tree[p].writer] = "write" /\ FileOf(tree[p].writer) = p

LocalsOK ==
    /\ pc \in [Requests -> Steps]
    /\ ctx \in [Requests -> Context \cup {None}]
    /\ \A r \in Requests : pc[r] = "idle" <=> ctx[r] = None
    /\ \A r \in Requests : LocalsOf(r)

CountersOK ==
    /\ stamp \in 0..MaxStamp
    /\ crashed \in BOOLEAN
    /\ stored \subseteq Versions /\ gone \subseteq Versions
    /\ spoiled \subseteq Dirs

LEMMA TypeInvIs == TypeInv <=> TreeOK /\ HeldOK /\ LocalsOK /\ CountersOK
<1>1. \A p \in Paths : Len(p) > 1 <=> p \notin LockerDirs
  BY Parents
<1>2. TypeInv => TreeOK /\ HeldOK /\ LocalsOK /\ CountersOK
  <2> SUFFICES ASSUME TypeInv PROVE TreeOK /\ HeldOK /\ LocalsOK /\ CountersOK
    OBVIOUS
  <2>1. TreeOK
    BY <1>1 DEF TypeInv, TypeOK, TreeOK, Exists
  <2>2. HeldOK
    BY DEF TypeInv, TypeOK, HeldOK, Held, Exists
  <2>3. LocalsOK /\ CountersOK
    BY DEF TypeInv, TypeOK, LocalsOK, CountersOK
  <2> QED
    BY <2>1, <2>2, <2>3
<1>3. TreeOK /\ HeldOK /\ LocalsOK /\ CountersOK => TypeInv
  <2> SUFFICES ASSUME TreeOK, HeldOK, LocalsOK, CountersOK PROVE TypeInv
    OBVIOUS
  <2>1. \A p \in Paths : tree[p] # None =>
          /\ Len(p) > 1 => tree[Front(p)] # None
          /\ tree[p].text = "dir" <=> p \in Dirs
          /\ tree[p].writer # None => pc[tree[p].writer] = "write"
    BY <1>1 DEF TreeOK, HeldOK, Held, Exists
  <2>2. TypeOK
    BY <2>1 DEF TypeOK, TreeOK, LocalsOK, CountersOK
  <2>3. \A r \in Requests : LocalsOf(r)
    BY DEF LocalsOK
  <2>4. \A p \in Paths : Held(p) => FileOf(tree[p].writer) = p
    BY DEF HeldOK
  <2> QED
    BY <2>2, <2>3, <2>4 DEF TypeInv
<1> QED
  BY <1>2, <1>3

LEMMA TypeInvIsNext == TypeInv' <=> TreeOK' /\ HeldOK' /\ LocalsOK' /\ CountersOK'
BY TypeInvIs, PTL

\* What is above something that is there is there.
LEMMA Above ==
    TreeOK => \A p, q \in Paths : IsPrefix(p, q) /\ Exists(q) => Exists(p)
<1> SUFFICES ASSUME TreeOK, NEW p \in Paths, NEW q \in Paths, IsPrefix(p, q), Exists(q)
             PROVE  Exists(p)
  OBVIOUS
<1>1. ASSUME NEW x \in Paths, Exists(x), IsPrefix(p, x), p # x
      PROVE  Front(x) \in Dirs /\ Exists(Front(x)) /\ IsPrefix(p, Front(x))
             /\ (x \in SecretDirs => Front(x) \in LockerDirs) /\ x \notin LockerDirs
  BY <1>1, Order, Parents DEF TreeOK
<1>2. Dirs \subseteq Paths
  BY DEF Paths
<1>3. ASSUME NEW x \in LockerDirs, Exists(x), IsPrefix(p, x) PROVE Exists(p)
  BY <1>1, <1>2, <1>3 DEF Dirs
<1>4. ASSUME NEW x \in SecretDirs, Exists(x), IsPrefix(p, x) PROVE Exists(p)
  BY <1>1, <1>2, <1>3, <1>4 DEF Dirs
<1>5. ASSUME NEW x \in Dirs, Exists(x), IsPrefix(p, x) PROVE Exists(p)
  BY <1>3, <1>4, <1>5 DEF Dirs
<1> QED
  BY <1>1, <1>5

\* Nothing is inside a file.
LEMMA FilesAreEmpty ==
    ASSUME NEW p \in Paths, p \notin Dirs
    PROVE  Under(p) = {} /\ Inside(p) = {}
<1>1. \A q \in Paths : ~IsStrictPrefix(p, q)
  BY Order DEF IsStrictPrefix
<1> QED
  BY <1>1 DEF Under, Inside

LEMMA InsideIs ==
    ASSUME NEW p \in Paths, NEW q
    PROVE  q \in Inside(p) <=> q \in Paths /\ IsPrefix(p, q) /\ p # q /\ Exists(q)
BY DEF Inside, Under, IsStrictPrefix

\* The operation and the file of a request.
LEMMA OpIs ==
    ASSUME LocalsOK, NEW r \in Requests, pc[r] # "idle"
    PROVE  /\ ctx[r] \in Context /\ ctx[r] # None
           /\ ctx[r].op \in Operations
           /\ Path(r) \in Dirs \cup Versions /\ Path(r) \in Paths
           /\ Kind(r) \in {"create", "remove", "update", "get"}
           /\ Kind(r) = "update" => Path(r) \in Dirs
           /\ Kind(r) = "get" => Path(r) \in SecretDirs \cup Versions
<1>1. ctx[r] \in Context /\ ctx[r] # None
  BY DEF LocalsOK
<1>2. ctx[r].op \in Operations
  BY <1>1 DEF Context
<1> QED
  BY <1>1, <1>2 DEF Operations, Path, Kind, Paths, Dirs

LEMMA FileIs ==
    ASSUME LocalsOK, NEW r \in Requests, pc[r] # "idle"
    PROVE  /\ FileOf(r) \in Paths /\ FileOf(r) \notin Dirs
           /\ Front(FileOf(r)) \in Dirs /\ Front(FileOf(r)) \in Paths
           /\ Path(r) \in Versions => FileOf(r) = Path(r) /\ FileOf(r) \notin Metas
           /\ Path(r) \in Dirs => FileOf(r) = Append(Path(r), Meta) /\ Front(FileOf(r)) = Path(r)
                                   /\ FileOf(r) \in Metas /\ FileOf(r) \notin Versions
           /\ IsPrefix(Path(r), FileOf(r))
<1>1. CASE Path(r) \in Dirs
  <2>1. FileOf(r) = Append(Path(r), Meta) /\ Path(r) \notin Versions
    BY <1>1, KindsDiffer DEF FileOf
  <2> QED
    BY <1>1, <2>1, MetaPaths DEF Paths
<1>2. CASE Path(r) \in Versions
  <2>1. FileOf(r) = Path(r) /\ Path(r) \notin Dirs /\ Path(r) \notin Metas /\ Path(r) \in Paths
    BY <1>2, KindsDiffer DEF FileOf, Paths
  <2>2. Front(Path(r)) \in SecretDirs
    BY <1>2, <2>1, Parents
  <2> QED
    BY <1>2, <2>1, <2>2, Order DEF Paths, Dirs
<1> QED
  BY <1>1, <1>2, OpIs

-----------------------------------------------------------------------------
\* A request goes on, or ends: the others do not notice.
Moves(r, s) ==
    /\ pc' \in [Requests -> Steps] /\ ctx' \in [Requests -> Context \cup {None}]
    /\ pc'[r] = s
    /\ ctx'[r] \in Context /\ ctx'[r] # None
    /\ ctx'[r].op = ctx[r].op /\ ctx'[r].knew = ctx[r].knew
    /\ ctx'[r].barred = ctx[r].barred /\ ctx'[r].disturbed = ctx[r].disturbed
    /\ \A q \in Requests \ {r} : pc'[q] = pc[q] /\ ctx'[q] = ctx[q]

Keeps(r) == ctx'[r].todo = ctx[r].todo /\ ctx'[r].best = ctx[r].best

Ended(r) ==
    /\ pc' \in [Requests -> Steps] /\ ctx' \in [Requests -> Context \cup {None}]
    /\ pc'[r] = "idle" /\ ctx'[r] = None
    /\ \A q \in Requests \ {r} : pc'[q] = pc[q] /\ ctx'[q] = ctx[q]

LEMMA GoesOn ==
    ASSUME LocalsOK, NEW r \in Requests, pc[r] # "idle", NEW s \in Steps, Goto(r, s),
           UNCHANGED ctx
    PROVE  Moves(r, s) /\ Keeps(r)
<1>1. ctx[r] \in Context /\ ctx[r] # None
  BY OpIs
<1> QED
  BY <1>1 DEF LocalsOK, Goto, Moves, Keeps

LEMMA Lists ==
    ASSUME LocalsOK, NEW r \in Requests, pc[r] # "idle", NEW s \in Steps,
           pc' = [pc EXCEPT ![r] = s],
           NEW X \in SUBSET Paths, NEW n \in 0..MaxStamp,
           ctx' = [ctx EXCEPT ![r].todo = X, ![r].best = n]
    PROVE  Moves(r, s) /\ ctx'[r].todo = X /\ ctx'[r].best = n
<1>1. ctx[r] \in Context /\ ctx[r] # None
  BY OpIs
<1> DEFINE c == [ctx[r] EXCEPT !.todo = X, !.best = n]
<1>2. c \in Context /\ c.op = ctx[r].op /\ c.knew = ctx[r].knew /\ c.barred = ctx[r].barred
      /\ c.disturbed = ctx[r].disturbed /\ c.todo = X /\ c.best = n
  BY <1>1 DEF Context
<1>3. ctx' = [ctx EXCEPT ![r] = c]
  BY DEF LocalsOK
<1> HIDE DEF c
<1>4. c # None
  BY <1>2, NoneAssumption
<1> QED
  BY <1>2, <1>3, <1>4 DEF LocalsOK, Moves

LEMMA Collects ==
    ASSUME LocalsOK, NEW r \in Requests, pc[r] # "idle", NEW s \in Steps,
           pc' = [pc EXCEPT ![r] = s],
           NEW X \in SUBSET Paths,
           ctx' = [ctx EXCEPT ![r].todo = X]
    PROVE  Moves(r, s) /\ ctx'[r].todo = X /\ ctx'[r].best = ctx[r].best
<1>1. ctx[r] \in Context /\ ctx[r] # None
  BY OpIs
<1> DEFINE c == [ctx[r] EXCEPT !.todo = X]
<1>2. c \in Context /\ c.op = ctx[r].op /\ c.knew = ctx[r].knew /\ c.barred = ctx[r].barred
      /\ c.disturbed = ctx[r].disturbed /\ c.todo = X /\ c.best = ctx[r].best
  BY <1>1 DEF Context
<1>3. ctx' = [ctx EXCEPT ![r] = c]
  BY DEF LocalsOK
<1> HIDE DEF c
<1>4. c # None
  BY <1>2, NoneAssumption
<1> QED
  BY <1>2, <1>3, <1>4 DEF LocalsOK, Moves

LEMMA MovesOK ==
    ASSUME LocalsOK, NEW r \in Requests, NEW s \in Steps, s # "idle", Moves(r, s), LocalsOf(r)'
    PROVE  LocalsOK'
<1>1. \A q \in Requests : pc'[q] = "idle" <=> ctx'[q] = None
  BY DEF LocalsOK, Moves
<1>2. \A q \in Requests : LocalsOf(q)'
  <2> SUFFICES ASSUME NEW q \in Requests, q # r PROVE LocalsOf(q)'
    OBVIOUS
  <2>1. LocalsOf(q)
    BY DEF LocalsOK
  <2>2. pc'[q] = pc[q] /\ ctx'[q] = ctx[q]
    BY DEF Moves
  <2> QED
    BY <2>1, <2>2 DEF LocalsOf, Kind, Path
<1> QED
  BY <1>1, <1>2 DEF LocalsOK, Moves

LEMMA Ends ==
    ASSUME LocalsOK, NEW r \in Requests, Finish(r)
    PROVE  LocalsOK' /\ Ended(r)
<1>1. pc' \in [Requests -> Steps] /\ ctx' \in [Requests -> Context \cup {None}]
  BY DEF LocalsOK, Finish, Goto, Steps
<1>2. \A q \in Requests : q # r => pc'[q] = pc[q] /\ ctx'[q] = ctx[q]
  BY DEF LocalsOK, Finish, Goto
<1>3. pc'[r] = "idle" /\ ctx'[r] = None
  BY DEF LocalsOK, Finish, Goto
<1>4. \A q \in Requests : pc'[q] = "idle" <=> ctx'[q] = None
  BY <1>2, <1>3 DEF LocalsOK
<1>5. \A q \in Requests : LocalsOf(q)'
  <2> SUFFICES ASSUME NEW q \in Requests PROVE LocalsOf(q)'
    OBVIOUS
  <2>1. LocalsOf(q)
    BY DEF LocalsOK
  <2> QED
    BY <1>2, <1>3, <2>1 DEF LocalsOf, Kind, Path
<1> QED
  BY <1>1, <1>2, <1>3, <1>4, <1>5 DEF LocalsOK, Ended

\* A file that is written is still written by the same request.
LEMMA HeldKept ==
    ASSUME TreeOK, HeldOK, NEW r \in Requests, pc[r] # "write",
           \A q \in Requests \ {r} : pc'[q] = pc[q] /\ ctx'[q] = ctx[q],
           \A p \in Paths : tree'[p] = None \/ tree'[p] = tree[p] \/ tree'[p].writer = None
    PROVE  HeldOK'
<1> SUFFICES ASSUME NEW p \in Paths, Held(p)'
             PROVE  (pc[tree[p].writer] = "write" /\ FileOf(tree[p].writer) = p)'
  BY DEF HeldOK
<1>1. tree'[p] = tree[p] /\ Held(p)
  BY DEF Held, Exists
<1>2. tree[p].writer \in Requests /\ pc[tree[p].writer] = "write" /\ FileOf(tree[p].writer) = p
  BY <1>1 DEF TreeOK, HeldOK, Held, Exists, Node
<1>3. PICK w \in Requests : w = tree[p].writer
  BY <1>2
<1>4. w # r /\ pc'[w] = pc[w] /\ ctx'[w] = ctx[w]
  BY <1>2, <1>3
<1>5. FileOf(w)' = p
  BY <1>2, <1>3, <1>4 DEF FileOf, Path
<1>6. tree'[p].writer = w /\ pc'[w] = "write"
  BY <1>1, <1>2, <1>3, <1>4
<1> QED
  BY <1>5, <1>6 DEF FileOf, Path

\* Something with nothing in it is taken away.
LEMMA TakenAway ==
    ASSUME TreeOK, NEW p \in Paths, Inside(p) = {}, tree' = [tree EXCEPT ![p] = None]
    PROVE  TreeOK'
<1>1. tree' \in [Paths -> Node \cup {None}]
  BY DEF TreeOK
<1>2. \A q \in Paths : tree'[q] = IF q = p THEN None ELSE tree[q]
  BY DEF TreeOK
<1>3. ASSUME NEW q \in Paths, tree'[q] # None
      PROVE  /\ q \notin LockerDirs => tree'[Front(q)] # None
             /\ tree'[q].text = "dir" <=> q \in Dirs
  <2>1. q # p /\ tree'[q] = tree[q] /\ tree[q] # None
    BY <1>2, <1>3
  <2>2. tree[q].text = "dir" <=> q \in Dirs
    BY <2>1 DEF TreeOK, Exists
  <2>3. ASSUME q \notin LockerDirs PROVE tree'[Front(q)] # None
    <3>1. Front(q) \in Paths /\ tree[Front(q)] # None /\ IsPrefix(Front(q), q)
      BY <2>1, <2>3, Parents DEF TreeOK, Exists, Paths
    <3>2. Front(q) # p
      BY <2>1, <3>1, InsideIs DEF Exists
    <3> QED
      BY <1>2, <3>1, <3>2
  <2> QED
    BY <2>1, <2>2, <2>3
<1> QED
  BY <1>1, <1>3 DEF TreeOK, Exists

-----------------------------------------------------------------------------
\* What the steps do to a request and to the tree.
Counts == <<stamp, crashed, history>>

LEMMA AbsentIs ==
    ASSUME LocalsOK, NEW r \in Requests, Absent(r)
    PROVE  /\ pc[r] = "absent" /\ tree' = tree /\ UNCHANGED Counts
           /\ \/ Ended(r) /\ LocalsOK'
              \/ /\ Moves(r, IF Path(r) \in Dirs THEN "mkdir" ELSE "open") /\ Keeps(r)
                 /\ ~Exists(Path(r))
                 /\ \A p \in Paths : IsStrictPrefix(p, Path(r)) => Exists(p)
<1>1. CASE Fail(r)
  BY <1>1, Ends DEF Absent, Fail, Counts
<1>2. CASE ~Fail(r)
  <2> DEFINE s == IF Path(r) \in Dirs THEN "mkdir" ELSE "open"
  <2>1. /\ pc[r] = "absent" /\ tree' = tree /\ UNCHANGED Counts
        /\ Goto(r, s) /\ UNCHANGED ctx
        /\ ~Exists(Path(r))
        /\ \A p \in Paths : IsStrictPrefix(p, Path(r)) => Exists(p)
    BY <1>2 DEF Absent, Counts
  <2>2. s \in Steps
    BY DEF Steps
  <2> QED
    BY <2>1, <2>2, GoesOn
<1> QED
  BY <1>1, <1>2

LEMMA MkDirIs ==
    ASSUME LocalsOK, NEW r \in Requests, MkDir(r)
    PROVE  /\ pc[r] = "mkdir" /\ UNCHANGED Counts
           /\ tree' = [p \in Paths |-> IF IsPrefix(p, Path(r)) /\ ~Exists(p)
                                       THEN [text |-> "dir", writer |-> None] ELSE tree[p]]
           /\ Moves(r, "open") /\ Keeps(r)
BY GoesOn DEF MkDir, Counts, Steps

LEMMA OpenFileIs ==
    ASSUME LocalsOK, NEW r \in Requests, OpenFile(r)
    PROVE  /\ pc[r] = "open" /\ UNCHANGED Counts
           /\ \/ /\ Ended(r) /\ LocalsOK' /\ tree' = tree
                 /\ ~(Exists(Front(FileOf(r))) /\ ~Held(FileOf(r)))
              \/ /\ Moves(r, "write") /\ Keeps(r)
                 /\ Exists(Front(FileOf(r))) /\ ~Held(FileOf(r))
                 /\ tree' = [tree EXCEPT ![FileOf(r)] =
                                [text |-> IF Exists(FileOf(r)) THEN tree[FileOf(r)].text ELSE "broken",
                                 writer |-> r]]
<1>1. CASE Exists(Front(FileOf(r))) /\ ~Held(FileOf(r))
  <2>1. /\ pc[r] = "open" /\ UNCHANGED Counts /\ Goto(r, "write") /\ UNCHANGED ctx
        /\ tree' = [tree EXCEPT ![FileOf(r)] =
                      [text |-> IF Exists(FileOf(r)) THEN tree[FileOf(r)].text ELSE "broken",
                       writer |-> r]]
    BY <1>1 DEF OpenFile, Counts
  <2>2. Moves(r, "write") /\ Keeps(r)
    BY <2>1, GoesOn DEF Steps
  <2> QED
    BY <1>1, <2>1, <2>2
<1>2. CASE ~(Exists(Front(FileOf(r))) /\ ~Held(FileOf(r)))
  BY <1>2, Ends DEF OpenFile, Fail, Counts
<1> QED
  BY <1>1, <1>2

LEMMA WriteFileIs ==
    ASSUME LocalsOK, NEW r \in Requests, WriteFile(r)
    PROVE  /\ pc[r] = "write" /\ UNCHANGED <<stamp, crashed, gone, spoiled>>
           /\ Ended(r) /\ LocalsOK'
           /\ stored' = IF Path(r) \in Versions /\ ~ctx[r].disturbed
                        THEN stored \cup {Path(r)} ELSE stored
           /\ IF Held(FileOf(r)) /\ tree[FileOf(r)].writer = r
              THEN \E text \in {"full", "broken"} :
                      /\ tree' = [tree EXCEPT ![FileOf(r)] = [text |-> text, writer |-> None]]
                      /\ tree[FileOf(r)].text # "full" => text = "full"
              ELSE tree' = tree
BY Ends DEF WriteFile

LEMMA PresentIs ==
    ASSUME LocalsOK, NEW r \in Requests, Present(r)
    PROVE  /\ pc[r] = "present" /\ tree' = tree /\ UNCHANGED Counts
           /\ \/ /\ Ended(r) /\ LocalsOK'
                 /\ ~Exists(IF Kind(r) = "update" THEN FileOf(r) ELSE Path(r))
              \/ /\ Kind(r) = "remove" /\ Path(r) \in Dirs /\ Exists(Path(r))
                 /\ Moves(r, "sweep")
                 /\ ctx'[r].todo = Inside(Path(r)) /\ ctx'[r].best = ctx[r].best
              \/ /\ ~(Kind(r) = "remove" /\ Path(r) \in Dirs)
                 /\ Exists(IF Kind(r) = "update" THEN FileOf(r) ELSE Path(r))
                 /\ Moves(r, "delete")
                 /\ ctx'[r].best = ctx[r].best
<1> DEFINE there == Exists(IF Kind(r) = "update" THEN FileOf(r) ELSE Path(r))
           recursive == Kind(r) = "remove" /\ Path(r) \in Dirs
           X == IF recursive THEN Inside(Path(r)) ELSE {}
           s == IF recursive THEN "sweep" ELSE "delete"
<1>1. pc[r] = "present" /\ tree' = tree /\ UNCHANGED Counts
  BY DEF Present, Fail, Counts
<1>2. CASE ~there
  <2>1. Finish(r)
    BY <1>2 DEF Present, Fail
  <2> QED
    BY <1>1, <1>2, <2>1, Ends
<1>3. CASE there
  <2>1. Goto(r, s) /\ ctx' = [ctx EXCEPT ![r].todo = X]
    BY <1>3 DEF Present
  <2>2. X \in SUBSET Paths /\ s \in Steps
    BY DEF Inside, Under, Steps
  <2> HIDE DEF X, s
  <2>5. Moves(r, s) /\ ctx'[r].todo = X /\ ctx'[r].best = ctx[r].best
    BY <1>1, <2>1, <2>2, Collects DEF Goto
  <2> QED
    BY <1>1, <1>3, <2>5 DEF X, s
<1> QED
  BY <1>2, <1>3

LEMMA DeleteFileIs ==
    ASSUME LocalsOK, NEW r \in Requests, DeleteFile(r)
    PROVE  /\ pc[r] = "delete" /\ UNCHANGED <<stamp, crashed, stored, spoiled>>
           /\ \/ /\ Ended(r) /\ LocalsOK' /\ tree' = tree /\ gone' = gone
                 /\ ~(Exists(Front(FileOf(r))) /\ ~Held(FileOf(r)))
              \/ /\ Kind(r) = "update" /\ Moves(r, "open") /\ Keeps(r)
                 /\ Exists(Front(FileOf(r)))
                 /\ tree' = [tree EXCEPT ![FileOf(r)] = None] /\ gone' = gone
              \/ /\ Kind(r) # "update" /\ Ended(r) /\ LocalsOK'
                 /\ tree' = [tree EXCEPT ![FileOf(r)] = None]
                 /\ gone' = gone \cup {FileOf(r)}
<1>1. pc[r] = "delete" /\ UNCHANGED <<stamp, crashed, stored, spoiled>>
  BY DEF DeleteFile, Fail, history
<1>2. CASE /\ Exists(Front(FileOf(r)))
           /\ tree' = [tree EXCEPT ![FileOf(r)] = None]
           /\ IF Kind(r) = "update"
              THEN Goto(r, "open") /\ UNCHANGED <<ctx, gone>>
              ELSE Finish(r) /\ gone' = gone \cup {FileOf(r)}
  <2>1. CASE Kind(r) = "update"
    BY <1>1, <1>2, <2>1, GoesOn DEF Steps
  <2>2. CASE Kind(r) # "update"
    BY <1>1, <1>2, <2>2, Ends
  <2> QED
    BY <2>1, <2>2
<1>3. CASE /\ ~(Exists(Front(FileOf(r))) /\ ~Held(FileOf(r)))
           /\ Fail(r) /\ UNCHANGED tree
  BY <1>1, <1>3, Ends DEF Fail, history
<1> QED
  BY <1>2, <1>3 DEF DeleteFile

LEMMA SweepIs ==
    ASSUME LocalsOK, NEW r \in Requests, Sweep(r)
    PROVE  /\ pc[r] = "sweep" /\ UNCHANGED Counts
           /\ Moves(r, "sweep") /\ ctx'[r].best = ctx[r].best
           /\ \E p \in (ctx[r].todo \cup Inside(Path(r))) \cap Under(Path(r)) :
                 /\ ctx[r].todo \cap Under(p) = {}
                 /\ \/ Inside(p) = {} /\ tree' = [tree EXCEPT ![p] = None]
                    \/ (Held(p) \/ Inside(p) # {}) /\ p \in ctx[r].todo /\ UNCHANGED tree
                 /\ ctx'[r].todo = ctx[r].todo \ {p}
<1>1. pc[r] = "sweep" /\ UNCHANGED <<pc, stamp, crashed, history>>
  BY DEF Sweep
<1>2. PICK p \in ctx[r].todo \cup Inside(Path(r)) :
          /\ ctx[r].todo \cap Under(p) = {}
          /\ \/ Inside(p) = {} /\ tree' = [tree EXCEPT ![p] = None]
             \/ (Held(p) \/ Inside(p) # {}) /\ p \in ctx[r].todo /\ UNCHANGED tree
          /\ ctx' = [ctx EXCEPT ![r].todo = ctx[r].todo \ {p}]
  <2>1. ctx[r].todo = ctx[r].todo /\ ctx \in [Requests -> Context \cup {None}]
    BY DEF LocalsOK
  <2> QED
    BY <2>1 DEF Sweep
<1>3. LocalsOf(r) /\ ctx[r].todo \subseteq Under(Path(r))
  BY <1>1 DEF LocalsOK, LocalsOf
<1>4. p \in Under(Path(r))
  BY <1>3 DEF Inside
<1> DEFINE X == ctx[r].todo \ {p}
<1>5. X \in SUBSET Paths
  BY <1>3 DEF Under
<1>6. pc' = [pc EXCEPT ![r] = "sweep"] /\ "sweep" \in Steps
  BY <1>1 DEF LocalsOK, Steps
<1>7. ctx' = [ctx EXCEPT ![r].todo = X]
  BY <1>2
<1> HIDE DEF X
<1>8. Moves(r, "sweep") /\ ctx'[r].todo = X /\ ctx'[r].best = ctx[r].best
  BY <1>1, <1>5, <1>6, <1>7, Collects
<1> QED
  BY <1>1, <1>2, <1>4, <1>8 DEF Counts, X

LEMMA RmDirIs ==
    ASSUME LocalsOK, NEW r \in Requests, RmDir(r)
    PROVE  /\ pc[r] = "sweep" /\ ctx[r].todo = {}
           /\ UNCHANGED <<stamp, crashed, stored, spoiled>>
           /\ Ended(r) /\ LocalsOK'
           /\ \/ /\ Exists(Path(r)) /\ Inside(Path(r)) = {}
                 /\ tree' = [tree EXCEPT ![Path(r)] = None]
                 /\ gone' = gone \cup ctx[r].knew
              \/ /\ ~(Exists(Path(r)) /\ Inside(Path(r)) = {})
                 /\ tree' = tree /\ gone' = gone
BY Ends DEF RmDir, Fail, history

LEMMA ListIs ==
    ASSUME LocalsOK, NEW r \in Requests, List(r)
    PROVE  /\ pc[r] = "list" /\ tree' = tree /\ UNCHANGED Counts
           /\ \/ Ended(r) /\ LocalsOK' /\ ~Exists(Path(r))
              \/ /\ Moves(r, "read") /\ Exists(Path(r))
                 /\ ctx'[r].todo = Files(Path(r)) /\ ctx'[r].best = ctx[r].best
<1>1. pc[r] = "list" /\ tree' = tree /\ UNCHANGED Counts
  BY DEF List, Fail, Counts
<1>2. CASE ~Exists(Path(r))
  BY <1>1, <1>2, Ends DEF List, Fail
<1>3. CASE Exists(Path(r))
  <2>1. Goto(r, "read") /\ ctx' = [ctx EXCEPT ![r].todo = Files(Path(r))]
    BY <1>3 DEF List
  <2>2. Files(Path(r)) \in SUBSET Paths /\ "read" \in Steps
    BY DEF Files, Steps, Paths
  <2>3. Moves(r, "read") /\ ctx'[r].todo = Files(Path(r)) /\ ctx'[r].best = ctx[r].best
    BY <1>1, <2>1, <2>2, Collects DEF Goto
  <2> QED
    BY <1>1, <1>3, <2>3
<1> QED
  BY <1>2, <1>3

LEMMA FindIs ==
    ASSUME LocalsOK, NEW r \in Requests, Find(r)
    PROVE  /\ pc[r] = "find" /\ tree' = tree /\ UNCHANGED Counts
           /\ \/ Ended(r) /\ LocalsOK' /\ ~Exists(Path(r))
              \/ /\ Moves(r, "read") /\ Exists(Path(r))
                 /\ ctx'[r].todo = {Path(r)} /\ ctx'[r].best = ctx[r].best
<1>1. pc[r] = "find" /\ tree' = tree /\ UNCHANGED Counts
  BY DEF Find, Fail, Counts
<1>2. CASE ~Exists(Path(r))
  BY <1>1, <1>2, Ends DEF Find, Fail
<1>3. CASE Exists(Path(r))
  <2>1. Goto(r, "read") /\ ctx' = [ctx EXCEPT ![r].todo = {Path(r)}]
    BY <1>3 DEF Find
  <2>2. {Path(r)} \in SUBSET Paths /\ "read" \in Steps
    BY <1>1, OpIs DEF Steps
  <2>3. Moves(r, "read") /\ ctx'[r].todo = {Path(r)} /\ ctx'[r].best = ctx[r].best
    BY <1>1, <2>1, <2>2, Collects DEF Goto
  <2> QED
    BY <1>1, <1>3, <2>3
<1> QED
  BY <1>2, <1>3

LEMMA NewestIs ==
    ASSUME NEW b \in 0..MaxStamp, NEW v \in Versions
    PROVE  Newest(b, v) \in {b, Last(v)} /\ Newest(b, v) >= b /\ Newest(b, v) >= Last(v)
           /\ Newest(b, v) \in 1..MaxStamp
<1>1. Last(v) \in 1..MaxStamp /\ MaxStamp \in Nat
  BY VersionPaths, VaultAssumption
<1> QED
  BY <1>1 DEF Newest

LEMMA ReadIs ==
    ASSUME LocalsOK, NEW r \in Requests, Read(r)
    PROVE  /\ pc[r] = "read" /\ tree' = tree /\ UNCHANGED Counts
           /\ \E v \in ctx[r].todo :
                 \/ Ended(r) /\ LocalsOK' /\ ~Readable(v)
                 \/ /\ Moves(r, "read") /\ Readable(v)
                    /\ ctx'[r].todo = ctx[r].todo \ {v}
                    /\ ctx'[r].best = Newest(ctx[r].best, v)
<1>1. pc[r] = "read" /\ tree' = tree /\ UNCHANGED Counts
  BY DEF Read, Fail, Counts
<1>2. PICK v \in ctx[r].todo :
         IF Readable(v)
         THEN /\ ctx' = [ctx EXCEPT ![r].todo = @ \ {v}, ![r].best = Newest(@, v)]
              /\ UNCHANGED <<pc, history>>
         ELSE Fail(r)
  BY DEF Read
<1>3. CASE ~Readable(v)
  BY <1>1, <1>2, <1>3, Ends DEF Fail
<1>4. CASE Readable(v)
  <2>1. ctx[r] \in Context /\ ctx[r].todo \subseteq Versions
    BY <1>1, OpIs DEF LocalsOK, LocalsOf
  <2> DEFINE X == ctx[r].todo \ {v}
             n == Newest(ctx[r].best, v)
  <2>2. X \in SUBSET Paths /\ n \in 0..MaxStamp
    BY <2>1, NewestIs DEF Context, Paths
  <2>3. pc' = [pc EXCEPT ![r] = "read"] /\ "read" \in Steps
    BY <1>1, <1>2, <1>4 DEF LocalsOK, Steps
  <2>4. ctx' = [ctx EXCEPT ![r].todo = X, ![r].best = n]
    BY <1>2, <1>4, <2>1 DEF LocalsOK, Context
  <2> HIDE DEF X, n
  <2>5. Moves(r, "read") /\ ctx'[r].todo = X /\ ctx'[r].best = n
    BY <1>1, <2>2, <2>3, <2>4, Lists
  <2> QED
    BY <1>1, <1>4, <2>5 DEF X, n
<1> QED
  BY <1>3, <1>4

LEMMA ServeIs ==
    ASSUME LocalsOK, NEW r \in Requests, Serve(r)
    PROVE  /\ pc[r] = "read" /\ ctx[r].todo = {} /\ tree' = tree /\ UNCHANGED Counts
           /\ Ended(r) /\ LocalsOK'
BY Ends DEF Serve, Fail, Counts

-----------------------------------------------------------------------------
\* Types, step by step.
LEMMA Unmoved ==
    ASSUME TreeOK, HeldOK, NEW r \in Requests, pc[r] # "write", tree' = tree,
           \A q \in Requests \ {r} : pc'[q] = pc[q] /\ ctx'[q] = ctx[q]
    PROVE  TreeOK' /\ HeldOK'
<1>1. TreeOK'
  BY DEF TreeOK, Exists
<1>2. HeldOK'
  BY HeldKept
<1> QED
  BY <1>1, <1>2

LEMMA Others ==
    ASSUME NEW r \in Requests, NEW s, Moves(r, s) \/ Ended(r)
    PROVE  \A q \in Requests \ {r} : pc'[q] = pc[q] /\ ctx'[q] = ctx[q]
BY DEF Moves, Ended

LEMMA CountersKept ==
    ASSUME CountersOK, UNCHANGED Counts PROVE CountersOK'
BY DEF CountersOK, Counts, history

LEMMA AbsentType == ASSUME TypeInv, NEW r \in Requests, Absent(r) PROVE TypeInv'
<1>1. TreeOK /\ HeldOK /\ LocalsOK /\ CountersOK
  BY TypeInvIs
<1>2. pc[r] = "absent" /\ tree' = tree /\ UNCHANGED Counts /\ LocalsOf(r)
  BY <1>1, AbsentIs DEF LocalsOK
<1>3. CASE Ended(r) /\ LocalsOK'
  BY <1>1, <1>2, <1>3, Others, Unmoved, CountersKept, TypeInvIsNext
<1>4. CASE /\ Moves(r, IF Path(r) \in Dirs THEN "mkdir" ELSE "open") /\ Keeps(r)
  <2> DEFINE s == IF Path(r) \in Dirs THEN "mkdir" ELSE "open"
  <2>1. s \in Steps /\ s # "idle" /\ Moves(r, s)
    BY <1>4 DEF Steps
  <2>2. LocalsOf(r)'
    BY <1>2, <2>1 DEF LocalsOf, Moves, Kind, Path
  <2>3. LocalsOK'
    BY <1>1, <2>1, <2>2, MovesOK
  <2>4. \A q \in Requests \ {r} : pc'[q] = pc[q] /\ ctx'[q] = ctx[q]
    BY <2>1, Others
  <2> QED
    BY <1>1, <1>2, <2>3, <2>4, Unmoved, CountersKept, TypeInvIsNext
<1> QED
  BY <1>1, <1>3, <1>4, AbsentIs

LEMMA MkDirType == ASSUME TypeInv, NEW r \in Requests, MkDir(r) PROVE TypeInv'
<1>1. TreeOK /\ HeldOK /\ LocalsOK /\ CountersOK
  BY TypeInvIs
<1>2. /\ pc[r] = "mkdir" /\ UNCHANGED Counts
      /\ tree' = [p \in Paths |-> IF IsPrefix(p, Path(r)) /\ ~Exists(p)
                                  THEN [text |-> "dir", writer |-> None] ELSE tree[p]]
      /\ Moves(r, "open") /\ Keeps(r)
  BY <1>1, MkDirIs
<1>3. Path(r) \in Dirs /\ Path(r) \in Paths /\ Kind(r) = "create"
  BY <1>1, <1>2, OpIs DEF LocalsOK, LocalsOf
<1>4. LocalsOK'
  <2>1. LocalsOf(r)'
    BY <1>2, <1>3 DEF LocalsOf, Moves, Kind, Path
  <2> QED
    BY <1>1, <1>2, <2>1, MovesOK DEF Steps
<1>5. tree' \in [Paths -> Node \cup {None}]
  BY <1>1, <1>2 DEF TreeOK, Node
<1>6. ASSUME NEW p \in Paths, tree'[p] # None
      PROVE  /\ p \notin LockerDirs => tree'[Front(p)] # None
             /\ tree'[p].text = "dir" <=> p \in Dirs
  <2>1. CASE Exists(p)
    <3>1. tree'[p] = tree[p] /\ (tree[p].text = "dir" <=> p \in Dirs)
      BY <1>1, <1>2, <2>1 DEF TreeOK
    <3>2. p \notin LockerDirs => Front(p) \in Paths /\ tree[Front(p)] # None
      BY <1>1, <2>1, Parents DEF TreeOK, Exists, Paths
    <3> QED
      BY <1>2, <3>1, <3>2 DEF Exists
  <2>2. CASE ~Exists(p) /\ IsPrefix(p, Path(r))
    <3>1. tree'[p] = [text |-> "dir", writer |-> None] /\ p \in Dirs
      BY <1>2, <1>3, <2>2, Order
    <3>2. ASSUME p \notin LockerDirs PROVE tree'[Front(p)] # None
      <4>1. Front(p) \in Paths /\ IsPrefix(Front(p), p)
        BY <3>2, Parents DEF Paths
      <4>2. IsPrefix(Front(p), Path(r))
        BY <1>3, <2>2, <4>1, Order
      <4>3. [text |-> "dir", writer |-> None] # None
        BY NoneAssumption DEF Node
      <4> QED
        BY <1>2, <4>1, <4>2, <4>3 DEF Exists
    <3> QED
      BY <3>1, <3>2
  <2> QED
    BY <1>2, <1>6, <2>1, <2>2 DEF Exists
<1>7. TreeOK'
  BY <1>5, <1>6 DEF TreeOK, Exists
<1>8. HeldOK'
  <2>1. \A p \in Paths : tree'[p] = tree[p] \/ tree'[p].writer = None
    BY <1>2
  <2>2. \A q \in Requests \ {r} : pc'[q] = pc[q] /\ ctx'[q] = ctx[q]
    BY <1>2, Others
  <2> QED
    BY <1>1, <1>2, <2>1, <2>2, HeldKept
<1> QED
  BY <1>1, <1>2, <1>4, <1>7, <1>8, CountersKept, TypeInvIsNext

\* A file is put into a directory.
LEMMA PutInto ==
    ASSUME TreeOK, NEW f \in Paths, f \notin Dirs, tree[Front(f)] # None,
           NEW n \in Node, n.text # "dir", tree' = [tree EXCEPT ![f] = n]
    PROVE  TreeOK'
<1>1. tree' \in [Paths -> Node \cup {None}] /\ n # None
  BY NoneAssumption DEF TreeOK
<1>2. \A q \in Paths : tree'[q] = IF q = f THEN n ELSE tree[q]
  BY DEF TreeOK
<1>3. ASSUME NEW q \in Paths, tree'[q] # None
      PROVE  /\ q \notin LockerDirs => tree'[Front(q)] # None
             /\ tree'[q].text = "dir" <=> q \in Dirs
  <2>1. CASE q = f
    <3>1. f \notin LockerDirs /\ Front(f) \in Paths /\ Front(f) # f
      BY Parents DEF Dirs, Paths
    <3> QED
      BY <1>2, <2>1, <3>1
  <2>2. CASE q # f
    <3>1. tree'[q] = tree[q] /\ Exists(q)
      BY <1>2, <1>3, <2>2 DEF Exists
    <3>2. q \notin LockerDirs => Front(q) \in Paths /\ tree[Front(q)] # None
      BY <3>1, Parents DEF TreeOK, Exists, Paths
    <3> QED
      BY <1>1, <1>2, <3>1, <3>2 DEF TreeOK
  <2> QED
    BY <2>1, <2>2
<1> QED
  BY <1>1, <1>3 DEF TreeOK, Exists

LEMMA OpenFileType == ASSUME TypeInv, NEW r \in Requests, OpenFile(r) PROVE TypeInv'
<1>1. TreeOK /\ HeldOK /\ LocalsOK /\ CountersOK
  BY TypeInvIs
<1>2. pc[r] = "open" /\ UNCHANGED Counts /\ LocalsOf(r)
  BY <1>1, OpenFileIs DEF LocalsOK
<1>3. CASE Ended(r) /\ LocalsOK' /\ tree' = tree
  BY <1>1, <1>2, <1>3, Others, Unmoved, CountersKept, TypeInvIsNext
<1>4. CASE /\ Moves(r, "write") /\ Keeps(r)
           /\ Exists(Front(FileOf(r))) /\ ~Held(FileOf(r))
           /\ tree' = [tree EXCEPT ![FileOf(r)] =
                         [text |-> IF Exists(FileOf(r)) THEN tree[FileOf(r)].text ELSE "broken",
                          writer |-> r]]
  <2> DEFINE f == FileOf(r)
             n == [text |-> IF Exists(f) THEN tree[f].text ELSE "broken", writer |-> r]
  <2>1. f \in Paths /\ f \notin Dirs /\ Front(f) \in Paths
    BY <1>1, <1>2, FileIs
  <2>2. n \in Node /\ n.text # "dir" /\ n.writer = r
    BY <1>1, <2>1 DEF TreeOK, Node, Exists
  <2>3. tree[Front(f)] # None /\ tree' = [tree EXCEPT ![f] = n]
    BY <1>4 DEF Exists
  <2> HIDE DEF n
  <2>4. TreeOK'
    BY <1>1, <2>1, <2>2, <2>3, PutInto
  <2>5. LocalsOf(r)'
    BY <1>2, <1>4 DEF LocalsOf, Moves, Kind, Path
  <2>6. LocalsOK'
    BY <1>1, <1>4, <2>5, MovesOK DEF Steps
  <2>7. pc'[r] = "write" /\ FileOf(r)' = f
    BY <1>4 DEF Moves, FileOf, Path
  <2>8. ASSUME NEW p \in Paths, Held(p)'
        PROVE  (pc[tree[p].writer] = "write" /\ FileOf(tree[p].writer) = p)'
    <3>1. CASE p = f
      <4>1. tree'[p].writer = r
        BY <1>1, <2>1, <2>2, <2>3, <3>1 DEF TreeOK
      <4> QED
        BY <2>7, <3>1, <4>1 DEF FileOf, Path
    <3>2. CASE p # f
      <4>1. tree'[p] = tree[p] /\ Held(p)
        BY <1>1, <2>1, <2>3, <2>8, <3>2 DEF TreeOK, Held, Exists
      <4>2. PICK w \in Requests : w = tree[p].writer /\ pc[w] = "write" /\ FileOf(w) = p
        BY <1>1, <4>1 DEF TreeOK, HeldOK, Held, Exists, Node
      <4>3. w # r /\ pc'[w] = pc[w] /\ ctx'[w] = ctx[w]
        BY <1>2, <1>4, <4>2, Others
      <4>4. FileOf(w)' = p
        BY <4>2, <4>3 DEF FileOf, Path
      <4> QED
        BY <4>1, <4>2, <4>3, <4>4 DEF FileOf, Path
    <3> QED
      BY <3>1, <3>2
  <2>9. HeldOK'
    BY <2>8 DEF HeldOK
  <2> QED
    BY <1>1, <1>2, <2>4, <2>6, <2>9, CountersKept, TypeInvIsNext
<1> QED
  BY <1>1, <1>3, <1>4, OpenFileIs

LEMMA WriteFileType == ASSUME TypeInv, NEW r \in Requests, WriteFile(r) PROVE TypeInv'
<1>1. TreeOK /\ HeldOK /\ LocalsOK /\ CountersOK
  BY TypeInvIs
<1>2. /\ pc[r] = "write" /\ UNCHANGED <<stamp, crashed, gone, spoiled>>
      /\ Ended(r) /\ LocalsOK'
      /\ stored' = IF Path(r) \in Versions /\ ~ctx[r].disturbed
                   THEN stored \cup {Path(r)} ELSE stored
  BY <1>1, WriteFileIs
<1>3. CountersOK'
  BY <1>1, <1>2 DEF CountersOK
<1> DEFINE f == FileOf(r)
<1>4. f \in Paths /\ f \notin Dirs
  BY <1>1, <1>2, FileIs
<1>5. \A q \in Requests \ {r} : pc'[q] = pc[q] /\ ctx'[q] = ctx[q]
  BY <1>2, Others
<1>6. TreeOK' /\ \A p \in Paths : tree'[p] = tree[p] \/ tree'[p].writer = None
  <2>1. CASE Held(f) /\ tree[f].writer = r
    <3>1. PICK text \in {"full", "broken"} :
             tree' = [tree EXCEPT ![f] = [text |-> text, writer |-> None]]
      BY <1>1, <2>1, WriteFileIs
    <3> DEFINE n == [text |-> text, writer |-> None]
    <3>2. n \in Node /\ n.text # "dir" /\ n.writer = None
      BY DEF Node
    <3>3. tree[Front(f)] # None
      BY <1>1, <1>4, <2>1 DEF TreeOK, Held, Exists, Dirs
    <3> HIDE DEF n
    <3>4. TreeOK'
      BY <1>1, <1>4, <3>1, <3>2, <3>3, PutInto DEF n
    <3> QED
      BY <1>1, <1>4, <3>1, <3>4 DEF TreeOK
  <2>2. CASE ~(Held(f) /\ tree[f].writer = r)
    <3>1. tree' = tree
      BY <1>1, <2>2, WriteFileIs
    <3> QED
      BY <1>1, <3>1 DEF TreeOK, Exists
  <2> QED
    BY <2>1, <2>2
<1>7. ASSUME NEW p \in Paths, Held(p)'
      PROVE  (pc[tree[p].writer] = "write" /\ FileOf(tree[p].writer) = p)'
  <2>1. tree'[p] = tree[p] /\ Held(p)
    BY <1>6, <1>7 DEF Held, Exists
  <2>2. PICK w \in Requests : w = tree[p].writer /\ pc[w] = "write" /\ FileOf(w) = p
    BY <1>1, <2>1 DEF TreeOK, HeldOK, Held, Exists, Node
  <2>3. w # r
    <3>1. SUFFICES ASSUME w = r PROVE FALSE
      OBVIOUS
    <3>2. p = f /\ Held(f) /\ tree[f].writer = r
      BY <2>1, <2>2, <3>1
    <3>3. PICK text : tree' = [tree EXCEPT ![f] = [text |-> text, writer |-> None]]
      BY <1>1, <3>2, WriteFileIs
    <3> QED
      BY <1>1, <1>4, <1>7, <3>2, <3>3 DEF TreeOK, Held
  <2>4. pc'[w] = pc[w] /\ ctx'[w] = ctx[w]
    BY <1>5, <2>3
  <2>5. FileOf(w)' = p
    BY <2>2, <2>4 DEF FileOf, Path
  <2> QED
    BY <2>1, <2>2, <2>4, <2>5 DEF FileOf, Path
<1>8. HeldOK'
  BY <1>7 DEF HeldOK
<1> QED
  BY <1>2, <1>3, <1>6, <1>8, TypeInvIsNext

LEMMA PresentType == ASSUME TypeInv, NEW r \in Requests, Present(r) PROVE TypeInv'
<1>1. TreeOK /\ HeldOK /\ LocalsOK /\ CountersOK
  BY TypeInvIs
<1>2. pc[r] = "present" /\ tree' = tree /\ UNCHANGED Counts /\ LocalsOf(r)
  BY <1>1, PresentIs DEF LocalsOK
<1>3. CASE Ended(r) /\ LocalsOK'
  BY <1>1, <1>2, <1>3, Others, Unmoved, CountersKept, TypeInvIsNext
<1>4. ASSUME NEW s \in {"sweep", "delete"}, Moves(r, s),
             s = "sweep" => /\ Kind(r) = "remove" /\ Path(r) \in Dirs
                            /\ ctx'[r].todo = Inside(Path(r)),
             s = "delete" => ~(Kind(r) = "remove" /\ Path(r) \in Dirs)
      PROVE  TypeInv'
  <2>1. /\ Kind(r) \in {"remove", "update"} /\ Path(r) \in Dirs \cup Versions
        /\ Inside(Path(r)) \subseteq Under(Path(r))
    BY <1>1, <1>2, OpIs DEF LocalsOf, Inside
  <2>2. pc'[r] = s /\ ctx'[r].op = ctx[r].op
    BY <1>4 DEF Moves
  <2>3. LocalsOf(r)'
    BY <1>4, <2>1, <2>2 DEF LocalsOf, Kind, Path
  <2>4. LocalsOK'
    BY <1>1, <1>4, <2>3, MovesOK DEF Steps
  <2>5. \A q \in Requests \ {r} : pc'[q] = pc[q] /\ ctx'[q] = ctx[q]
    BY <1>4, Others
  <2> QED
    BY <1>1, <1>2, <2>4, <2>5, Unmoved, CountersKept, TypeInvIsNext
<1> QED
  BY <1>1, <1>3, <1>4, PresentIs

LEMMA TreeTaken ==
    ASSUME TreeOK, HeldOK, NEW r \in Requests, pc[r] # "write",
           \A q \in Requests \ {r} : pc'[q] = pc[q] /\ ctx'[q] = ctx[q],
           NEW p \in Paths, Inside(p) = {}, tree' = [tree EXCEPT ![p] = None]
    PROVE  TreeOK' /\ HeldOK'
<1>1. TreeOK'
  BY TakenAway
<1>2. \A q \in Paths : tree'[q] = None \/ tree'[q] = tree[q]
  BY DEF TreeOK
<1>3. HeldOK'
  BY <1>2, HeldKept
<1> QED
  BY <1>1, <1>3

LEMMA DeleteFileType == ASSUME TypeInv, NEW r \in Requests, DeleteFile(r) PROVE TypeInv'
<1>1. TreeOK /\ HeldOK /\ LocalsOK /\ CountersOK
  BY TypeInvIs
<1>2. pc[r] = "delete" /\ UNCHANGED <<stamp, crashed, stored, spoiled>> /\ LocalsOf(r)
  BY <1>1, DeleteFileIs DEF LocalsOK
<1> DEFINE f == FileOf(r)
<1>3. f \in Paths /\ Inside(f) = {} /\ (Path(r) \in Versions => f \in Versions)
  BY <1>1, <1>2, FileIs, FilesAreEmpty
<1>4. CASE Ended(r) /\ LocalsOK' /\ tree' = tree /\ gone' = gone
  <2>1. CountersOK'
    BY <1>1, <1>2, <1>4 DEF CountersOK
  <2> QED
    BY <1>1, <1>2, <1>4, <2>1, Others, Unmoved, TypeInvIsNext
<1>5. CASE /\ Kind(r) = "update" /\ Moves(r, "open")
           /\ tree' = [tree EXCEPT ![f] = None] /\ gone' = gone
  <2>1. LocalsOf(r)'
    BY <1>5 DEF LocalsOf, Moves, Kind, Path
  <2>2. LocalsOK'
    BY <1>1, <1>5, <2>1, MovesOK DEF Steps
  <2>3. TreeOK' /\ HeldOK'
    BY <1>1, <1>2, <1>3, <1>5, Others, TreeTaken
  <2>4. CountersOK'
    BY <1>1, <1>2, <1>5 DEF CountersOK
  <2> QED
    BY <2>2, <2>3, <2>4, TypeInvIsNext
<1>6. CASE /\ Kind(r) # "update" /\ Ended(r) /\ LocalsOK'
           /\ tree' = [tree EXCEPT ![f] = None] /\ gone' = gone \cup {f}
  <2>1. f \in Versions
    BY <1>2, <1>3, <1>6 DEF LocalsOf
  <2>2. TreeOK' /\ HeldOK'
    BY <1>1, <1>2, <1>3, <1>6, Others, TreeTaken
  <2>3. CountersOK'
    BY <1>1, <1>2, <1>6, <2>1 DEF CountersOK
  <2> QED
    BY <1>6, <2>2, <2>3, TypeInvIsNext
<1> QED
  BY <1>1, <1>4, <1>5, <1>6, DeleteFileIs

LEMMA SweepType == ASSUME TypeInv, NEW r \in Requests, Sweep(r) PROVE TypeInv'
<1>1. TreeOK /\ HeldOK /\ LocalsOK /\ CountersOK
  BY TypeInvIs
<1>2. pc[r] = "sweep" /\ UNCHANGED Counts /\ LocalsOf(r) /\ Moves(r, "sweep")
  BY <1>1, SweepIs DEF LocalsOK
<1>3. PICK p \in Under(Path(r)) :
         /\ \/ Inside(p) = {} /\ tree' = [tree EXCEPT ![p] = None]
            \/ tree' = tree
         /\ ctx'[r].todo = ctx[r].todo \ {p}
  BY <1>1, SweepIs
<1>4. p \in Paths
  BY DEF Under
<1>5. LocalsOf(r)'
  BY <1>2, <1>3 DEF LocalsOf, Moves, Kind, Path
<1>6. LocalsOK'
  BY <1>1, <1>2, <1>5, MovesOK DEF Steps
<1>7. \A q \in Requests \ {r} : pc'[q] = pc[q] /\ ctx'[q] = ctx[q]
  BY <1>2, Others
<1>8. TreeOK' /\ HeldOK'
  BY <1>1, <1>2, <1>3, <1>4, <1>7, TreeTaken, Unmoved
<1> QED
  BY <1>1, <1>2, <1>6, <1>8, CountersKept, TypeInvIsNext

LEMMA RmDirType == ASSUME TypeInv, NEW r \in Requests, RmDir(r) PROVE TypeInv'
<1>1. TreeOK /\ HeldOK /\ LocalsOK /\ CountersOK
  BY TypeInvIs
<1>2. /\ pc[r] = "sweep" /\ UNCHANGED <<stamp, crashed, stored, spoiled>>
      /\ Ended(r) /\ LocalsOK'
  BY <1>1, RmDirIs
<1>3. Path(r) \in Paths /\ ctx[r].knew \subseteq Versions
  BY <1>1, <1>2, OpIs DEF Context
<1>4. \A q \in Requests \ {r} : pc'[q] = pc[q] /\ ctx'[q] = ctx[q]
  BY <1>2, Others
<1>5. CASE /\ Inside(Path(r)) = {} /\ tree' = [tree EXCEPT ![Path(r)] = None]
           /\ gone' = gone \cup ctx[r].knew
  <2>1. TreeOK' /\ HeldOK'
    BY <1>1, <1>2, <1>3, <1>4, <1>5, TreeTaken
  <2>2. CountersOK'
    BY <1>1, <1>2, <1>3, <1>5 DEF CountersOK
  <2> QED
    BY <1>2, <2>1, <2>2, TypeInvIsNext
<1>6. CASE tree' = tree /\ gone' = gone
  <2>1. TreeOK' /\ HeldOK'
    BY <1>1, <1>2, <1>4, <1>6, Unmoved
  <2>2. CountersOK'
    BY <1>1, <1>2, <1>6 DEF CountersOK
  <2> QED
    BY <1>2, <2>1, <2>2, TypeInvIsNext
<1> QED
  BY <1>1, <1>5, <1>6, RmDirIs

LEMMA ReadingType ==
    ASSUME TypeInv, NEW r \in Requests, List(r) \/ Find(r) \/ Read(r) \/ Serve(r)
    PROVE  TypeInv'
<1>1. TreeOK /\ HeldOK /\ LocalsOK /\ CountersOK
  BY TypeInvIs
<1>2. /\ pc[r] \in {"list", "find", "read"} /\ tree' = tree /\ UNCHANGED Counts /\ LocalsOf(r)
  BY <1>1, ListIs, FindIs, ReadIs, ServeIs DEF LocalsOK
<1>3. CASE Ended(r) /\ LocalsOK'
  BY <1>1, <1>2, <1>3, Others, Unmoved, CountersKept, TypeInvIsNext
<1>4. ASSUME Moves(r, "read"), ctx'[r].todo \subseteq {v \in Versions : IsPrefix(Path(r), v)}
      PROVE  TypeInv'
  <2>1. LocalsOf(r)'
    BY <1>2, <1>4 DEF LocalsOf, Moves, Kind, Path
  <2>2. LocalsOK'
    BY <1>1, <1>4, <2>1, MovesOK DEF Steps
  <2>3. \A q \in Requests \ {r} : pc'[q] = pc[q] /\ ctx'[q] = ctx[q]
    BY <1>4, Others
  <2> QED
    BY <1>1, <1>2, <2>2, <2>3, Unmoved, CountersKept, TypeInvIsNext
<1>5. CASE List(r)
  <2>1. ~(Ended(r) /\ LocalsOK') => Moves(r, "read") /\ ctx'[r].todo = Files(Path(r))
    BY <1>1, <1>5, ListIs
  <2>2. Path(r) \in SecretDirs
    BY <1>1, <1>2, <1>5, ListIs DEF LocalsOf
  <2>3. Files(Path(r)) \subseteq {v \in Versions : IsPrefix(Path(r), v)}
    BY <2>2, VersionPaths DEF Files
  <2> QED
    BY <1>3, <1>4, <2>1, <2>3
<1>6. CASE Find(r)
  <2>1. ~(Ended(r) /\ LocalsOK') => Moves(r, "read") /\ ctx'[r].todo = {Path(r)}
    BY <1>1, <1>6, FindIs
  <2>2. Path(r) \in Versions /\ IsPrefix(Path(r), Path(r))
    BY <1>1, <1>2, <1>6, FindIs, Order DEF LocalsOf, Paths
  <2> QED
    BY <1>3, <1>4, <2>1, <2>2
<1>7. CASE Read(r)
  <2>1. ~(Ended(r) /\ LocalsOK') => Moves(r, "read") /\ ctx'[r].todo \subseteq ctx[r].todo
    BY <1>1, <1>7, ReadIs
  <2>2. ctx[r].todo \subseteq {v \in Versions : IsPrefix(Path(r), v)}
    BY <1>1, <1>2, <1>7, ReadIs DEF LocalsOf
  <2> QED
    BY <1>3, <1>4, <2>1, <2>2
<1> QED
  BY <1>1, <1>3, <1>5, <1>6, <1>7, ServeIs

-----------------------------------------------------------------------------
\* A request comes.
LEMMA FirstStepIs ==
    ASSUME NEW op \in Operations
    PROVE  /\ op.kind \in {"create", "remove", "update", "get"}
           /\ op.path \in Dirs \cup Versions /\ op.path \in Paths
           /\ op.kind = "update" => op.path \in Dirs
           /\ op.kind = "get" => op.path \in SecretDirs \cup Versions
           /\ op.kind = "create" => FirstStep(op) = "absent"
           /\ op.kind \in {"update", "remove"} => FirstStep(op) = "present"
           /\ op.kind = "get" /\ op.path \in Versions => FirstStep(op) = "find"
           /\ op.kind = "get" /\ op.path \notin Versions => FirstStep(op) = "list"
           /\ FirstStep(op) \in Steps /\ FirstStep(op) # "idle"
<1>1. /\ op.kind \in {"create", "remove", "update", "get"}
      /\ op.path \in Dirs \cup Versions /\ op.path \in Paths
      /\ op.kind = "update" => op.path \in Dirs
      /\ op.kind = "get" => op.path \in SecretDirs \cup Versions
  BY DEF Operations, Dirs, Paths
<1>2. CASE op.kind = "create"
  BY <1>1, <1>2 DEF FirstStep, Steps
<1>3. CASE op.kind \in {"update", "remove"}
  BY <1>1, <1>3 DEF FirstStep, Steps
<1>4. CASE op.kind = "get"
  BY <1>1, <1>4 DEF FirstStep, Steps
<1> QED
  BY <1>1, <1>2, <1>3, <1>4

\* What the others learn of it.
Notices(q, op) ==
    /\ ctx'[q] \in Context /\ ctx'[q] # None
    /\ ctx'[q].op = ctx[q].op /\ ctx'[q].todo = ctx[q].todo /\ ctx'[q].best = ctx[q].best
    /\ ctx'[q].barred = ctx[q].barred
    /\ ctx'[q].knew = IF Kind(q) = "get" THEN ctx[q].knew \ Asked(op) ELSE ctx[q].knew
    /\ ctx'[q].disturbed = (ctx[q].disturbed \/ Disturbs(op, ctx[q].op))

Comes(r, op) ==
    /\ ctx'[r] \in Context /\ ctx'[r] # None
    /\ ctx'[r].op = op /\ ctx'[r].todo = {} /\ ctx'[r].best = 0
    /\ ctx'[r].knew = IF op.kind = "get" THEN stored ELSE {v \in Asked(op) : Exists(v)}
    /\ ctx'[r].barred = IF op.kind = "get" THEN gone ELSE {}
    /\ ctx'[r].disturbed = \E a \in Active : Disturbs(ctx[a].op, op)

LEMMA NewContext ==
    ASSUME NEW op \in Operations, NEW k \in SUBSET Versions, NEW b \in SUBSET Versions,
           NEW x \in BOOLEAN
    PROVE  [op |-> op, todo |-> {}, best |-> 0, knew |-> k, barred |-> b, disturbed |-> x] \in Context
<1>1. 0 \in 0..MaxStamp
  BY VaultAssumption
<1>2. {} \in SUBSET Paths
  OBVIOUS
<1> QED
  BY <1>1, <1>2, Zenon DEF Context

LEMMA SubmitIs ==
    ASSUME LocalsOK, CountersOK, NEW r \in Requests, NEW op \in Operations, Submit(r, op)
    PROVE  /\ pc[r] = "idle" /\ r \notin Active
           /\ pc' = [pc EXCEPT ![r] = FirstStep(op)]
           /\ ctx' \in [Requests -> Context \cup {None}]
           /\ Comes(r, op)
           /\ \A q \in Active : Notices(q, op)
           /\ \A q \in Requests \ {r} : pc[q] = "idle" => ctx'[q] = None
           /\ UNCHANGED <<tree, crashed, gone>>
           /\ stored' = stored \ Asked(op)
           /\ spoiled \subseteq spoiled' /\ spoiled' \subseteq Dirs
           /\ \A a \in Active : Spoils(ctx[a].op, op) \subseteq spoiled' /\ Spoils(op, ctx[a].op) \subseteq spoiled'
           /\ stamp' \in 0..MaxStamp /\ stamp <= stamp'
           /\ op.kind = "create" /\ op.path \in Versions => Last(op.path) = stamp + 1 /\ stamp' = stamp + 1
<1> DEFINE new == [op |-> op, todo |-> {}, best |-> 0,
                   knew |-> IF op.kind = "get" THEN stored ELSE {v \in Asked(op) : Exists(v)},
                   barred |-> IF op.kind = "get" THEN gone ELSE {},
                   disturbed |-> \E a \in Active : Disturbs(ctx[a].op, op)]
           told(q) == [ctx[q] EXCEPT !.knew = IF Kind(q) = "get" THEN @ \ Asked(op) ELSE @,
                                     !.disturbed = @ \/ Disturbs(op, ctx[q].op)]
<1>1. /\ pc[r] = "idle" /\ r \notin Active
      /\ pc' = [pc EXCEPT ![r] = FirstStep(op)]
      /\ ctx' = [q \in Requests |-> IF q = r THEN new ELSE IF q \in Active THEN told(q) ELSE None]
      /\ UNCHANGED <<tree, crashed, gone>>
      /\ stored' = stored \ Asked(op)
      /\ spoiled' = spoiled \cup UNION {Spoils(ctx[a].op, op) \cup Spoils(op, ctx[a].op) : a \in Active}
  BY Zenon DEF Submit, Goto, Active
<1>2. /\ op.kind = "create" /\ op.path \in Versions => Last(op.path) = stamp + 1
      /\ stamp' = IF op.kind = "create" /\ op.path \in Versions THEN stamp + 1 ELSE stamp
  BY Zenon DEF Submit
<1>3. new \in Context
  <2> DEFINE k == IF op.kind = "get" THEN stored ELSE {v \in Asked(op) : Exists(v)}
             b == IF op.kind = "get" THEN gone ELSE {}
             x == \E a \in Active : Disturbs(ctx[a].op, op)
  <2>1. Asked(op) \subseteq Versions /\ 0 \in 0..MaxStamp
    BY VaultAssumption DEF Asked
  <2>2. k \in SUBSET Versions /\ b \in SUBSET Versions
    BY <2>1 DEF CountersOK
  <2>3. x \in BOOLEAN
    BY Zenon
  <2> HIDE DEF k, b, x
  <2>4. [op |-> op, todo |-> {}, best |-> 0, knew |-> k, barred |-> b, disturbed |-> x] \in Context
    BY <2>2, <2>3, NewContext, Zenon
  <2> QED
    BY <2>4, Zenon DEF new, k, b, x
<1>4. Comes(r, op)
  <2>1. ctx'[r] = new
    BY <1>1
  <2>2. new # None
    BY <1>3, NoneAssumption
  <2>3. /\ ctx'[r].op = op /\ ctx'[r].todo = {} /\ ctx'[r].best = 0
        /\ ctx'[r].knew = IF op.kind = "get" THEN stored ELSE {v \in Asked(op) : Exists(v)}
        /\ ctx'[r].barred = IF op.kind = "get" THEN gone ELSE {}
    BY <2>1
  <2>4. ctx'[r].disturbed = \E a \in Active : Disturbs(ctx[a].op, op)
    <3> DEFINE x == \E a \in Active : Disturbs(ctx[a].op, op)
    <3> HIDE DEF x
    <3>1. ctx'[r].disturbed = x
      BY <2>1 DEF x
    <3> QED
      BY <3>1, Zenon DEF x
  <2>5. ctx'[r] \in Context /\ ctx'[r] # None
    BY <1>3, <2>1, <2>2, Zenon
  <2> HIDE DEF new
  <2> QED
    BY <2>3, <2>4, <2>5, Zenon DEF Comes
<1>5. ASSUME NEW q \in Active PROVE told(q) \in Context /\ Notices(q, op)
  <2>1. ctx[q] \in Context /\ ctx[q] # None /\ q \in Requests /\ q # r
    BY <1>1, OpIs DEF Active
  <2>2. ctx'[q] = told(q)
    BY <1>1, <2>1
  <2>3. (ctx[q].disturbed \/ Disturbs(op, ctx[q].op)) \in BOOLEAN
    BY DEF Disturbs
  <2> DEFINE k == IF Kind(q) = "get" THEN ctx[q].knew \ Asked(op) ELSE ctx[q].knew
             x == ctx[q].disturbed \/ Disturbs(op, ctx[q].op)
  <2>4. k \in SUBSET Versions
    BY <2>1 DEF Context
  <2>5. told(q) = [ctx[q] EXCEPT !.knew = k, !.disturbed = x]
    BY <2>1 DEF Context
  <2> HIDE DEF k, x, told
  <2>6. told(q) \in Context
    BY <2>1, <2>3, <2>4, <2>5 DEF Context, x
  <2>7. /\ told(q).op = ctx[q].op /\ told(q).todo = ctx[q].todo /\ told(q).best = ctx[q].best
        /\ told(q).barred = ctx[q].barred
        /\ told(q).knew = k /\ told(q).disturbed = x
    BY <2>1, <2>5 DEF Context
  <2>8. told(q) # None
    BY <2>6, NoneAssumption
  <2> QED
    BY <2>2, <2>6, <2>7, <2>8 DEF Notices, k, x
<1>6. ctx' \in [Requests -> Context \cup {None}]
  BY <1>1, <1>3, <1>5
<1>7. \A q \in Requests \ {r} : pc[q] = "idle" => ctx'[q] = None
  BY <1>1 DEF Active
<1>8. spoiled' \subseteq Dirs
  BY <1>1 DEF CountersOK, Spoils
<1>9. \A a \in Active : Spoils(ctx[a].op, op) \subseteq spoiled' /\ Spoils(op, ctx[a].op) \subseteq spoiled'
  <2> DEFINE S(a) == Spoils(ctx[a].op, op) \cup Spoils(op, ctx[a].op)
  <2>1. spoiled' = spoiled \cup UNION {S(a) : a \in Active}
    BY <1>1
  <2> HIDE DEF S
  <2>2. \A a \in Active : S(a) \subseteq spoiled'
    BY <2>1
  <2> QED
    BY <2>2 DEF S
<1>10. stamp' \in 0..MaxStamp /\ stamp <= stamp'
  <2>1. stamp \in 0..MaxStamp /\ MaxStamp \in Nat
    BY VaultAssumption DEF CountersOK
  <2>2. op.path \in Versions => Last(op.path) \in 1..MaxStamp
    BY VersionPaths
  <2> QED
    BY <1>2, <2>1, <2>2
<1> QED
  BY <1>1, <1>2, <1>4, <1>5, <1>6, <1>7, <1>8, <1>9, <1>10

LEMMA SubmitType ==
    ASSUME TypeInv, NEW r \in Requests, NEW op \in Operations, Submit(r, op)
    PROVE  TypeInv'
<1>1. TreeOK /\ HeldOK /\ LocalsOK /\ CountersOK
  BY TypeInvIs
<1>2. /\ pc[r] = "idle" /\ r \notin Active
      /\ pc' = [pc EXCEPT ![r] = FirstStep(op)]
      /\ ctx' \in [Requests -> Context \cup {None}]
      /\ Comes(r, op)
      /\ \A q \in Active : Notices(q, op)
      /\ \A q \in Requests \ {r} : pc[q] = "idle" => ctx'[q] = None
      /\ UNCHANGED <<tree, crashed, gone>>
      /\ stored' = stored \ Asked(op)
      /\ spoiled' \subseteq Dirs
      /\ stamp' \in 0..MaxStamp
  BY <1>1, SubmitIs
<1>3. /\ FirstStep(op) \in {"absent", "present", "find", "list"}
      /\ FirstStep(op) \in Steps /\ pc' \in [Requests -> Steps]
  BY <1>1, <1>2, FirstStepIs DEF LocalsOK
<1>4. pc'[r] = FirstStep(op) /\ \A q \in Requests \ {r} : pc'[q] = pc[q]
  BY <1>1, <1>2 DEF LocalsOK
<1>5. LocalsOf(r)' /\ (pc'[r] = "idle" <=> ctx'[r] = None)
  <2>1. Path(r)' = op.path /\ Kind(r)' = op.kind
    BY <1>2 DEF Comes, Path, Kind
  <2>2. CASE op.kind = "create"
    BY <1>2, <1>4, <2>1, <2>2, FirstStepIs DEF LocalsOf, Comes
  <2>3. CASE op.kind \in {"update", "remove"}
    BY <1>2, <1>4, <2>1, <2>3, FirstStepIs DEF LocalsOf, Comes
  <2>4. CASE op.kind = "get"
    BY <1>2, <1>4, <2>1, <2>4, FirstStepIs DEF LocalsOf, Comes
  <2> QED
    BY <2>2, <2>3, <2>4, FirstStepIs
<1>6. ASSUME NEW q \in Requests \ {r} PROVE LocalsOf(q)' /\ (pc'[q] = "idle" <=> ctx'[q] = None)
  <2>1. LocalsOf(q) /\ pc'[q] = pc[q]
    BY <1>1, <1>4 DEF LocalsOK
  <2>2. CASE q \in Active
    <3>1. ctx'[q].op = ctx[q].op /\ ctx'[q].todo = ctx[q].todo /\ ctx'[q] # None
      BY <1>2, <2>2 DEF Notices
    <3> QED
      BY <2>1, <2>2, <3>1 DEF LocalsOf, Kind, Path, Active
  <2>3. CASE q \notin Active
    BY <1>2, <2>1, <2>3 DEF LocalsOf, Active
  <2> QED
    BY <2>2, <2>3
<1>7. LocalsOK'
  BY <1>2, <1>3, <1>5, <1>6 DEF LocalsOK
<1>8. CountersOK'
  BY <1>1, <1>2 DEF CountersOK
<1>9. TreeOK'
  BY <1>1, <1>2 DEF TreeOK, Exists
<1>10. HeldOK'
  <2> SUFFICES ASSUME NEW p \in Paths, Held(p)'
               PROVE  (pc[tree[p].writer] = "write" /\ FileOf(tree[p].writer) = p)'
    BY DEF HeldOK
  <2>1. tree' = tree /\ Held(p)
    BY <1>2 DEF Held, Exists
  <2>2. PICK w \in Requests : w = tree[p].writer /\ pc[w] = "write" /\ FileOf(w) = p
    BY <1>1, <2>1 DEF TreeOK, HeldOK, Held, Exists, Node
  <2>3. w \in Active /\ w # r /\ pc'[w] = pc[w]
    BY <1>2, <1>4, <2>2 DEF Active
  <2>4. ctx'[w].op = ctx[w].op
    BY <1>2, <2>3 DEF Notices
  <2>5. FileOf(w)' = p
    BY <2>2, <2>4 DEF FileOf, Path
  <2> QED
    BY <2>1, <2>2, <2>3, <2>5
<1> QED
  BY <1>7, <1>8, <1>9, <1>10, TypeInvIsNext

LEMMA CrashIs ==
    ASSUME TreeOK, Crash
    PROVE  /\ crashed' = TRUE
           /\ pc' = [r \in Requests |-> "idle"] /\ ctx' = [r \in Requests |-> None]
           /\ spoiled' = spoiled \cup {d \in Dirs : ~Quiet(d)}
           /\ UNCHANGED <<stamp, stored, gone>>
           /\ tree' \in [Paths -> Node \cup {None}]
           /\ \A p \in Paths : /\ Exists(p)' <=> Exists(p)
                               /\ Exists(p) => tree'[p].text = tree[p].text /\ ~Held(p)'
<1>1. /\ crashed' = TRUE
      /\ pc' = [r \in Requests |-> "idle"] /\ ctx' = [r \in Requests |-> None]
      /\ spoiled' = spoiled \cup {d \in Dirs : ~Quiet(d)}
      /\ UNCHANGED <<stamp, stored, gone>>
      /\ tree' = [p \in Paths |-> IF Exists(p) THEN [tree[p] EXCEPT !.writer = None] ELSE None]
  BY DEF Crash
<1>2. ASSUME NEW p \in Paths, Exists(p)
      PROVE  /\ tree'[p] \in Node /\ tree'[p] # None
             /\ tree'[p].text = tree[p].text /\ tree'[p].writer = None
  <2>1. tree[p] \in Node
    BY <1>2 DEF TreeOK, Exists
  <2>2. tree'[p] = [tree[p] EXCEPT !.writer = None]
    BY <1>1, <1>2
  <2>3. tree'[p] \in Node /\ tree'[p].text = tree[p].text /\ tree'[p].writer = None
    BY <2>1, <2>2 DEF Node
  <2> QED
    BY <2>3, NoneAssumption
<1>3. \A p \in Paths : ~Exists(p) => tree'[p] = None
  BY <1>1
<1>4. tree' \in [Paths -> Node \cup {None}]
  BY <1>1, <1>2, <1>3
<1> QED
  BY <1>1, <1>2, <1>3, <1>4 DEF Exists, Held

LEMMA CrashType == ASSUME TypeInv, Crash PROVE TypeInv'
<1>1. TreeOK /\ HeldOK /\ LocalsOK /\ CountersOK
  BY TypeInvIs
<1>2. /\ crashed' = TRUE
      /\ pc' = [r \in Requests |-> "idle"] /\ ctx' = [r \in Requests |-> None]
      /\ spoiled' = spoiled \cup {d \in Dirs : ~Quiet(d)}
      /\ UNCHANGED <<stamp, stored, gone>>
      /\ tree' \in [Paths -> Node \cup {None}]
      /\ \A p \in Paths : /\ Exists(p)' <=> Exists(p)
                          /\ Exists(p) => tree'[p].text = tree[p].text /\ ~Held(p)'
  BY <1>1, CrashIs
<1>3. LocalsOK'
  BY <1>2 DEF LocalsOK, LocalsOf, Steps
<1>4. CountersOK'
  BY <1>1, <1>2 DEF CountersOK
<1>5. HeldOK'
  BY <1>2 DEF HeldOK, Held, Exists
<1>6. TreeOK'
  <2>1. \A p \in Paths : p \notin LockerDirs => Front(p) \in Paths
    BY Parents DEF Paths
  <2> QED
    BY <1>1, <1>2, <2>1 DEF TreeOK
<1> QED
  BY <1>3, <1>4, <1>5, <1>6, TypeInvIsNext

LEMMA TypeInit == Init => TypeInv
<1> SUFFICES ASSUME Init PROVE TypeInv
  OBVIOUS
<1>1. TreeOK /\ HeldOK
  BY DEF Init, TreeOK, HeldOK, Held, Exists
<1>2. LocalsOK
  BY DEF Init, LocalsOK, LocalsOf, Steps
<1>3. CountersOK
  <2>1. stamp = 0 /\ crashed = FALSE /\ stored = {} /\ gone = {} /\ spoiled = {}
    BY DEF Init
  <2>2. 0 \in 0..MaxStamp
    BY VaultAssumption
  <2> QED
    BY <2>1, <2>2 DEF CountersOK
<1> QED
  BY <1>1, <1>2, <1>3, TypeInvIs

LEMMA TypeStep == TypeInv /\ [Next]_vars => TypeInv'
<1> SUFFICES ASSUME TypeInv, [Next]_vars PROVE TypeInv'
  OBVIOUS
<1>1. CASE Crash
  BY <1>1, CrashType
<1>2. CASE \E r \in Requests : Step(r)
  BY <1>2, AbsentType, MkDirType, OpenFileType, WriteFileType, PresentType, DeleteFileType,
     SweepType, RmDirType, ReadingType DEF Step
<1>3. CASE \E r \in Requests : \E op \in Operations : Submit(r, op)
  BY <1>3, SubmitType
<1>4. CASE UNCHANGED vars
  <2>1. TreeOK /\ HeldOK /\ LocalsOK /\ CountersOK
    BY TypeInvIs
  <2>2. TreeOK' /\ HeldOK'
    BY <1>4, <2>1 DEF vars, TreeOK, HeldOK, Held, Exists, FileOf, Path
  <2>3. LocalsOK'
    BY <1>4, <2>1 DEF vars, LocalsOK, LocalsOf, Kind, Path
  <2>4. CountersOK'
    BY <1>4, <2>1 DEF vars, history, CountersOK
  <2> QED
    BY <2>2, <2>3, <2>4, TypeInvIsNext
<1> QED
  BY <1>1, <1>2, <1>3, <1>4 DEF Next

LEMMA TypeAlways == Spec => []TypeInv
BY TypeInit, TypeStep, PTL DEF Spec

\* Every path of the tree is in a directory that is there, and is a directory or a
\* file as its name says; a file that is open is written by the request that
\* opened it; requests have the locals their next step reads.
THEOREM TypeCorrect == Spec => []TypeOK
<1>1. TypeInv => TypeOK
  BY DEF TypeInv
<1> QED
  BY <1>1, TypeAlways, PTL

-----------------------------------------------------------------------------
\* What every step of a request keeps.
LEMMA Moved ==
    ASSUME TypeInv, NEW r \in Requests, Step(r)
    PROVE  /\ UNCHANGED <<stamp, crashed, spoiled>>
           /\ (Moves(r, pc'[r]) /\ pc'[r] # "idle") \/ Ended(r)
           /\ pc[r] # "idle"
<1>1. TreeOK /\ HeldOK /\ LocalsOK /\ CountersOK
  BY TypeInvIs
<1> DEFINE Conclusion == /\ UNCHANGED <<stamp, crashed, spoiled>>
                         /\ (Moves(r, pc'[r]) /\ pc'[r] # "idle") \/ Ended(r)
                         /\ pc[r] # "idle"
<1>2. Absent(r) => Conclusion
  <2> SUFFICES ASSUME Absent(r) PROVE Conclusion
    OBVIOUS
  <2>1. /\ pc[r] = "absent" /\ UNCHANGED Counts
        /\ Ended(r) \/ Moves(r, IF Path(r) \in Dirs THEN "mkdir" ELSE "open")
    BY <1>1, AbsentIs
  <2>2. pc'[r] = (IF Path(r) \in Dirs THEN "mkdir" ELSE "open") \/ Ended(r)
    BY <2>1 DEF Moves
  <2> QED
    BY <2>1, <2>2 DEF Counts, history
<1>3. MkDir(r) => Conclusion
  BY <1>1, MkDirIs DEF Moves, Counts, history
<1>4. OpenFile(r) => Conclusion
  BY <1>1, OpenFileIs DEF Moves, Counts, history
<1>5. WriteFile(r) => Conclusion
  BY <1>1, WriteFileIs
<1>6. Present(r) => Conclusion
  BY <1>1, PresentIs DEF Moves, Counts, history
<1>7. DeleteFile(r) => Conclusion
  BY <1>1, DeleteFileIs DEF Moves
<1>8. Sweep(r) => Conclusion
  BY <1>1, SweepIs DEF Moves, Counts, history
<1>9. RmDir(r) => Conclusion
  BY <1>1, RmDirIs
<1>10. List(r) => Conclusion
  BY <1>1, ListIs DEF Moves, Counts, history
<1>11. Find(r) => Conclusion
  BY <1>1, FindIs DEF Moves, Counts, history
<1>12. Read(r) => Conclusion
  BY <1>1, ReadIs DEF Moves, Counts, history
<1>13. Serve(r) => Conclusion
  BY <1>1, ServeIs DEF Counts, history
<1> QED
  BY <1>2, <1>3, <1>4, <1>5, <1>6, <1>7, <1>8, <1>9, <1>10, <1>11, <1>12, <1>13 DEF Step

\* A request that is there after a step was there before, with the same operation.
LEMMA Stays ==
    ASSUME TypeInv, NEW r \in Requests, Step(r), NEW q \in Requests, pc'[q] # "idle"
    PROVE  /\ pc[q] # "idle"
           /\ ctx'[q].op = ctx[q].op /\ Path(q)' = Path(q) /\ Kind(q)' = Kind(q)
           /\ ctx'[q].knew = ctx[q].knew /\ ctx'[q].barred = ctx[q].barred
           /\ ctx'[q].disturbed = ctx[q].disturbed
           /\ q # r => pc'[q] = pc[q] /\ ctx'[q] = ctx[q]
<1>1. CASE q = r
  <2>1. Moves(r, pc'[r]) /\ pc[r] # "idle"
    BY <1>1, Moved DEF Ended
  <2>2. /\ ctx'[q].op = ctx[q].op /\ ctx'[q].knew = ctx[q].knew
        /\ ctx'[q].barred = ctx[q].barred /\ ctx'[q].disturbed = ctx[q].disturbed
    BY <1>1, <2>1 DEF Moves
  <2> QED
    BY <1>1, <2>1, <2>2 DEF Path, Kind
<1>2. CASE q # r
  <2>1. pc'[q] = pc[q] /\ ctx'[q] = ctx[q]
    BY <1>2, Moved DEF Moves, Ended
  <2> QED
    BY <2>1, <1>2 DEF Path, Kind
<1> QED
  BY <1>1, <1>2

\* A request gets to a step from the one before.
LEMMA Came ==
    ASSUME TypeInv, NEW r \in Requests, Step(r)
    PROVE  /\ pc'[r] # "absent" /\ pc'[r] # "present" /\ pc'[r] # "list" /\ pc'[r] # "find"
           /\ pc'[r] = "mkdir" => Absent(r) /\ Path(r) \in Dirs
           /\ pc'[r] = "open" => \/ Absent(r) /\ Path(r) \notin Dirs
                                 \/ MkDir(r)
                                 \/ DeleteFile(r) /\ Kind(r) = "update"
           /\ pc'[r] = "write" => OpenFile(r)
           /\ pc'[r] = "delete" =>
                 /\ Present(r) /\ ~(Kind(r) = "remove" /\ Path(r) \in Dirs)
                 /\ Exists(IF Kind(r) = "update" THEN FileOf(r) ELSE Path(r))
           /\ pc'[r] = "sweep" => \/ Present(r) /\ Kind(r) = "remove" /\ ctx'[r].todo = Inside(Path(r))
                                  \/ Sweep(r)
           /\ pc'[r] = "read" => List(r) \/ Find(r) \/ Read(r)
<1>1. TreeOK /\ HeldOK /\ LocalsOK /\ CountersOK
  BY TypeInvIs
<1>2. CASE Absent(r)
  <2>1. pc'[r] = "idle" \/ pc'[r] = IF Path(r) \in Dirs THEN "mkdir" ELSE "open"
    BY <1>1, <1>2, AbsentIs DEF Moves, Ended
  <2> QED
    BY <1>2, <2>1
<1>3. CASE MkDir(r)
  BY <1>1, <1>3, MkDirIs DEF Moves
<1>4. CASE OpenFile(r)
  BY <1>1, <1>4, OpenFileIs DEF Moves, Ended
<1>5. CASE Present(r)
  BY <1>1, <1>5, PresentIs DEF Moves, Ended
<1>6. CASE DeleteFile(r)
  BY <1>1, <1>6, DeleteFileIs DEF Moves, Ended
<1>7. CASE Sweep(r)
  BY <1>1, <1>7, SweepIs DEF Moves, Ended
<1>8. CASE List(r) \/ Find(r) \/ Read(r)
  BY <1>1, <1>8, ListIs, FindIs, ReadIs DEF Moves, Ended
<1>9. CASE WriteFile(r) \/ RmDir(r) \/ Serve(r)
  BY <1>1, <1>9, WriteFileIs, RmDirIs, ServeIs DEF Ended
<1> QED
  BY <1>2, <1>3, <1>4, <1>5, <1>6, <1>7, <1>8, <1>9 DEF Step

-----------------------------------------------------------------------------
\* Versions come and go.
LEMMA Appears ==
    ASSUME TypeInv, NEW r \in Requests, Step(r), NEW p \in Paths, p \notin Dirs, ~Exists(p), Exists(p)'
    PROVE  OpenFile(r) /\ pc[r] = "open" /\ pc'[r] = "write" /\ FileOf(r) = p
<1>1. TreeOK /\ HeldOK /\ LocalsOK /\ CountersOK
  BY TypeInvIs
<1>2. tree'[p] # tree[p]
  BY DEF Exists
<1>3. CASE MkDir(r)
  <2>1. Path(r) \in Dirs /\ Path(r) \in Paths
    BY <1>1, <1>3, OpIs DEF LocalsOK, LocalsOf, MkDir
  <2>2. ~IsPrefix(p, Path(r))
    BY <2>1, Order
  <2> QED
    BY <1>1, <1>2, <1>3, <2>2, MkDirIs
<1>4. CASE OpenFile(r)
  <2>1. /\ tree' = [tree EXCEPT ![FileOf(r)] =
                      [text |-> IF Exists(FileOf(r)) THEN tree[FileOf(r)].text ELSE "broken",
                       writer |-> r]]
        /\ Moves(r, "write") /\ pc[r] = "open"
    BY <1>1, <1>2, <1>4, OpenFileIs
  <2> QED
    BY <1>1, <1>2, <1>4, <2>1 DEF TreeOK, Moves
<1>5. CASE WriteFile(r)
  <2>1. Held(FileOf(r)) /\ \E n : tree' = [tree EXCEPT ![FileOf(r)] = n]
    BY <1>1, <1>2, <1>5, WriteFileIs
  <2>2. p = FileOf(r)
    BY <1>1, <1>2, <2>1 DEF TreeOK
  <2> QED
    BY <2>1, <2>2 DEF Held
<1>6. CASE DeleteFile(r) \/ Sweep(r) \/ RmDir(r)
  <2>1. \E f : tree' = tree \/ tree' = [tree EXCEPT ![f] = None]
    BY <1>1, <1>6, DeleteFileIs, SweepIs, RmDirIs
  <2> QED
    BY <1>1, <2>1 DEF TreeOK, Exists
<1>7. CASE Absent(r) \/ Present(r) \/ List(r) \/ Find(r) \/ Read(r) \/ Serve(r)
  BY <1>1, <1>2, <1>7, AbsentIs, PresentIs, ListIs, FindIs, ReadIs, ServeIs
<1> QED
  BY <1>3, <1>4, <1>5, <1>6, <1>7 DEF Step

LEMMA VersionAppears ==
    ASSUME TypeInv, NEW r \in Requests, Step(r), NEW v \in Versions, ~Exists(v), Exists(v)'
    PROVE  pc[r] = "open" /\ pc'[r] = "write" /\ Creates(r, v)
<1>1. TreeOK /\ HeldOK /\ LocalsOK /\ CountersOK
  BY TypeInvIs
<1>2. v \in Paths /\ v \notin Dirs
  BY KindsDiffer DEF Paths
<1>3. pc[r] = "open" /\ pc'[r] = "write" /\ FileOf(r) = v
  BY <1>2, Appears
<1>4. Path(r) = v /\ Path(r) \notin Dirs
  BY <1>1, <1>2, <1>3, FileIs, OpIs
<1>5. Kind(r) = "create"
  BY <1>1, <1>3, <1>4, OpIs DEF LocalsOK, LocalsOf
<1> QED
  BY <1>3, <1>4, <1>5 DEF Creates, Active

LEMMA Vanishes ==
    ASSUME TypeInv, MadeOnce, NEW r \in Requests, Step(r), NEW v \in gone', v \notin gone
    PROVE  Removes(r) /\ v \in Doomed(r) /\ ~Exists(v)'
<1>1. TreeOK /\ HeldOK /\ LocalsOK /\ CountersOK
  BY TypeInvIs
<1>2. CASE DeleteFile(r)
  <2>1. /\ pc[r] = "delete" /\ Kind(r) # "update" /\ v = FileOf(r)
        /\ tree' = [tree EXCEPT ![FileOf(r)] = None]
    BY <1>1, <1>2, DeleteFileIs
  <2>2. Kind(r) = "remove" /\ Path(r) \in Versions
    BY <1>1, <2>1 DEF LocalsOK, LocalsOf
  <2>3. v = Path(r) /\ v \in Paths
    BY <1>1, <2>1, <2>2, FileIs
  <2>4. ~Exists(v)'
    BY <1>1, <2>1, <2>3 DEF TreeOK, Exists
  <2> QED
    BY <2>1, <2>2, <2>3, <2>4 DEF Removes, Doomed, Active
<1>3. CASE RmDir(r)
  <2>1. /\ pc[r] = "sweep" /\ Inside(Path(r)) = {}
        /\ tree' = [tree EXCEPT ![Path(r)] = None] /\ v \in ctx[r].knew
    BY <1>1, <1>3, RmDirIs
  <2>2. Kind(r) = "remove" /\ Path(r) \in Dirs /\ Path(r) \in Paths
    BY <1>1, <2>1 DEF LocalsOK, LocalsOf, Paths
  <2>3. v \in Doomed(r) /\ Removes(r)
    BY <2>1, <2>2 DEF Removes, Doomed, Active
  <2>4. IsPrefix(Path(r), v) /\ v \in Versions /\ v \in Paths /\ v # Path(r)
    <3>1. ctx[r].knew \subseteq Versions
      BY <1>1, <2>1, OpIs DEF Context
    <3> QED
      BY <2>1, <2>2, <2>3, <3>1, KindsDiffer DEF MadeOnce, Paths
  <2>5. ~Exists(v)
    BY <2>1, <2>2, <2>4, InsideIs
  <2>6. ~Exists(v)'
    BY <1>1, <2>1, <2>4, <2>5 DEF TreeOK, Exists
  <2> QED
    BY <2>3, <2>6
<1>4. ~DeleteFile(r) /\ ~RmDir(r) => gone' = gone
  BY <1>1, AbsentIs, MkDirIs, OpenFileIs, WriteFileIs, PresentIs, SweepIs, ListIs, FindIs, ReadIs,
     ServeIs DEF Step, Counts, history
<1> QED
  BY <1>2, <1>3, <1>4

\* What a removal is going to remove, it was going to remove, or it has found.
LEMMA DoomedIs ==
    ASSUME TypeInv, NEW r \in Requests, Step(r), NEW q \in Requests, Removes(q)', NEW v \in Doomed(q)'
    PROVE  /\ Removes(q) /\ Path(q)' = Path(q)
           /\ v \in Doomed(q) \/ (v = Path(q) /\ v \in Versions /\ Exists(v))
<1>1. /\ pc[q] # "idle" /\ Path(q)' = Path(q) /\ Kind(q)' = Kind(q) /\ ctx'[q].knew = ctx[q].knew
      /\ q # r => pc'[q] = pc[q]
  BY Stays DEF Removes, Active
<1>2. Removes(q) /\ Kind(q) = "remove"
  BY <1>1 DEF Removes, Active
<1>3. v \in ctx[q].knew \/ (pc'[q] = "delete" /\ v = Path(q))
  BY <1>1 DEF Doomed
<1>4. CASE pc'[q] = "delete" /\ pc[q] # "delete"
  <2>1. q = r /\ Exists(Path(q)) /\ Path(q) \notin Dirs
    BY <1>1, <1>2, <1>4, Came
  <2>2. Path(q) \in Versions
    BY <1>1, <2>1, OpIs, TypeInvIs
  <2> QED
    BY <1>1, <1>2, <1>3, <2>1, <2>2 DEF Doomed
<1> QED
  BY <1>1, <1>2, <1>3, <1>4 DEF Doomed

LEMMA MadeOnceStep ==
    ASSUME TypeInv, MadeOnce, NEW r \in Requests, Step(r)
    PROVE  MadeOnce'
<1>1. stamp' = stamp /\ gone \subseteq Versions /\ gone' \subseteq Versions
  BY Moved, TypeStep DEF TypeInv, TypeOK, Next
<1>2. ASSUME NEW v \in Versions, Exists(v)' PROVE Last(v) <= stamp'
  BY <1>1, <1>2, VersionAppears DEF MadeOnce
<1>3. ASSUME NEW v \in gone' PROVE ~Exists(v)' /\ Last(v) <= stamp'
  <2>1. CASE v \in gone
    <3>1. v \in Versions /\ ~Exists(v) /\ Last(v) <= stamp
      BY <1>1, <2>1 DEF MadeOnce
    <3>2. ~(pc[r] = "open" /\ Creates(r, v))
      BY <2>1, <3>1 DEF MadeOnce
    <3> QED
      BY <1>1, <3>1, <3>2, VersionAppears
  <2>2. CASE v \notin gone
    BY <1>1, <2>2, Vanishes DEF MadeOnce
  <2> QED
    BY <2>1, <2>2
<1>4. ASSUME NEW q \in Requests, NEW v \in Versions, Creates(q, v)'
      PROVE  Creates(q, v) /\ (q # r => pc'[q] = pc[q]) /\ (pc'[q] \in {"absent", "open"} => pc[q] \in {"absent", "open"})
  <2>1. /\ pc[q] # "idle" /\ Path(q)' = Path(q) /\ Kind(q)' = Kind(q)
        /\ q # r => pc'[q] = pc[q]
    BY <1>4, Stays DEF Creates, Active
  <2>2. Creates(q, v)
    BY <1>4, <2>1 DEF Creates, Active
  <2>3. ASSUME q = r, pc'[q] \in {"absent", "open"} PROVE pc[q] = "absent"
    <3>1. Kind(r) = "create" /\ Path(r) \notin Dirs
      BY <2>2, <2>3, KindsDiffer DEF Creates
    <3>2. Absent(r) \/ MkDir(r)
      BY <2>3, <3>1, Came
    <3>3. ~MkDir(r)
      BY <3>1 DEF MkDir, TypeInv, LocalsOf
    <3> QED
      BY <2>3, <3>2, <3>3 DEF Absent
  <2> QED
    BY <2>1, <2>2, <2>3
<1>5. ASSUME NEW q \in Requests, NEW v \in Versions, Creates(q, v)', pc'[q] \in {"absent", "open"}
      PROVE  ~Exists(v)' /\ v \notin gone' /\ \A p \in Requests : Removes(p)' => v \notin Doomed(p)'
  <2>1. Creates(q, v) /\ pc[q] \in {"absent", "open"}
    BY <1>4, <1>5
  <2>2. /\ ~Exists(v) /\ v \notin gone
        /\ \A p \in Requests : Removes(p) => v \notin Doomed(p)
        /\ \A p \in Requests : Creates(p, v) => p = q
    BY <2>1 DEF MadeOnce
  <2>3. ~Exists(v)'
    BY <1>5, <2>2, VersionAppears
  <2>4. v \notin gone'
    BY <2>2, Vanishes
  <2>5. \A p \in Requests : Removes(p)' => v \notin Doomed(p)'
    BY <2>2, DoomedIs
  <2> QED
    BY <2>3, <2>4, <2>5
<1>6. ASSUME NEW q \in Requests, Removes(q)', NEW v \in Doomed(q)'
      PROVE  IsPrefix(Path(q)', v) /\ Last(v) <= stamp'
  <2>1. /\ Removes(q) /\ Path(q)' = Path(q)
        /\ v \in Doomed(q) \/ (v = Path(q) /\ v \in Versions /\ Exists(v))
    BY <1>6, DoomedIs
  <2>2. v \in Versions => IsPrefix(v, v)
    BY Order DEF Paths
  <2> QED
    BY <1>1, <2>1, <2>2 DEF MadeOnce
<1>7. ASSUME NEW q \in Requests, NEW v \in Versions, Creates(q, v)'
      PROVE  Last(v) <= stamp' /\ \A p \in Requests : Creates(p, v)' => p = q
  BY <1>1, <1>4, <1>7 DEF MadeOnce
<1> QED
  BY <1>2, <1>3, <1>5, <1>6, <1>7 DEF MadeOnce

\* A request is there after another comes if it was before, or it is the one that came.
LEMMA Attends ==
    ASSUME TypeInv, NEW r \in Requests, NEW op \in Operations, Submit(r, op),
           NEW q \in Requests, pc'[q] # "idle"
    PROVE  \/ /\ q = r /\ pc'[q] = FirstStep(op) /\ Comes(q, op)
              /\ Path(q)' = op.path /\ Kind(q)' = op.kind
           \/ /\ q # r /\ pc[q] # "idle" /\ pc'[q] = pc[q] /\ Notices(q, op) /\ ctx'[q].op = ctx[q].op
              /\ Path(q)' = Path(q) /\ Kind(q)' = Kind(q)
<1>1. TreeOK /\ HeldOK /\ LocalsOK /\ CountersOK
  BY TypeInvIs
<1>2. /\ pc' = [pc EXCEPT ![r] = FirstStep(op)] /\ Comes(r, op) /\ pc[r] = "idle"
      /\ \A p \in Active : Notices(p, op)
  BY <1>1, SubmitIs
<1>3. CASE q = r
  BY <1>1, <1>2, <1>3 DEF LocalsOK, Comes, Path, Kind
<1>4. CASE q # r
  <2>1. pc'[q] = pc[q] /\ q \in Active
    BY <1>1, <1>2, <1>4 DEF LocalsOK, Active
  <2>2. Notices(q, op) /\ ctx'[q].op = ctx[q].op
    BY <1>2, <2>1 DEF Notices
  <2> QED
    BY <1>4, <2>1, <2>2 DEF Active, Path, Kind
<1> QED
  BY <1>3, <1>4

LEMMA MadeOnceSubmit ==
    ASSUME TypeInv, MadeOnce, NEW r \in Requests, NEW op \in Operations, Submit(r, op)
    PROVE  MadeOnce'
<1>1. TreeOK /\ HeldOK /\ LocalsOK /\ CountersOK
  BY TypeInvIs
<1>2. /\ UNCHANGED <<tree, gone>>
      /\ stamp \in Int /\ stamp' \in Int /\ stamp <= stamp'
      /\ op.kind = "create" /\ op.path \in Versions => Last(op.path) = stamp + 1 /\ stamp' = stamp + 1
      /\ gone \subseteq Versions
      /\ \A v \in Versions : Last(v) \in Int
  <2>1. \A v \in Versions : Last(v) \in Int
    BY LastIs
  <2>2. /\ UNCHANGED <<tree, gone>> /\ stamp' \in 0..MaxStamp /\ stamp <= stamp'
        /\ op.kind = "create" /\ op.path \in Versions => Last(op.path) = stamp + 1 /\ stamp' = stamp + 1
    BY <1>1, SubmitIs
  <2> QED
    BY <1>1, <2>1, <2>2, VaultAssumption DEF CountersOK
<1>3. \A v \in Versions : Exists(v)' <=> Exists(v)
  BY <1>2 DEF Exists
<1>4. ASSUME NEW v \in Versions, Exists(v)' PROVE Last(v) <= stamp'
  BY <1>2, <1>3, <1>4 DEF MadeOnce
<1>5. ASSUME NEW v \in gone' PROVE ~Exists(v)' /\ Last(v) <= stamp'
  BY <1>2, <1>3 DEF MadeOnce
<1>6. ASSUME NEW q \in Requests, NEW v \in Versions, Creates(q, v)'
      PROVE  \/ q = r /\ Last(v) = stamp + 1 /\ Last(v) <= stamp'
             \/ q # r /\ Creates(q, v) /\ pc'[q] = pc[q] /\ Last(v) <= stamp
  <2>1. pc'[q] # "idle" /\ Kind(q)' = "create" /\ Path(q)' = v
    BY <1>6 DEF Creates, Active
  <2>2. CASE q = r
    <3>1. op.kind = "create" /\ op.path = v
      BY <2>1, <2>2, Attends
    <3> QED
      BY <1>2, <2>2, <3>1
  <2>3. CASE q # r
    <3>1. Creates(q, v) /\ pc'[q] = pc[q]
      BY <2>1, <2>3, Attends DEF Creates, Active
    <3> QED
      BY <2>3, <3>1 DEF MadeOnce
  <2> QED
    BY <2>2, <2>3
<1>7. ASSUME NEW q \in Requests, Removes(q)', NEW v \in Doomed(q)'
      PROVE  \/ q = r /\ v \in Versions /\ Exists(v) /\ IsPrefix(Path(q)', v)
             \/ q # r /\ Removes(q) /\ v \in Doomed(q) /\ Path(q)' = Path(q)
  <2>1. pc'[q] # "idle" /\ Kind(q)' = "remove"
    BY <1>7 DEF Removes, Active
  <2>2. CASE q = r
    <3>1. Comes(q, op) /\ op.kind = "remove" /\ Path(q)' = op.path /\ pc'[q] = FirstStep(op)
      BY <2>1, <2>2, Attends
    <3>2. pc'[q] # "delete" /\ ctx'[q].knew = {u \in Asked(op) : Exists(u)}
      BY <3>1, FirstStepIs DEF Comes
    <3>3. v \in Versions /\ IsPrefix(op.path, v) /\ Exists(v)
      BY <3>1, <3>2 DEF Doomed, Asked
    <3> QED
      BY <2>2, <3>1, <3>3
  <2>3. CASE q # r
    <3>1. /\ pc[q] # "idle" /\ pc'[q] = pc[q] /\ Notices(q, op)
          /\ Path(q)' = Path(q) /\ Kind(q)' = Kind(q)
      BY <2>1, <2>3, Attends
    <3>2. ctx'[q].knew = ctx[q].knew
      BY <2>1, <3>1 DEF Notices
    <3> QED
      BY <1>7, <2>1, <2>3, <3>1, <3>2 DEF Removes, Doomed, Active
  <2> QED
    BY <2>2, <2>3
<1>8. ASSUME NEW q \in Requests, NEW v \in Versions, Creates(q, v)'
      PROVE  /\ Last(v) <= stamp'
             /\ \A p \in Requests : Creates(p, v)' => p = q
  <2>1. Last(v) <= stamp'
    BY <1>2, <1>6, <1>8
  <2>2. \A p \in Requests : Creates(p, v)' => p = q
    BY <1>2, <1>6, <1>8 DEF MadeOnce
  <2> QED
    BY <2>1, <2>2
<1>9. ASSUME NEW q \in Requests, NEW v \in Versions, Creates(q, v)', pc'[q] \in {"absent", "open"}
      PROVE  ~Exists(v)' /\ v \notin gone' /\ \A p \in Requests : Removes(p)' => v \notin Doomed(p)'
  <2>1. /\ ~Exists(v) /\ v \notin gone
        /\ \A p \in Requests : Removes(p) => v \notin Doomed(p)
    <3>1. CASE Last(v) = stamp + 1
      BY <1>2, <3>1 DEF MadeOnce
    <3>2. CASE Creates(q, v) /\ pc'[q] = pc[q]
      BY <1>9, <3>2 DEF MadeOnce
    <3> QED
      BY <1>6, <1>9, <3>1, <3>2
  <2>2. ASSUME NEW p \in Requests, Removes(p)', v \in Doomed(p)' PROVE FALSE
    BY <1>7, <2>1, <2>2
  <2> QED
    BY <1>2, <1>3, <2>1, <2>2
<1>10. ASSUME NEW q \in Requests, Removes(q)', NEW v \in Doomed(q)'
       PROVE  IsPrefix(Path(q)', v) /\ Last(v) <= stamp'
  <2>1. \A u \in Versions : Exists(u) => Last(u) <= stamp'
    BY <1>3, <1>4
  <2>2. CASE q # r /\ Removes(q) /\ v \in Doomed(q) /\ Path(q)' = Path(q)
    <3>1. IsPrefix(Path(q), v) /\ v \in Versions
      <4>1. ctx[q].knew \subseteq Versions
        BY <1>1, <2>2, OpIs DEF Removes, Active, Context
      <4>2. pc[q] = "delete" => Path(q) \in Versions
        BY <1>1, <2>2 DEF LocalsOK, LocalsOf, Removes
      <4> QED
        BY <2>2, <4>1, <4>2 DEF MadeOnce, Doomed
    <3>2. Last(v) <= stamp
      BY <2>2 DEF MadeOnce
    <3> QED
      BY <1>2, <2>2, <3>1, <3>2
  <2> QED
    BY <1>7, <1>10, <2>1, <2>2
<1> QED
  BY <1>4, <1>5, <1>8, <1>9, <1>10 DEF MadeOnce

\* After a stop nobody is there.
LEMMA Stopped ==
    ASSUME TypeInv, Crash, NEW q \in Requests
    PROVE  pc'[q] = "idle" /\ ~Removes(q)' /\ \A v : ~Creates(q, v)'
<1>1. pc'[q] = "idle"
  BY DEF Crash
<1> QED
  BY <1>1 DEF Removes, Creates, Active

LEMMA MadeOnceNext == TypeInv /\ MadeOnce /\ [Next]_vars => MadeOnce'
<1> SUFFICES ASSUME TypeInv, MadeOnce, [Next]_vars PROVE MadeOnce'
  OBVIOUS
<1>1. CASE Crash
  <2>1. /\ UNCHANGED <<stamp, gone>>
        /\ \A p \in Paths : Exists(p)' <=> Exists(p)
        /\ gone \subseteq Paths /\ Versions \subseteq Paths
    BY <1>1, CrashIs, TypeInvIs DEF CountersOK, Paths
  <2> QED
    BY <1>1, <2>1, Stopped DEF MadeOnce
<1>2. CASE \E r \in Requests : Step(r)
  BY <1>2, MadeOnceStep
<1>3. CASE \E r \in Requests : \E op \in Operations : Submit(r, op)
  BY <1>3, MadeOnceSubmit
<1>4. CASE UNCHANGED vars
  BY <1>4 DEF vars, history, MadeOnce, Exists, Creates, Removes, Doomed, Active, Kind, Path
<1> QED
  BY <1>1, <1>2, <1>3, <1>4 DEF Next

LEMMA MadeOnceInit == Init => MadeOnce
<1> SUFFICES ASSUME Init PROVE MadeOnce
  OBVIOUS
<1>1. /\ \A v \in Versions : ~Exists(v)
      /\ gone = {}
  BY DEF Init, Exists, Paths
<1>2. \A q \in Requests : ~Removes(q) /\ \A v : ~Creates(q, v)
  BY DEF Init, Removes, Creates, Active
<1> QED
  BY <1>1, <1>2 DEF MadeOnce

-----------------------------------------------------------------------------
\* What a request has found newest was not gone when it came.
LEMMA FoundKeptStep ==
    ASSUME TypeInv, MadeOnce, NEW r \in Requests, Step(r), NEW q \in Requests, FoundKept(q)
    PROVE  FoundKept(q)'
<1>1. TreeOK /\ HeldOK /\ LocalsOK /\ CountersOK
  BY TypeInvIs
<1> SUFFICES ASSUME (q \in Active /\ Kind(q) = "get")'
             PROVE  (/\ ctx[q].barred \subseteq gone
                     /\ pc[q] \in {"list", "find"} => ctx[q].best = 0
                     /\ Path(q) \in Versions => ctx[q].best \in {0, Last(Path(q))}
                     /\ ctx[q].best # 0 => Best(q) \notin ctx[q].barred)'
  BY DEF FoundKept
<1>2. /\ pc[q] # "idle" /\ Kind(q) = "get" /\ Path(q)' = Path(q) /\ ctx'[q].barred = ctx[q].barred
      /\ q # r => pc'[q] = pc[q] /\ ctx'[q] = ctx[q]
  BY Stays DEF Active
<1>3. /\ ctx[q].barred \subseteq gone
      /\ pc[q] \in {"list", "find"} => ctx[q].best = 0
      /\ Path(q) \in Versions => ctx[q].best \in {0, Last(Path(q))}
      /\ ctx[q].best # 0 => Best(q) \notin ctx[q].barred
  BY <1>2 DEF FoundKept, Active
<1>4. gone \subseteq gone'
  BY <1>1, AbsentIs, MkDirIs, OpenFileIs, WriteFileIs, PresentIs, DeleteFileIs, SweepIs, RmDirIs,
     ListIs, FindIs, ReadIs, ServeIs DEF Step, Counts, history
<1>5. ASSUME ctx'[q].best = ctx[q].best, q = r => pc'[q] \notin {"list", "find"}
      PROVE  (/\ ctx[q].barred \subseteq gone
              /\ pc[q] \in {"list", "find"} => ctx[q].best = 0
              /\ Path(q) \in Versions => ctx[q].best \in {0, Last(Path(q))}
              /\ ctx[q].best # 0 => Best(q) \notin ctx[q].barred)'
  BY <1>2, <1>3, <1>4, <1>5 DEF Best
<1>6. CASE q # r
  BY <1>2, <1>5, <1>6
<1>7. q = r => List(r) \/ Find(r) \/ Read(r)
  <2> SUFFICES ASSUME q = r PROVE List(r) \/ Find(r) \/ Read(r)
    OBVIOUS
  <2>1. LocalsOK'
    BY TypeStep, TypeInvIsNext DEF Next
  <2>2. pc'[r] \in Steps /\ pc'[r] # "idle" /\ LocalsOf(r)' /\ Kind(r)' = "get"
    BY <2>1 DEF LocalsOK, Active
  <2>3. pc'[r] \in {"list", "find", "read"}
    BY <2>2 DEF LocalsOf, Steps
  <2> QED
    BY <2>3, Came
<1>8. CASE q = r /\ (List(r) \/ Find(r))
  <2>1. ctx'[r].best = ctx[r].best /\ pc'[r] = "read"
    BY <1>1, <1>2, <1>8, ListIs, FindIs DEF Ended, Moves, Active
  <2> QED
    BY <1>5, <1>8, <2>1
<1>9. CASE q = r /\ Read(r)
  <2>1. pc[r] = "read" /\ pc'[r] # "idle"
    BY <1>1, <1>9, ReadIs DEF Active
  <2>2. PICK v \in ctx[r].todo :
          /\ Moves(r, "read") /\ Readable(v)
          /\ ctx'[r].best = Newest(ctx[r].best, v)
    BY <1>1, <1>9, <2>1, ReadIs DEF Ended
  <2>3. /\ v \in Versions /\ v \in Paths /\ IsPrefix(Path(r), v) /\ Exists(v)
        /\ Path(r) \in Paths /\ Path(r) \in SecretDirs \cup Versions
        /\ ctx[r].best \in 0..MaxStamp
    BY <1>1, <1>2, <1>9, <2>1, <2>2, OpIs DEF LocalsOK, LocalsOf, Readable, Paths, Context
  <2>4. ctx'[r].best \in {ctx[r].best, Last(v)}
    BY <2>2, <2>3, NewestIs
  <2>5. pc'[r] = "read"
    BY <2>2 DEF Moves
  <2>6. CASE ctx'[r].best = Last(v)
    <3>1. SubSeq(Path(r), 1, 2) = Front(v) /\ (Path(r) \in Versions => Path(r) = v)
      <4>1. CASE Path(r) \in SecretDirs
        <5>1. Path(r) \notin Versions /\ SubSeq(Path(r), 1, 2) = Path(r) /\ Front(v) = Path(r)
          BY <2>3, <4>1, VersionPaths, SecretPaths, KindsDiffer DEF Dirs
        <5> QED
          BY <5>1
      <4>2. CASE Path(r) \in Versions
        <5>1. Path(r) = v
          BY <2>3, <4>2, Order, KindsDiffer
        <5> QED
          BY <2>3, <5>1, VersionPaths
      <4> QED
        BY <2>3, <4>1, <4>2
    <3>2. Best(r)' = Front(v) \o <<Last(v)>>
      BY <1>2, <1>9, <2>6, <3>1 DEF Best
    <3>3. Best(r)' = v
      BY <2>3, <3>2, VersionPaths
    <3>4. v \notin gone
      BY <2>3 DEF MadeOnce
    <3> QED
      BY <1>2, <1>3, <1>4, <1>9, <2>5, <2>6, <3>1, <3>3, <3>4
  <2> QED
    BY <1>5, <1>9, <2>4, <2>5, <2>6
<1> QED
  BY <1>6, <1>7, <1>8, <1>9

LEMMA FoundKeptSubmit ==
    ASSUME TypeInv, NEW r \in Requests, NEW op \in Operations, Submit(r, op),
           NEW q \in Requests, FoundKept(q)
    PROVE  FoundKept(q)'
<1>1. gone' = gone
  BY DEF Submit
<1> SUFFICES ASSUME (q \in Active /\ Kind(q) = "get")'
             PROVE  (/\ ctx[q].barred \subseteq gone
                     /\ pc[q] \in {"list", "find"} => ctx[q].best = 0
                     /\ Path(q) \in Versions => ctx[q].best \in {0, Last(Path(q))}
                     /\ ctx[q].best # 0 => Best(q) \notin ctx[q].barred)'
  BY DEF FoundKept
<1>2. CASE q = r
  <2>1. Comes(q, op) /\ Kind(q)' = op.kind
    BY <1>2, Attends DEF Active
  <2>2. ctx'[q].best = 0 /\ ctx'[q].barred = gone
    BY <2>1 DEF Comes
  <2> QED
    BY <1>1, <2>2
<1>3. CASE q # r
  <2>1. /\ pc[q] # "idle" /\ pc'[q] = pc[q] /\ Notices(q, op)
        /\ Path(q)' = Path(q) /\ Kind(q)' = Kind(q)
    BY <1>3, Attends DEF Active
  <2>2. ctx'[q].best = ctx[q].best /\ ctx'[q].barred = ctx[q].barred
    BY <2>1 DEF Notices
  <2>3. Best(q)' = Best(q)
    BY <2>1, <2>2 DEF Best
  <2> QED
    BY <1>1, <2>1, <2>2, <2>3 DEF FoundKept, Active
<1> QED
  BY <1>2, <1>3

LEMMA RemovedNext == RemovedInv /\ [Next]_vars => RemovedInv'
<1> SUFFICES ASSUME RemovedInv, [Next]_vars PROVE RemovedInv'
  OBVIOUS
<1>1. TypeInv /\ MadeOnce /\ \A q \in Requests : FoundKept(q)
  BY DEF RemovedInv
<1>2. TypeInv' /\ MadeOnce'
  BY <1>1, TypeStep, MadeOnceNext
<1>3. ASSUME NEW q \in Requests PROVE FoundKept(q)'
  <2>1. CASE Crash
    BY <1>1, <2>1, Stopped DEF FoundKept, Active
  <2>2. CASE \E r \in Requests : Step(r)
    BY <1>1, <2>2, FoundKeptStep
  <2>3. CASE \E r \in Requests : \E op \in Operations : Submit(r, op)
    BY <1>1, <2>3, FoundKeptSubmit
  <2>4. CASE UNCHANGED vars
    <3>1. FoundKept(q)
      BY <1>1
    <3> QED
      BY <2>4, <3>1 DEF vars, history, FoundKept, Active, Kind, Path, Best
  <2> QED
    BY <2>1, <2>2, <2>3, <2>4 DEF Next
<1> QED
  BY <1>2, <1>3 DEF RemovedInv

LEMMA RemovedInit == Init => RemovedInv
<1> SUFFICES ASSUME Init PROVE RemovedInv
  OBVIOUS
<1>1. \A q \in Requests : FoundKept(q)
  BY DEF Init, FoundKept, Active
<1> QED
  BY <1>1, TypeInit, MadeOnceInit DEF RemovedInv

\* GetSecretVersion does not serve a version whose removal was acknowledged before
\* it was called, whichever requests run with it and wherever the process stops:
\* a file that was deleted is not made again under the same name, as the version
\* is named by the clock.
THEOREM RemovedVersionsAreNotServed == Spec => []RemovedIsNotServed
<1>1. RemovedInv => RemovedIsNotServed
  <2> SUFFICES ASSUME RemovedInv, NEW r \in Requests, Answers(r), ctx[r].best # 0
               PROVE  SubSeq(Path(r), 1, 2) \o <<ctx[r].best>> \notin ctx[r].barred
    BY DEF RemovedIsNotServed
  <2>1. r \in Active /\ Kind(r) = "get" /\ FoundKept(r)
    BY DEF RemovedInv, TypeInv, LocalsOf, Answers, Active
  <2> QED
    BY <2>1 DEF FoundKept, Best
<1> QED
  BY <1>1, RemovedInit, RemovedNext, PTL DEF Spec

-----------------------------------------------------------------------------
\* Overlapping requests know of each other.
LEMMA AwareStep ==
    ASSUME TypeInv, Aware, NEW r \in Requests, Step(r)
    PROVE  Aware'
<1>1. spoiled' = spoiled
  BY Moved
<1>2. ASSUME NEW q \in Requests, pc'[q] # "idle"
      PROVE  q \in Active /\ ctx'[q].op = ctx[q].op /\ ctx'[q].disturbed = ctx[q].disturbed
  BY <1>2, Stays DEF Active
<1> SUFFICES ASSUME NEW q \in Active', NEW p \in Active', q # p
             PROVE  /\ Spoils(ctx'[q].op, ctx'[p].op) \subseteq spoiled'
                    /\ Disturbs(ctx'[q].op, ctx'[p].op) => ctx'[p].disturbed
  BY DEF Aware
<1>3. /\ q \in Active /\ ctx'[q].op = ctx[q].op
      /\ p \in Active /\ ctx'[p].op = ctx[p].op /\ ctx'[p].disturbed = ctx[p].disturbed
  BY <1>2 DEF Active
<1>4. /\ Spoils(ctx[q].op, ctx[p].op) \subseteq spoiled
      /\ Disturbs(ctx[q].op, ctx[p].op) => ctx[p].disturbed
  BY <1>3 DEF Aware
<1> QED
  BY <1>1, <1>3, <1>4

LEMMA AwareSubmit ==
    ASSUME TypeInv, Aware, NEW r \in Requests, NEW op \in Operations, Submit(r, op)
    PROVE  Aware'
<1>1. /\ spoiled \subseteq spoiled'
      /\ \A a \in Active : Spoils(ctx[a].op, op) \subseteq spoiled' /\ Spoils(op, ctx[a].op) \subseteq spoiled'
      /\ r \notin Active
  BY SubmitIs, TypeInvIs
<1> SUFFICES ASSUME NEW q \in Active', NEW p \in Active', q # p
             PROVE  /\ Spoils(ctx'[q].op, ctx'[p].op) \subseteq spoiled'
                    /\ Disturbs(ctx'[q].op, ctx'[p].op) => ctx'[p].disturbed
  BY DEF Aware
<1>2. ASSUME NEW x \in Active'
      PROVE  \/ x = r /\ Comes(x, op)
             \/ x # r /\ x \in Active /\ Notices(x, op) /\ ctx'[x].op = ctx[x].op
  BY Attends DEF Active
<1>3. CASE q = r
  <2>1. p \in Active /\ ctx'[p].op = ctx[p].op /\ ctx'[q].op = op
    BY <1>2, <1>3 DEF Comes
  <2>2. ctx'[p].disturbed = (ctx[p].disturbed \/ Disturbs(op, ctx[p].op))
    BY <1>2, <1>3, Zenon DEF Notices
  <2>3. Spoils(ctx'[q].op, ctx'[p].op) \subseteq spoiled'
    BY <1>1, <2>1
  <2>4. Disturbs(ctx'[q].op, ctx'[p].op) => ctx'[p].disturbed
    BY <2>1, <2>2, Zenon
  <2> QED
    BY <2>3, <2>4
<1>4. CASE p = r
  <2>1. q \in Active /\ ctx'[q].op = ctx[q].op /\ ctx'[p].op = op
    BY <1>2, <1>4 DEF Comes
  <2>2. ctx'[p].disturbed = \E a \in Active : Disturbs(ctx[a].op, op)
    BY <1>2, <1>1, <1>4, Zenon DEF Comes
  <2>3. Spoils(ctx'[q].op, ctx'[p].op) \subseteq spoiled'
    BY <1>1, <2>1
  <2>4. Disturbs(ctx'[q].op, ctx'[p].op) => ctx'[p].disturbed
    BY <2>1, <2>2, Zenon
  <2> QED
    BY <2>3, <2>4
<1>5. CASE q # r /\ p # r
  <2>1. q \in Active /\ p \in Active /\ ctx'[p].op = ctx[p].op /\ ctx'[q].op = ctx[q].op
    BY <1>2, <1>5
  <2>2. ctx'[p].disturbed = (ctx[p].disturbed \/ Disturbs(op, ctx[p].op))
    BY <1>2, <1>5, Zenon DEF Notices
  <2>3. /\ Spoils(ctx[q].op, ctx[p].op) \subseteq spoiled
        /\ Disturbs(ctx[q].op, ctx[p].op) => ctx[p].disturbed
    BY <1>5, <2>1 DEF Aware
  <2>4. Spoils(ctx'[q].op, ctx'[p].op) \subseteq spoiled'
    BY <1>1, <2>1, <2>3
  <2>5. Disturbs(ctx'[q].op, ctx'[p].op) => ctx'[p].disturbed
    BY <2>1, <2>2, <2>3, Zenon
  <2> QED
    BY <2>4, <2>5
<1> QED
  BY <1>3, <1>4, <1>5

LEMMA AwareNext == TypeInv /\ Aware /\ [Next]_vars => Aware'
<1> SUFFICES ASSUME TypeInv, Aware, [Next]_vars PROVE Aware'
  OBVIOUS
<1>1. CASE Crash
  BY <1>1, Stopped DEF Aware, Active
<1>2. CASE \E r \in Requests : Step(r)
  BY <1>2, AwareStep
<1>3. CASE \E r \in Requests : \E op \in Operations : Submit(r, op)
  BY <1>3, AwareSubmit
<1>4. CASE UNCHANGED vars
  BY <1>4 DEF vars, history, Aware, Active
<1> QED
  BY <1>1, <1>2, <1>3, <1>4 DEF Next

-----------------------------------------------------------------------------
\* What goes was deleted, or swept away.
LEMMA Goes ==
    ASSUME TypeInv, NEW r \in Requests, Step(r), NEW p \in Paths, Exists(p), ~Exists(p)'
    PROVE  \/ DeleteFile(r) /\ pc[r] = "delete" /\ p = FileOf(r)
           \/ Sweep(r) /\ pc[r] = "sweep" /\ p \in Under(Path(r)) /\ Inside(p) = {}
           \/ RmDir(r) /\ pc[r] = "sweep" /\ p = Path(r) /\ Inside(p) = {} /\ ctx[r].todo = {}
<1>1. TreeOK /\ HeldOK /\ LocalsOK /\ CountersOK
  BY TypeInvIs
<1>2. tree'[p] # tree[p] /\ tree'[p] = None
  BY DEF Exists
<1>3. CASE MkDir(r)
  BY <1>1, <1>2, <1>3, MkDirIs DEF Exists
<1>4. CASE OpenFile(r)
  <2> DEFINE f == FileOf(r)
             n == [text |-> IF Exists(f) THEN tree[f].text ELSE "broken", writer |-> r]
  <2>1. tree' = [tree EXCEPT ![f] = n] /\ pc[r] = "open"
    BY <1>1, <1>2, <1>4, OpenFileIs
  <2>2. f \in Paths
    BY <1>1, <2>1, FileIs
  <2>3. n \in Node
    BY <1>1, <2>2 DEF TreeOK, Node, Exists
  <2> HIDE DEF n
  <2>4. n # None
    BY <2>3, NoneAssumption
  <2> QED
    BY <1>1, <1>2, <2>1, <2>4 DEF TreeOK
<1>5. CASE WriteFile(r)
  <2>1. PICK text \in {"full", "broken"} :
          tree' = [tree EXCEPT ![FileOf(r)] = [text |-> text, writer |-> None]]
    BY <1>1, <1>2, <1>5, WriteFileIs
  <2> DEFINE n == [text |-> text, writer |-> None]
  <2>2. n \in Node
    BY DEF Node
  <2>3. tree' = [tree EXCEPT ![FileOf(r)] = n]
    BY <2>1
  <2> HIDE DEF n
  <2>4. n # None
    BY <2>2, NoneAssumption
  <2> QED
    BY <1>1, <1>2, <2>3, <2>4 DEF TreeOK
<1>6. CASE DeleteFile(r)
  BY <1>1, <1>2, <1>6, DeleteFileIs DEF TreeOK
<1>7. CASE Sweep(r)
  BY <1>1, <1>2, <1>7, SweepIs DEF TreeOK
<1>8. CASE RmDir(r)
  BY <1>1, <1>2, <1>8, RmDirIs DEF TreeOK
<1>9. CASE Absent(r) \/ Present(r) \/ List(r) \/ Find(r) \/ Read(r) \/ Serve(r)
  BY <1>1, <1>2, <1>9, AbsentIs, PresentIs, ListIs, FindIs, ReadIs, ServeIs
<1> QED
  BY <1>3, <1>4, <1>5, <1>6, <1>7, <1>8, <1>9 DEF Step

LEMMA VersionGoes ==
    ASSUME TypeInv, NEW r \in Requests, Step(r), NEW v \in Versions, Exists(v), ~Exists(v)'
    PROVE  Removes(r) /\ IsPrefix(Path(r), v)
<1>1. TreeOK /\ HeldOK /\ LocalsOK /\ CountersOK
  BY TypeInvIs
<1>2. v \in Paths /\ v \notin Dirs
  BY KindsDiffer DEF Paths
<1>3. CASE pc[r] = "delete" /\ v = FileOf(r)
  <2>1. Path(r) \in Versions /\ Path(r) = v
    BY <1>1, <1>3, OpIs, FileIs
  <2>2. Kind(r) = "remove"
    BY <1>1, <1>2, <1>3, <2>1, OpIs DEF LocalsOK, LocalsOf
  <2> QED
    BY <1>2, <1>3, <2>1, <2>2, Order DEF Removes, Active
<1>4. CASE pc[r] = "sweep"
  <2>1. Kind(r) = "remove" /\ Path(r) \in Dirs
    BY <1>1, <1>4 DEF LocalsOK, LocalsOf
  <2>2. v \in Under(Path(r))
    BY <1>2, <1>4, <2>1, Goes
  <2> QED
    BY <1>4, <2>1, <2>2 DEF Removes, Active, Under, IsStrictPrefix
<1> QED
  BY <1>2, <1>3, <1>4, Goes

\* Who removes what another request works on disturbs it.
LEMMA RemovalDisturbs ==
    ASSUME Aware, NEW q \in Requests, Removes(q), NEW r \in Active, q # r, IsPrefix(Path(q), Path(r))
    PROVE  ctx[r].disturbed
<1>1. Disturbs(ctx[q].op, ctx[r].op)
  BY DEF Removes, Disturbs, Comparable, Kind, Path
<1>2. q \in Active
  BY DEF Removes
<1> QED
  BY <1>1, <1>2 DEF Aware

LEMMA StoredStep ==
    ASSUME StoredInv, NEW r \in Requests, Step(r)
    PROVE  Stored' /\ \A q \in Requests : StoredLocals(q)'
<1>1. TreeOK /\ HeldOK /\ LocalsOK /\ CountersOK /\ TypeInv /\ Aware
  BY TypeInvIs DEF StoredInv
<1>2. /\ \A v \in stored : /\ Exists(v)
                           /\ \A q \in Requests : Removes(q) => ~IsPrefix(Path(q), v)
      /\ \A q \in Requests : StoredLocals(q)
  BY DEF StoredInv, Stored
<1>3. ASSUME NEW q \in Requests, Removes(q)' PROVE Removes(q) /\ Path(q)' = Path(q)
  BY <1>1, <1>3, Stays DEF Removes, Active
<1>4. \/ stored' = stored
      \/ /\ WriteFile(r) /\ pc[r] = "write" /\ Path(r) \in Versions /\ ~ctx[r].disturbed
         /\ stored' = stored \cup {Path(r)}
  <2>1. CASE WriteFile(r)
    BY <1>1, <2>1, WriteFileIs
  <2>2. CASE ~WriteFile(r)
    BY <1>1, <2>2, AbsentIs, MkDirIs, OpenFileIs, PresentIs, DeleteFileIs, SweepIs, RmDirIs,
       ListIs, FindIs, ReadIs, ServeIs DEF Step, Counts, history
  <2> QED
    BY <2>1, <2>2
<1>5. ASSUME NEW q \in Requests, pc[q] = "write", Kind(q) = "create", NEW v \in Versions,
             Path(q) = v, ~ctx[q].disturbed
      PROVE  /\ Exists(v) /\ Exists(v)'
             /\ \A p \in Requests : Removes(p) => ~IsPrefix(Path(p), v)
  <2>1. q \in Active /\ Exists(v)
    BY <1>2, <1>5 DEF StoredLocals, Active, Exists
  <2>2. \A p \in Requests : Removes(p) => ~IsPrefix(Path(p), v)
    BY <1>1, <1>5, <2>1, RemovalDisturbs DEF Removes
  <2> QED
    BY <1>1, <1>5, <2>1, <2>2, VersionGoes
<1>6. ASSUME NEW v \in stored'
      PROVE  /\ Exists(v)' /\ \A q \in Requests : Removes(q)' => ~IsPrefix(Path(q)', v)
  <2>1. CASE v \in stored
    <3>1. Exists(v)'
      BY <1>1, <1>2, <2>1, VersionGoes DEF CountersOK
    <3> QED
      BY <1>2, <1>3, <2>1, <3>1
  <2>2. CASE v \notin stored
    <3>1. v = Path(r) /\ pc[r] = "write" /\ Path(r) \in Versions /\ ~ctx[r].disturbed
      BY <1>4, <1>6, <2>2
    <3>2. Kind(r) = "create"
      BY <1>1, <3>1, OpIs, KindsDiffer DEF LocalsOK, LocalsOf
    <3> QED
      BY <1>3, <1>5, <3>1, <3>2
  <2> QED
    BY <2>1, <2>2
<1>7. ASSUME NEW q \in Requests, pc'[q] # "idle" PROVE StoredLocals(q)'
  <2>1. /\ pc[q] # "idle" /\ Path(q)' = Path(q) /\ Kind(q)' = Kind(q)
        /\ ctx'[q].knew = ctx[q].knew /\ ctx'[q].disturbed = ctx[q].disturbed
        /\ q # r => pc'[q] = pc[q] /\ ctx'[q] = ctx[q]
    BY <1>1, <1>7, Stays
  <2>2. StoredLocals(q) /\ q \in Active
    BY <1>2, <2>1 DEF Active
  <2>3. Kind(q)' = "get" => ctx'[q].knew \subseteq stored'
    BY <1>4, <2>1, <2>2 DEF StoredLocals
  <2>4. ASSUME pc'[q] = "write", Kind(q) = "create", Path(q) \in Versions, ~ctx[q].disturbed
        PROVE  Exists(Path(q))'
    <3>1. CASE pc[q] = "write"
      <4>1. PICK v \in Versions : v = Path(q)
        BY <2>4
      <4>2. Exists(v)'
        BY <1>5, <2>4, <3>1, <4>1
      <4> QED
        BY <2>1, <4>1, <4>2 DEF Exists
    <3>2. CASE pc[q] # "write"
      <4>1. q = r /\ OpenFile(r)
        BY <1>1, <2>1, <2>4, <3>2, Came
      <4>2. Exists(FileOf(r))'
        <5>1. /\ tree' = [tree EXCEPT ![FileOf(r)] =
                            [text |-> IF Exists(FileOf(r)) THEN tree[FileOf(r)].text ELSE "broken",
                             writer |-> r]]
              /\ FileOf(r) \in Paths
          BY <1>1, <2>1, <2>4, <4>1, OpenFileIs, FileIs DEF Ended
        <5> DEFINE n == [text |-> IF Exists(FileOf(r)) THEN tree[FileOf(r)].text ELSE "broken",
                         writer |-> r]
        <5>2. n \in Node
          BY <1>1, <5>1 DEF TreeOK, Node, Exists
        <5>3. tree'[FileOf(r)] = n
          BY <1>1, <5>1 DEF TreeOK
        <5> HIDE DEF n
        <5>4. tree'[FileOf(r)] # None
          BY <5>2, <5>3, NoneAssumption
        <5>5. FileOf(r) = Path(r) /\ FileOf(r)' = Path(r)
          BY <1>1, <2>1, <2>4, <4>1, FileIs DEF FileOf
        <5> QED
          BY <5>4, <5>5 DEF Exists
      <4>3. FileOf(r)' = Path(r)
        BY <1>1, <2>1, <2>4, <4>1, FileIs DEF FileOf
      <4> QED
        BY <2>1, <4>1, <4>2, <4>3 DEF Exists
    <3> QED
      BY <3>1, <3>2
  <2>5. ASSUME pc'[q] = "read", Path(q) \in SecretDirs, NEW v \in ctx'[q].knew, Front(v) = Path(q)
        PROVE  v \in ctx'[q].todo \/ Last(v) <= ctx'[q].best
    <3>1. v \in ctx[q].knew
      BY <2>1, <2>5
    <3>2. CASE q # r
      BY <2>1, <2>2, <2>5, <3>1, <3>2 DEF StoredLocals
    <3>3. CASE q = r /\ List(r)
      <4>1. pc[r] = "list" /\ ctx'[r].todo = Files(Path(r)) /\ Kind(r) = "get"
        BY <1>1, <2>5, <3>3, ListIs DEF Ended, LocalsOK, LocalsOf
      <4>2. v \in stored /\ v \in Versions /\ Exists(v)
        BY <1>1, <1>2, <2>2, <3>1, <3>3, <4>1 DEF StoredLocals, CountersOK
      <4> QED
        BY <2>5, <3>3, <4>1, <4>2 DEF Files
    <3>4. CASE q = r /\ Find(r)
      <4>1. Path(r) \in Versions
        BY <1>1, <3>4, FindIs DEF LocalsOK, LocalsOf
      <4> QED
        BY <2>5, <3>4, <4>1, KindsDiffer DEF Dirs
    <3>5. CASE q = r /\ Read(r)
      <4>1. pc[r] = "read" /\ ctx[r].todo \subseteq Versions /\ ctx[r].best \in 0..MaxStamp
        BY <1>1, <3>5, ReadIs, OpIs DEF LocalsOK, LocalsOf, Context
      <4>2. PICK u \in ctx[r].todo :
              ctx'[r].todo = ctx[r].todo \ {u} /\ ctx'[r].best = Newest(ctx[r].best, u)
        BY <1>1, <2>5, <3>5, ReadIs DEF Ended
      <4>3. ctx'[r].best >= ctx[r].best /\ ctx'[r].best >= Last(u) /\ ctx'[r].best \in Int
        BY <4>1, <4>2, NewestIs
      <4>4. v \in ctx[r].todo \/ Last(v) <= ctx[r].best
        BY <2>2, <2>5, <3>1, <3>5, <4>1 DEF StoredLocals
      <4>5. Last(v) \in Int
        BY <1>1, <2>1, <3>1, <3>5, <4>1, LastIs, OpIs DEF Context
      <4> QED
        BY <3>5, <4>1, <4>2, <4>3, <4>4, <4>5
    <3> QED
      BY <1>1, <2>5, <3>2, <3>3, <3>4, <3>5, Came
  <2> QED
    BY <2>1, <2>3, <2>4, <2>5 DEF StoredLocals, Active
<1> QED
  BY <1>6, <1>7 DEF Stored, StoredLocals, Active

LEMMA StoredSubmit ==
    ASSUME StoredInv, NEW r \in Requests, NEW op \in Operations, Submit(r, op)
    PROVE  Stored' /\ \A q \in Requests : StoredLocals(q)'
<1>1. TypeInv /\ LocalsOK /\ CountersOK
  BY TypeInvIs DEF StoredInv
<1>2. /\ \A v \in stored : /\ Exists(v)
                           /\ \A q \in Requests : Removes(q) => ~IsPrefix(Path(q), v)
      /\ \A q \in Requests : StoredLocals(q)
  BY DEF StoredInv, Stored
<1>3. /\ tree' = tree /\ stored' = stored \ Asked(op) /\ stored \subseteq Versions
      /\ op.kind = "get" => Asked(op) = {}
  BY <1>1, SubmitIs DEF CountersOK, Asked
<1>4. ASSUME NEW v \in stored'
      PROVE  /\ Exists(v)' /\ \A q \in Requests : Removes(q)' => ~IsPrefix(Path(q)', v)
  <2>1. v \in stored /\ v \in Versions /\ v \notin Asked(op) /\ Exists(v)'
    BY <1>2, <1>3 DEF Exists
  <2>2. ASSUME NEW q \in Requests, Removes(q)' PROVE ~IsPrefix(Path(q)', v)
    <3>1. pc'[q] # "idle" /\ Kind(q)' = "remove"
      BY <2>2 DEF Removes, Active
    <3>2. CASE q = r
      <4>1. op.kind = "remove" /\ Path(q)' = op.path
        BY <1>1, <3>1, <3>2, Attends
      <4> QED
        BY <2>1, <4>1 DEF Asked
    <3>3. CASE q # r
      <4>1. Removes(q) /\ Path(q)' = Path(q)
        BY <1>1, <3>1, <3>3, Attends DEF Removes, Active
      <4> QED
        BY <1>2, <2>1, <4>1
    <3> QED
      BY <3>2, <3>3
  <2> QED
    BY <2>1, <2>2
<1>5. ASSUME NEW q \in Requests, pc'[q] # "idle" PROVE StoredLocals(q)'
  <2>1. CASE q = r
    <3>1. Comes(q, op) /\ pc'[q] = FirstStep(op) /\ Kind(q)' = op.kind
      BY <1>1, <1>5, <2>1, Attends
    <3>2. pc'[q] # "write" /\ pc'[q] # "read"
      BY <3>1, FirstStepIs
    <3>3. Kind(q)' = "get" => ctx'[q].knew \subseteq stored'
      BY <1>3, <3>1 DEF Comes
    <3> QED
      BY <3>2, <3>3 DEF StoredLocals
  <2>2. CASE q # r
    <3>1. /\ pc[q] # "idle" /\ pc'[q] = pc[q] /\ Notices(q, op)
          /\ Path(q)' = Path(q) /\ Kind(q)' = Kind(q)
      BY <1>1, <1>5, <2>2, Attends
    <3>2. StoredLocals(q) /\ q \in Active
      BY <1>2, <3>1 DEF Active
    <3>3. /\ ctx'[q].todo = ctx[q].todo /\ ctx'[q].best = ctx[q].best
          /\ ctx'[q].knew = IF Kind(q) = "get" THEN ctx[q].knew \ Asked(op) ELSE ctx[q].knew
      BY <3>1 DEF Notices
    <3>4. ~ctx'[q].disturbed => ~ctx[q].disturbed
      BY <3>1, Zenon DEF Notices
    <3>5. Kind(q)' = "get" => ctx'[q].knew \subseteq stored'
      BY <1>3, <3>1, <3>2, <3>3 DEF StoredLocals
    <3>6. pc'[q] = "write" /\ Kind(q) = "create" /\ Path(q) \in Versions /\ ~ctx'[q].disturbed
             => Exists(Path(q))
      BY <3>1, <3>2, <3>4 DEF StoredLocals
    <3>7. pc'[q] = "read" /\ Path(q) \in SecretDirs =>
             \A v \in ctx'[q].knew : Front(v) = Path(q) =>
                v \in ctx'[q].todo \/ Last(v) <= ctx'[q].best
      BY <3>1, <3>2, <3>3 DEF StoredLocals
    <3>8. Exists(Path(q))' <=> Exists(Path(q))
      BY <1>3, <3>1 DEF Exists
    <3> QED
      BY <3>1, <3>5, <3>6, <3>7, <3>8 DEF StoredLocals
  <2> QED
    BY <2>1, <2>2
<1> QED
  BY <1>4, <1>5 DEF Stored, StoredLocals, Active

LEMMA StoredNext == StoredInv /\ [Next]_vars => StoredInv'
<1> SUFFICES ASSUME StoredInv, [Next]_vars PROVE StoredInv'
  OBVIOUS
<1>1. TypeInv /\ Aware /\ TypeInv' /\ Aware'
  BY TypeStep, AwareNext DEF StoredInv
<1>2. CASE Crash
  <2>1. /\ stored' = stored /\ stored \subseteq Paths
        /\ \A p \in Paths : Exists(p)' <=> Exists(p)
    BY <1>1, <1>2, CrashIs, TypeInvIs DEF CountersOK, Paths
  <2>2. Stored' /\ \A q \in Requests : StoredLocals(q)'
    BY <1>1, <1>2, <2>1, Stopped DEF StoredInv, Stored, StoredLocals, Active
  <2> QED
    BY <1>1, <2>2 DEF StoredInv
<1>3. CASE \E r \in Requests : Step(r)
  BY <1>1, <1>3, StoredStep DEF StoredInv
<1>4. CASE \E r \in Requests : \E op \in Operations : Submit(r, op)
  BY <1>1, <1>4, StoredSubmit DEF StoredInv
<1>5. CASE UNCHANGED vars
  <2>1. Stored /\ \A q \in Requests : StoredLocals(q)
    BY DEF StoredInv
  <2>2. Stored'
    BY <1>5, <2>1 DEF vars, history, Stored, Exists, Removes, Active, Kind, Path
  <2>3. ASSUME NEW q \in Requests PROVE StoredLocals(q)'
    <3>1. StoredLocals(q)
      BY <2>1
    <3> QED
      BY <1>5, <3>1 DEF vars, history, StoredLocals, Exists, Active, Kind, Path
  <2> QED
    BY <1>1, <2>2, <2>3 DEF StoredInv
<1> QED
  BY <1>2, <1>3, <1>4, <1>5 DEF Next

LEMMA StoredInit == Init => StoredInv
<1> SUFFICES ASSUME Init PROVE StoredInv
  OBVIOUS
<1>1. Active = {} /\ stored = {}
  BY DEF Init, Active
<1>2. Stored /\ Aware /\ \A q \in Requests : StoredLocals(q)
  BY <1>1 DEF Stored, Aware, StoredLocals
<1> QED
  BY <1>2, TypeInit DEF StoredInv

\* GetSecretVersion never answers with an older version than one whose creation was
\* acknowledged before it was called and that nobody has asked to remove: a stored
\* version stays in the directory, is in the list, and wins the comparison.
THEOREM NewestVersionIsServed == Spec => []NewestIsServed
<1>1. StoredInv => NewestIsServed
  BY DEF StoredInv, StoredLocals, NewestIsServed, Answers, Active
<1> QED
  BY <1>1, StoredInit, StoredNext, PTL DEF Spec

-----------------------------------------------------------------------------
\* Two paths on the way to a third are on the way to one another.
LEMMA OnOneWay ==
    ASSUME NEW p \in Paths, NEW q \in Paths, NEW w \in Paths, IsPrefix(p, w), IsPrefix(q, w)
    PROVE  Comparable(p, q)
<1>1. /\ p \in Seq(Word) /\ q \in Seq(Word) /\ w \in Seq(Word)
      /\ Len(p) \in Nat /\ Len(q) \in Nat
  BY PathsAreSeqs
<1>2. \A i \in 1..Len(p) : p[i] = w[i]
  BY <1>1, PrefixIs
<1>3. \A i \in 1..Len(q) : q[i] = w[i]
  BY <1>1, PrefixIs
<1>4. CASE Len(p) <= Len(q)
  <2>1. \A i \in 1..Len(p) : p[i] = q[i]
    BY <1>1, <1>2, <1>3, <1>4
  <2>2. IsPrefix(p, q)
    BY <1>1, <1>4, <2>1, PrefixIs
  <2> QED
    BY <2>2 DEF Comparable
<1>5. CASE Len(q) <= Len(p)
  <2>1. \A i \in 1..Len(q) : q[i] = p[i]
    BY <1>1, <1>2, <1>3, <1>5
  <2>2. IsPrefix(q, p)
    BY <1>1, <1>5, <2>1, PrefixIs
  <2> QED
    BY <2>2 DEF Comparable
<1> QED
  BY <1>1, <1>4, <1>5

\* A file changes only when it is opened, or written by the request that opened it.
LEMMA Changes ==
    ASSUME TypeInv, NEW r \in Requests, Step(r), NEW p \in Paths, p \notin Dirs, Exists(p),
           tree'[p] # tree[p]
    PROVE  \/ tree'[p] = None
           \/ /\ p = FileOf(r) /\ OpenFile(r) /\ pc[r] = "open" /\ pc'[r] = "write" /\ ~Held(p)
              /\ tree'[p] = [text |-> tree[p].text, writer |-> r]
           \/ /\ p = FileOf(r) /\ WriteFile(r) /\ pc[r] = "write"
              /\ Held(p) /\ tree[p].writer = r
              /\ \E text \in {"full", "broken"} :
                    /\ tree'[p] = [text |-> text, writer |-> None]
                    /\ tree[p].text # "full" => text = "full"
<1>1. TreeOK /\ HeldOK /\ LocalsOK /\ CountersOK
  BY TypeInvIs
<1>2. CASE MkDir(r)
  BY <1>1, <1>2, MkDirIs
<1>3. CASE OpenFile(r)
  <2>1. /\ ~Held(FileOf(r)) /\ Moves(r, "write") /\ pc[r] = "open"
        /\ tree' = [tree EXCEPT ![FileOf(r)] =
                      [text |-> IF Exists(FileOf(r)) THEN tree[FileOf(r)].text ELSE "broken",
                       writer |-> r]]
    BY <1>1, <1>3, OpenFileIs
  <2>2. p = FileOf(r)
    BY <1>1, <2>1 DEF TreeOK
  <2>3. tree'[p] = [text |-> tree[p].text, writer |-> r]
    BY <1>1, <2>1, <2>2 DEF TreeOK
  <2> QED
    BY <1>3, <2>1, <2>2, <2>3 DEF Moves
<1>4. CASE WriteFile(r)
  <2>1. /\ Held(FileOf(r)) /\ tree[FileOf(r)].writer = r /\ pc[r] = "write"
        /\ \E text \in {"full", "broken"} :
              /\ tree' = [tree EXCEPT ![FileOf(r)] = [text |-> text, writer |-> None]]
              /\ tree[FileOf(r)].text # "full" => text = "full"
    BY <1>1, <1>4, WriteFileIs
  <2>2. p = FileOf(r)
    BY <1>1, <2>1 DEF TreeOK
  <2> QED
    BY <1>1, <1>4, <2>1, <2>2 DEF TreeOK
<1>5. CASE DeleteFile(r) \/ Sweep(r) \/ RmDir(r)
  <2>1. \E f : tree' = tree \/ tree' = [tree EXCEPT ![f] = None]
    BY <1>1, <1>5, DeleteFileIs, SweepIs, RmDirIs
  <2> QED
    BY <1>1, <2>1 DEF TreeOK
<1>6. CASE Absent(r) \/ Present(r) \/ List(r) \/ Find(r) \/ Read(r) \/ Serve(r)
  BY <1>1, <1>6, AbsentIs, PresentIs, ListIs, FindIs, ReadIs, ServeIs
<1> QED
  BY <1>2, <1>3, <1>4, <1>5, <1>6 DEF Step

\* The file of a request that writes a version is that version.
LEMMA WritesVersion ==
    ASSUME TypeInv, NEW r \in Requests, pc[r] \in {"open", "write"}, NEW v \in Versions, FileOf(r) = v
    PROVE  Creates(r, v)
<1>1. LocalsOK /\ v \notin Dirs
  BY TypeInvIs, KindsDiffer
<1>2. Path(r) = v
  BY <1>1, OpIs, FileIs
<1>3. Kind(r) = "create"
  BY <1>1, <1>2, OpIs DEF LocalsOK, LocalsOf
<1> QED
  BY <1>2, <1>3 DEF Creates, Active

LEMMA VersionStays ==
    ASSUME TypeInv, NEW r \in Requests, Step(r), NEW v \in Versions, Exists(v), Exists(v)',
           ~Creates(r, v)
    PROVE  tree'[v] = tree[v]
<1>1. v \in Paths /\ v \notin Dirs /\ tree'[v] # None
  BY KindsDiffer DEF Paths, Exists
<1>2. ASSUME pc[r] \in {"open", "write"} PROVE FileOf(r) # v
  BY <1>2, WritesVersion
<1>3. SUFFICES ASSUME tree'[v] # tree[v] PROVE FALSE
  OBVIOUS
<1>4. v = FileOf(r) /\ pc[r] \in {"open", "write"}
  BY <1>1, <1>3, Changes
<1> QED
  BY <1>2, <1>4

LEMMA WholeStep ==
    ASSUME WholeInv, NEW r \in Requests, Step(r)
    PROVE  Whole' /\ \A q \in Requests : WholeLocals(q)'
<1>1. /\ TreeOK /\ HeldOK /\ LocalsOK /\ CountersOK /\ TypeInv /\ Aware /\ MadeOnce
      /\ Whole /\ \A q \in Requests : WholeLocals(q)
  BY TypeInvIs DEF WholeInv, StoredInv
<1>2. crashed' = crashed
  BY <1>1, Moved
<1>3. ASSUME NEW v \in Versions, Exists(v)', ~crashed, \A q \in Requests : ~Creates(q, v)'
      PROVE  Readable(v)'
  <2>0. v \in Paths /\ v \notin Dirs
    BY KindsDiffer DEF Paths
  <2>1. CASE \A q \in Requests : ~Creates(q, v)
    <3>1. Exists(v) /\ Readable(v)
      BY <1>1, <1>3, <2>1, VersionAppears DEF Whole
    <3>2. tree'[v] = tree[v]
      BY <1>1, <1>3, <2>1, <3>1, VersionStays
    <3> QED
      BY <3>1, <3>2 DEF Readable, Exists, Held
  <2>2. CASE \E q \in Requests : Creates(q, v)
    <3>1. PICK q \in Requests : Creates(q, v)
      BY <2>2
    <3>2. q = r /\ pc'[r] = "idle"
      <4>1. ASSUME pc'[q] # "idle" PROVE FALSE
        BY <1>1, <1>3, <3>1, <4>1, Stays DEF Creates, Active
      <4>2. ASSUME q # r PROVE pc'[q] = pc[q]
        BY <1>1, <4>2, Moved DEF Moves, Ended
      <4> QED
        BY <3>1, <4>1, <4>2 DEF Creates, Active
    <3>3. Kind(r) = "create" /\ Path(r) = v /\ FileOf(r) = v
      BY <1>1, <2>0, <3>1, <3>2, FileIs DEF Creates, Active
    <3>4. Exists(v)
      <4>1. SUFFICES ASSUME ~Exists(v) PROVE FALSE
        OBVIOUS
      <4> QED
        BY <1>1, <1>3, <3>2, <4>1, VersionAppears
    <3>5. WriteFile(r)
      <4>1. pc[r] \notin {"absent", "open"}
        BY <1>1, <3>1, <3>2, <3>4 DEF MadeOnce
      <4>2. pc[r] \notin {"present", "delete", "sweep", "list", "find", "read", "mkdir"}
        BY <1>1, <2>0, <3>3 DEF LocalsOK, LocalsOf
      <4> QED
        BY <1>1, <4>1, <4>2, AbsentIs, MkDirIs, OpenFileIs, PresentIs, DeleteFileIs, SweepIs,
           RmDirIs, ListIs, FindIs, ReadIs, ServeIs DEF Step
    <3>6. tree[v] = [text |-> "broken", writer |-> r] /\ r # None
      BY <1>1, <3>2, <3>3, <3>4, <3>5, NoneAssumption, WriteFileIs DEF WholeLocals, Active
    <3>7. tree'[v] = [text |-> "full", writer |-> None]
      <4>1. Held(FileOf(r)) /\ tree[FileOf(r)].writer = r /\ tree[FileOf(r)].text # "full"
        BY <3>3, <3>4, <3>6 DEF Held
      <4>2. tree' = [tree EXCEPT ![FileOf(r)] = [text |-> "full", writer |-> None]]
        BY <1>1, <3>5, <4>1, WriteFileIs
      <4> QED
        BY <1>1, <2>0, <3>3, <4>2 DEF TreeOK
    <3> QED
      BY <1>3, <3>7 DEF Readable, Held
  <2> QED
    BY <2>1, <2>2
<1>4. ASSUME NEW q \in Requests, pc'[q] # "idle" PROVE WholeLocals(q)'
  <2>1. /\ pc[q] # "idle" /\ Path(q)' = Path(q) /\ Kind(q)' = Kind(q)
        /\ ctx'[q].disturbed = ctx[q].disturbed
        /\ q # r => pc'[q] = pc[q] /\ ctx'[q] = ctx[q]
    BY <1>1, <1>4, Stays
  <2>2. WholeLocals(q) /\ q \in Active
    BY <1>1, <2>1 DEF Active
  <2>3. ASSUME pc'[q] = "write", Kind(q) = "create", NEW v \in Versions, Path(q) = v, Exists(v)'
        PROVE  tree'[v] = [text |-> "broken", writer |-> q]
    <3>0. v \in Paths /\ v \notin Dirs /\ Creates(q, v) /\ FileOf(q) = v
      BY <1>1, <2>1, <2>2, <2>3, KindsDiffer, FileIs DEF Paths, Creates
    <3>1. CASE q # r
      <4>1. ~Creates(r, v)
        BY <1>1, <3>0, <3>1 DEF MadeOnce
      <4>2. Exists(v)
        BY <1>1, <2>3, <4>1, VersionAppears
      <4>3. tree'[v] = tree[v]
        BY <1>1, <2>3, <4>1, <4>2, VersionStays
      <4>4. tree[v] = [text |-> "broken", writer |-> q]
        BY <2>1, <2>2, <2>3, <3>1, <4>2 DEF WholeLocals
      <4> QED
        BY <4>3, <4>4
    <3>2. CASE q = r
      <4>1. OpenFile(r) /\ pc[r] = "open" /\ pc'[r] # "idle"
        BY <1>1, <2>3, <3>2, Came, OpenFileIs
      <4>2. ~Exists(v)
        BY <1>1, <3>0, <3>2, <4>1 DEF MadeOnce
      <4>3. tree' = [tree EXCEPT ![FileOf(r)] =
                      [text |-> IF Exists(FileOf(r)) THEN tree[FileOf(r)].text ELSE "broken",
                       writer |-> r]]
        BY <1>1, <4>1, OpenFileIs DEF Ended
      <4> QED
        BY <1>1, <3>0, <3>2, <4>2, <4>3 DEF TreeOK
    <3> QED
      BY <3>1, <3>2
  <2>4. ASSUME pc'[q] = "read", ~ctx[q].disturbed, NEW v \in ctx'[q].todo
        PROVE  Exists(v)'
    <3>1. CASE q # r
      <4>1. /\ Exists(v) /\ Kind(q) = "get" /\ v \in Versions /\ IsPrefix(Path(q), v)
        BY <1>1, <2>1, <2>2, <2>4, <3>1 DEF WholeLocals, LocalsOK, LocalsOf
      <4>2. SUFFICES ASSUME ~Exists(v)' PROVE FALSE
        OBVIOUS
      <4>3. Removes(r) /\ IsPrefix(Path(r), v) /\ pc[r] # "idle"
        BY <1>1, <4>1, <4>2, VersionGoes DEF Removes, Active
      <4>4. Comparable(Path(r), Path(q))
        BY <1>1, <2>1, <4>1, <4>3, OnOneWay, OpIs DEF Paths
      <4>5. Disturbs(ctx[r].op, ctx[q].op)
        BY <4>3, <4>4 DEF Disturbs, Removes, Kind, Path
      <4> QED
        BY <1>1, <2>2, <2>4, <3>1, <4>3, <4>5 DEF Aware, Removes
    <3>2. CASE q = r /\ List(r)
      BY <1>1, <2>4, <3>2, ListIs DEF Files, Exists, Ended
    <3>3. CASE q = r /\ Find(r)
      <4>1. tree' = tree /\ v = Path(r) /\ Exists(Path(r))
        BY <1>1, <2>4, <3>3, FindIs DEF Ended
      <4> QED
        BY <4>1 DEF Exists
    <3>4. CASE q = r /\ Read(r)
      <4>1. tree' = tree /\ pc[r] = "read" /\ v \in ctx[r].todo
        BY <1>1, <2>4, <3>4, ReadIs DEF Ended
      <4>2. Exists(v)
        BY <2>2, <2>4, <3>4, <4>1 DEF WholeLocals
      <4> QED
        BY <4>1, <4>2 DEF Exists
    <3> QED
      BY <1>1, <2>4, <3>1, <3>2, <3>3, <3>4, Came
  <2> QED
    BY <2>1, <2>3, <2>4 DEF WholeLocals, Active, Exists
<1> QED
  BY <1>2, <1>3, <1>4 DEF Whole, WholeLocals, Active

LEMMA WholeSubmit ==
    ASSUME WholeInv, NEW r \in Requests, NEW op \in Operations, Submit(r, op)
    PROVE  Whole' /\ \A q \in Requests : WholeLocals(q)'
<1>1. /\ TypeInv /\ LocalsOK /\ CountersOK /\ Whole /\ \A q \in Requests : WholeLocals(q)
  BY TypeInvIs DEF WholeInv, StoredInv
<1>2. /\ tree' = tree /\ crashed' = crashed /\ pc[r] = "idle" /\ r \notin Active
      /\ \A q \in Active : Notices(q, op)
      /\ pc' = [pc EXCEPT ![r] = FirstStep(op)]
  BY <1>1, SubmitIs
<1>3. ASSUME NEW q \in Requests, NEW v, Creates(q, v) PROVE Creates(q, v)'
  <2>1. q \in Active /\ q # r /\ Notices(q, op)
    BY <1>2, <1>3 DEF Creates
  <2>2. pc'[q] = pc[q] /\ ctx'[q].op = ctx[q].op
    BY <1>1, <1>2, <2>1 DEF LocalsOK, Notices
  <2> QED
    BY <1>3, <2>2 DEF Creates, Active, Kind, Path
<1>4. Whole'
  BY <1>1, <1>2, <1>3 DEF Whole, Readable, Exists, Held
<1>5. ASSUME NEW q \in Requests, pc'[q] # "idle" PROVE WholeLocals(q)'
  <2>1. CASE q = r
    <3>1. pc'[q] = FirstStep(op)
      BY <1>1, <1>5, <2>1, Attends
    <3>2. pc'[q] # "write" /\ pc'[q] # "read"
      BY <3>1, FirstStepIs
    <3> QED
      BY <3>2 DEF WholeLocals
  <2>2. CASE q # r
    <3>1. /\ pc[q] # "idle" /\ pc'[q] = pc[q] /\ Notices(q, op)
          /\ Path(q)' = Path(q) /\ Kind(q)' = Kind(q)
      BY <1>1, <1>5, <2>2, Attends
    <3>2. WholeLocals(q) /\ q \in Active
      BY <1>1, <3>1 DEF Active
    <3>3. ctx'[q].todo = ctx[q].todo
      BY <3>1 DEF Notices
    <3>4. ~ctx'[q].disturbed => ~ctx[q].disturbed
      BY <3>1, Zenon DEF Notices
    <3> QED
      BY <1>2, <3>1, <3>2, <3>3, <3>4 DEF WholeLocals, Exists
  <2> QED
    BY <2>1, <2>2
<1> QED
  BY <1>4, <1>5 DEF WholeLocals, Active

LEMMA WholeNext == WholeInv /\ [Next]_vars => WholeInv'
<1> SUFFICES ASSUME WholeInv, [Next]_vars PROVE WholeInv'
  OBVIOUS
<1>1. TypeInv /\ StoredInv' /\ MadeOnce'
  BY StoredNext, MadeOnceNext DEF WholeInv, StoredInv
<1>2. CASE Crash
  <2>1. crashed' = TRUE
    BY <1>1, <1>2, CrashIs, TypeInvIs
  <2>2. Whole' /\ \A q \in Requests : WholeLocals(q)'
    BY <1>1, <1>2, <2>1, Stopped DEF Whole, WholeLocals, Active
  <2> QED
    BY <1>1, <2>2 DEF WholeInv
<1>3. CASE \E r \in Requests : Step(r)
  BY <1>1, <1>3, WholeStep DEF WholeInv
<1>4. CASE \E r \in Requests : \E op \in Operations : Submit(r, op)
  BY <1>1, <1>4, WholeSubmit DEF WholeInv
<1>5. CASE UNCHANGED vars
  <2>1. Whole /\ \A q \in Requests : WholeLocals(q)
    BY DEF WholeInv
  <2>2. Whole'
    BY <1>5, <2>1 DEF vars, history, Whole, Readable, Held, Exists, Creates, Active, Kind, Path
  <2>3. ASSUME NEW q \in Requests PROVE WholeLocals(q)'
    <3>1. WholeLocals(q)
      BY <2>1
    <3> QED
      BY <1>5, <3>1 DEF vars, history, WholeLocals, Exists, Active, Kind, Path
  <2> QED
    BY <1>1, <2>2, <2>3 DEF WholeInv
<1> QED
  BY <1>2, <1>3, <1>4, <1>5 DEF Next

LEMMA WholeInit == Init => WholeInv
<1> SUFFICES ASSUME Init PROVE WholeInv
  OBVIOUS
<1>1. Active = {} /\ \A v \in Versions : ~Exists(v)
  BY DEF Init, Active, Exists, Paths
<1>2. Whole /\ \A q \in Requests : WholeLocals(q)
  BY <1>1 DEF Whole, WholeLocals
<1> QED
  BY <1>2, StoredInit, MadeOnceInit DEF WholeInv

LEMMA FailureIsExplained ==
    ASSUME WholeInv, [Next]_vars, NEW r \in Requests,
           pc[r] \in {"list", "find", "read"}, pc'[r] = "idle", ~Answers(r),
           NEW v \in ctx[r].knew, IsPrefix(Path(r), v)
    PROVE  ctx[r].disturbed \/ crashed'
<1>1. /\ TreeOK /\ LocalsOK /\ CountersOK /\ TypeInv /\ Aware
      /\ Stored /\ StoredLocals(r) /\ Whole /\ WholeLocals(r) /\ LocalsOf(r)
  BY TypeInvIs DEF WholeInv, StoredInv, LocalsOK
<1>2. CASE Crash
  BY <1>2 DEF Crash
<1>3. CASE \E p \in Requests : \E op \in Operations : Submit(p, op)
  <2>1. PICK p \in Requests, op \in Operations : Submit(p, op)
    BY <1>3
  <2>2. pc' = [pc EXCEPT ![p] = FirstStep(op)] /\ FirstStep(op) # "idle"
    BY <1>1, <2>1, SubmitIs, FirstStepIs
  <2> QED
    BY <1>1, <2>2 DEF LocalsOK
<1>4. CASE Step(r)
  <2>1. /\ r \in Active /\ Kind(r) = "get" /\ v \in stored /\ v \in Versions /\ Exists(v)
        /\ v \in Paths /\ Path(r) \in Paths
    BY <1>1, OpIs DEF LocalsOf, StoredLocals, Stored, CountersOK, Active, Paths
  <2>2. Exists(Path(r))
    BY <1>1, <2>1, Above
  <2>3. CASE List(r) \/ Find(r)
    BY <1>1, <2>2, <2>3, ListIs, FindIs DEF Moves
  <2>4. CASE Serve(r)
    BY <1>1, <2>4, ServeIs DEF Answers
  <2>5. CASE Read(r)
    <3>1. PICK u \in ctx[r].todo : ~Readable(u)
      BY <1>1, <2>5, ReadIs DEF Moves
    <3>2. u \in Versions /\ IsPrefix(Path(r), u) /\ pc[r] = "read" /\ crashed' = crashed
      BY <1>1, <2>5, ReadIs DEF LocalsOf, Counts
    <3>3. SUFFICES ASSUME ~ctx[r].disturbed, ~crashed PROVE FALSE
      BY <3>2
    <3>4. Exists(u)
      BY <1>1, <2>1, <3>2, <3>3 DEF WholeLocals
    <3>5. PICK q \in Requests : Creates(q, u)
      BY <1>1, <3>1, <3>2, <3>3, <3>4 DEF Whole
    <3>6. q # r /\ Disturbs(ctx[q].op, ctx[r].op)
      BY <2>1, <3>2, <3>5 DEF Creates, Disturbs, Comparable, Kind, Path
    <3> QED
      BY <1>1, <2>1, <3>3, <3>5, <3>6 DEF Aware, Creates
  <2>6. CASE ~(List(r) \/ Find(r) \/ Serve(r) \/ Read(r))
    BY <1>1, <1>4, <2>6, AbsentIs, MkDirIs, OpenFileIs, WriteFileIs, PresentIs, DeleteFileIs,
       SweepIs, RmDirIs DEF Step
  <2> QED
    BY <2>3, <2>4, <2>5, <2>6
<1>5. CASE \E q \in Requests \ {r} : Step(q)
  BY <1>1, <1>5, Moved DEF Moves, Ended
<1>6. CASE UNCHANGED vars
  BY <1>6 DEF vars
<1> QED
  BY <1>2, <1>3, <1>4, <1>5, <1>6 DEF Next

\* GetSecretVersion fails for a secret that has a version only if a request that
\* makes or removes a version of it ran meanwhile, or the process has stopped:
\* updates of the secret and its locker, and other secrets, do it no harm.
THEOREM OnlyDisturbedRequestsFail == Spec => FailuresAreExplained
<1>1. WholeInv /\ [Next]_vars =>
      [\A r \in Requests :
          /\ pc[r] \in {"list", "find", "read"} /\ pc'[r] = "idle" /\ ~Answers(r)
          /\ \E v \in ctx[r].knew : IsPrefix(Path(r), v)
          => ctx[r].disturbed \/ crashed']_vars
  BY FailureIsExplained
<1> QED
  BY <1>1, WholeInit, WholeNext, PTL DEF Spec, FailuresAreExplained

-----------------------------------------------------------------------------
\* Who does not overlap with whom, if nobody fights over the _item.meta of d.
LEMMA NotRemovedMeanwhile ==
    ASSUME Aware, NEW d \in Dirs \ spoiled, NEW a \in Requests, Removes(a),
           NEW b \in Active, Kind(b) \in {"create", "update"}, IsPrefix(Path(a), Path(b))
    PROVE  ~IsPrefix(Path(a), d)
<1>1. SUFFICES ASSUME IsPrefix(Path(a), d) PROVE FALSE
  OBVIOUS
<1>2. d \in Spoils(ctx[a].op, ctx[b].op)
  BY <1>1 DEF Spoils, Removes, Kind, Path
<1>3. a \in Active /\ a # b
  BY DEF Removes
<1> QED
  BY <1>2, <1>3 DEF Aware

LEMMA NotDoneTwice ==
    ASSUME TypeInv, Aware, NEW d \in Dirs \ spoiled, NEW a \in Active, NEW b \in Active,
           Path(a) = d, Path(b) = d, Kind(a) = Kind(b), Kind(a) # "get"
    PROVE  a = b
<1>1. SUFFICES ASSUME a # b PROVE FALSE
  OBVIOUS
<1>2. ctx[a].op \in Operations /\ ctx[b].op \in Operations
  BY TypeInvIs, OpIs DEF Active
<1>3. \A x \in Operations : x = [kind |-> x.kind, path |-> x.path]
  BY DEF Operations
<1>4. ctx[a].op = ctx[b].op
  BY <1>2, <1>3 DEF Kind, Path
<1>5. d \in Spoils(ctx[a].op, ctx[b].op)
  BY <1>4 DEF Spoils, Kind, Path
<1> QED
  BY <1>1, <1>5 DEF Aware

\* Directories come and go.
LEMMA DirGoes ==
    ASSUME TypeInv, NEW r \in Requests, Step(r), NEW d \in Dirs, Exists(d), ~Exists(d)'
    PROVE  Removes(r) /\ pc[r] = "sweep" /\ IsPrefix(Path(r), d)
<1>1. TreeOK /\ HeldOK /\ LocalsOK /\ CountersOK
  BY TypeInvIs
<1>2. d \in Paths
  BY DEF Paths
<1>3. ~(pc[r] = "delete" /\ d = FileOf(r))
  BY <1>1, FileIs
<1>4. pc[r] = "sweep" /\ (d \in Under(Path(r)) \/ d = Path(r))
  BY <1>2, <1>3, Goes
<1>5. Kind(r) = "remove"
  BY <1>1, <1>4 DEF LocalsOK, LocalsOf
<1>6. IsPrefix(Path(r), d)
  BY <1>2, <1>4, Order DEF Under, IsStrictPrefix
<1> QED
  BY <1>4, <1>5, <1>6 DEF Removes, Active

LEMMA DirAppears ==
    ASSUME TypeInv, NEW r \in Requests, Step(r), NEW d \in Dirs, ~Exists(d), Exists(d)'
    PROVE  MkDir(r) /\ pc[r] = "mkdir" /\ Kind(r) = "create" /\ IsPrefix(d, Path(r))
<1>1. TreeOK /\ HeldOK /\ LocalsOK /\ CountersOK
  BY TypeInvIs
<1>2. d \in Paths /\ tree'[d] # tree[d]
  BY DEF Paths, Exists
<1>3. CASE MkDir(r)
  BY <1>1, <1>2, <1>3, MkDirIs DEF LocalsOK, LocalsOf
<1>4. CASE OpenFile(r)
  <2>1. FileOf(r) \notin Dirs
    BY <1>1, <1>4, OpenFileIs, FileIs
  <2> QED
    BY <1>1, <1>2, <1>4, <2>1, OpenFileIs DEF TreeOK
<1>5. CASE WriteFile(r)
  <2>1. FileOf(r) \notin Dirs
    BY <1>1, <1>5, WriteFileIs, FileIs
  <2>2. \E n : tree' = [tree EXCEPT ![FileOf(r)] = n]
    BY <1>1, <1>2, <1>5, WriteFileIs
  <2> QED
    BY <1>1, <1>2, <2>1, <2>2 DEF TreeOK
<1>6. CASE DeleteFile(r) \/ Sweep(r) \/ RmDir(r)
  <2>1. \E f : tree' = tree \/ tree' = [tree EXCEPT ![f] = None]
    BY <1>1, <1>6, DeleteFileIs, SweepIs, RmDirIs
  <2> QED
    BY <1>1, <1>2, <2>1 DEF TreeOK, Exists
<1>7. CASE Absent(r) \/ Present(r) \/ List(r) \/ Find(r) \/ Read(r) \/ Serve(r)
  BY <1>1, <1>2, <1>7, AbsentIs, PresentIs, ListIs, FindIs, ReadIs, ServeIs
<1> QED
  BY <1>3, <1>4, <1>5, <1>6, <1>7 DEF Step

\* A directory something is made in stays.
LEMMA DirStays ==
    ASSUME TypeInv, Aware, NEW r \in Requests, Step(r), NEW d \in Dirs \ spoiled, Exists(d),
           NEW q \in Active, Kind(q) \in {"create", "update"}, IsPrefix(d, Path(q))
    PROVE  Exists(d)'
<1>1. SUFFICES ASSUME ~Exists(d)' PROVE FALSE
  OBVIOUS
<1>2. Removes(r) /\ IsPrefix(Path(r), d)
  BY <1>1, DirGoes
<1>3. Path(r) \in Paths /\ Path(q) \in Paths /\ d \in Paths
  BY <1>2, TypeInvIs, OpIs DEF Removes, Active, Paths
<1>4. IsPrefix(Path(r), Path(q))
  BY <1>2, <1>3, Order
<1> QED
  BY <1>2, <1>4, NotRemovedMeanwhile

\* Whose file an _item.meta is, and what is above a file.
LEMMA MetaIsOf ==
    ASSUME LocalsOK, NEW q \in Requests, pc[q] # "idle", NEW d \in Dirs, FileOf(q) = MetaOf(d)
    PROVE  Path(q) = d
<1>1. MetaOf(d) \in Metas /\ Front(MetaOf(d)) = d
  BY MetaPaths DEF MetaOf
<1>2. Path(q) \in Dirs
  BY <1>1, OpIs, FileIs
<1> QED
  BY <1>1, <1>2, FileIs

LEMMA AboveFile ==
    ASSUME LocalsOK, NEW q \in Requests, pc[q] # "idle", NEW p \in Dirs, IsPrefix(p, FileOf(q))
    PROVE  IsPrefix(p, Path(q))
<1>1. FileOf(q) \in Paths /\ FileOf(q) \notin Dirs /\ p \in Paths /\ p # FileOf(q)
  BY FileIs DEF Paths
<1>2. CASE Path(q) \in Versions
  BY <1>2, FileIs
<1>3. CASE Path(q) \in Dirs
  BY <1>1, <1>3, FileIs, Order
<1> QED
  BY <1>2, <1>3, OpIs

\* What is made in a directory somebody sweeps would be somebody's who spoils it.
LEMMA NothingComes ==
    ASSUME TypeInv, Aware, NEW r \in Requests, Step(r), NEW d \in Dirs \ spoiled,
           NEW q \in Requests, pc[q] = "sweep", IsPrefix(Path(q), d)
    PROVE  Inside(Path(q))' \subseteq Inside(Path(q)) \/ pc'[q] = "idle"
<1>1. TreeOK /\ HeldOK /\ LocalsOK /\ CountersOK
  BY TypeInvIs
<1>2. /\ Removes(q) /\ Path(q) \in Dirs /\ Path(q) \in Paths /\ d \in Paths
  BY <1>1 DEF LocalsOK, LocalsOf, Removes, Active, Paths
<1>3. ASSUME NEW b \in Requests, pc[b] # "idle", Kind(b) \in {"create", "update"}
      PROVE  ~IsPrefix(Path(q), Path(b))
  BY <1>2, <1>3, NotRemovedMeanwhile DEF Active
<1>4. ASSUME NEW x \in Paths, IsPrefix(Path(q), x), Path(q) # x, Exists(x)' PROVE Exists(x)
  <2>1. SUFFICES ASSUME ~Exists(x) PROVE FALSE
    OBVIOUS
  <2>2. CASE x \in Dirs
    <3>1. pc[r] = "mkdir" /\ Kind(r) = "create" /\ IsPrefix(x, Path(r))
      BY <1>4, <2>1, <2>2, DirAppears
    <3>2. Path(r) \in Paths
      BY <1>1, <3>1, OpIs
    <3>3. IsPrefix(Path(q), Path(r))
      BY <1>2, <1>4, <3>1, <3>2, Order
    <3> QED
      BY <1>3, <3>1, <3>3
  <2>3. CASE x \notin Dirs
    <3>1. pc[r] = "open" /\ FileOf(r) = x
      BY <1>4, <2>1, <2>3, Appears
    <3>2. IsPrefix(Path(q), Path(r))
      BY <1>1, <1>2, <1>4, <3>1, AboveFile
    <3>3. Kind(r) \in {"create", "update"}
      BY <1>1, <3>1 DEF LocalsOK, LocalsOf
    <3> QED
      BY <1>3, <3>1, <3>2, <3>3
  <2> QED
    BY <2>2, <2>3
<1>5. SUFFICES ASSUME pc'[q] # "idle", NEW x \in Inside(Path(q))' PROVE x \in Inside(Path(q))
  OBVIOUS
<1>6. Path(q)' = Path(q)
  BY <1>5, Stays
<1>7. x \in Paths /\ IsPrefix(Path(q), x) /\ Path(q) # x /\ Exists(x)'
  BY <1>5, <1>6 DEF Inside, Under, IsStrictPrefix, Exists
<1> QED
  BY <1>2, <1>4, <1>7, InsideIs

\* A sweep of such a directory takes away what it lists.
LEMMA Swept ==
    ASSUME TypeInv, Aware, NEW q \in Requests, Sweep(q), NEW d \in Dirs \ spoiled,
           IsPrefix(Path(q), d), Inside(Path(q)) \subseteq ctx[q].todo
    PROVE  Inside(Path(q))' \subseteq ctx'[q].todo
<1>1. TreeOK /\ HeldOK /\ LocalsOK /\ CountersOK
  BY TypeInvIs
<1>2. PICK p \in (ctx[q].todo \cup Inside(Path(q))) \cap Under(Path(q)) :
         /\ pc[q] = "sweep" /\ Moves(q, "sweep")
         /\ ctx[q].todo \cap Under(p) = {}
         /\ \/ Inside(p) = {} /\ tree' = [tree EXCEPT ![p] = None]
            \/ (Held(p) \/ Inside(p) # {}) /\ p \in ctx[q].todo /\ UNCHANGED tree
         /\ ctx'[q].todo = ctx[q].todo \ {p}
  BY <1>1, SweepIs
<1>3. /\ Kind(q) = "remove" /\ Path(q) \in Dirs /\ Path(q) \in Paths /\ Removes(q)
      /\ Path(q)' = Path(q)
  BY <1>1, <1>2 DEF LocalsOK, LocalsOf, Paths, Removes, Active, Moves, Path
<1>4. p \in Paths /\ IsPrefix(Path(q), p) /\ Path(q) # p
  BY <1>2 DEF Under, IsStrictPrefix
<1>5. Inside(p) = {}
  <2>1. SUFFICES ASSUME NEW x \in Inside(p) PROVE FALSE
    OBVIOUS
  <2>2. x \in Paths /\ IsPrefix(p, x) /\ p # x /\ Exists(x)
    BY <1>4, InsideIs
  <2>3. IsPrefix(Path(q), x) /\ Path(q) # x
    BY <1>3, <1>4, <2>2, Order
  <2>4. x \in ctx[q].todo
    BY <1>3, <2>2, <2>3, InsideIs
  <2> QED
    BY <1>2, <2>1, <2>4 DEF Inside
<1>6. ~Held(p)
  <2>1. SUFFICES ASSUME Held(p) PROVE FALSE
    OBVIOUS
  <2>2. PICK w \in Requests : w = tree[p].writer /\ pc[w] = "write" /\ FileOf(w) = p
    BY <1>1, <1>4, <2>1 DEF TreeOK, HeldOK, Held, Exists, Node
  <2>3. w \in Active /\ Kind(w) \in {"create", "update"}
    BY <1>1, <2>2 DEF LocalsOK, LocalsOf, Active
  <2>4. IsPrefix(Path(q), Path(w))
    BY <1>1, <1>3, <1>4, <2>2, AboveFile
  <2> QED
    BY <1>3, <2>3, <2>4, NotRemovedMeanwhile
<1>7. tree' = [tree EXCEPT ![p] = None]
  BY <1>2, <1>5, <1>6
<1>8. ASSUME NEW x \in Inside(Path(q))' PROVE x \in ctx'[q].todo
  <2>1. x \in Paths /\ IsPrefix(Path(q), x) /\ Path(q) # x /\ Exists(x)'
    BY <1>3, <1>8 DEF Inside, Under, IsStrictPrefix, Exists
  <2>2. x # p /\ Exists(x)
    BY <1>1, <1>4, <1>7, <2>1 DEF TreeOK, Exists
  <2>3. x \in Inside(Path(q))
    BY <1>3, <2>1, <2>2, InsideIs
  <2> QED
    BY <1>2, <2>2, <2>3
<1> QED
  BY <1>8

\* What a request has made of the directory it works on.
LEMMA AtWorkStep ==
    ASSUME MetaInv, NEW r \in Requests, Step(r), NEW d \in Dirs \ spoiled,
           NEW q \in Requests, pc'[q] # "idle"
    PROVE  AtWork(q, d)'
<1>1. TreeOK /\ HeldOK /\ LocalsOK /\ CountersOK /\ TypeInv /\ Aware
  BY TypeInvIs DEF MetaInv
<1>2. /\ pc[q] # "idle" /\ q \in Active
      /\ Path(q)' = Path(q) /\ Kind(q)' = Kind(q)
      /\ q # r => pc'[q] = pc[q] /\ ctx'[q] = ctx[q]
  BY <1>1, Stays DEF Active
<1>3. \A p \in Active : AtWork(p, d)
  BY DEF MetaInv
<1>4. AtWork(q, d) /\ d \in Paths /\ Path(q) \in Paths /\ Path(q) \in Dirs \cup Versions
  BY <1>1, <1>2, <1>3, OpIs DEF Paths
<1>5. MetaOf(d) \in Paths /\ MetaOf(d) \notin Dirs /\ MetaOf(d) \notin LockerDirs
      /\ Front(MetaOf(d)) = d /\ IsPrefix(d, MetaOf(d))
  BY MetaPaths, KindsDiffer DEF MetaOf, Dirs
<1>6. ~Exists(d) => ~Exists(MetaOf(d))
  BY <1>1, <1>5 DEF TreeOK
\* the directories of what is made are there
<1>7. ASSUME Kind(q) \in {"create", "update"}, IsPrefix(d, Path(q)), pc'[q] \in {"open", "write"}
      PROVE  Exists(d)'
  <2>1. CASE Exists(d)
    BY <1>1, <1>2, <1>7, <2>1, DirStays
  <2>2. CASE ~Exists(d)
    <3>1. q = r
      BY <1>2, <1>4, <1>7, <2>2 DEF AtWork
    <3>2. pc[r] \notin {"open", "write"}
      BY <1>4, <1>7, <2>2, <3>1 DEF AtWork
    <3>3. CASE Absent(r)
      <4>1. \A p \in Paths : IsStrictPrefix(p, Path(r)) => Exists(p)
        BY <1>1, <1>7, <3>1, <3>3, AbsentIs DEF Ended
      <4>2. Path(r) \notin Dirs
        BY <1>1, <1>7, <3>1, <3>3, AbsentIs DEF Ended, Moves
      <4> QED
        BY <1>4, <1>7, <2>2, <3>1, <4>1, <4>2 DEF IsStrictPrefix
    <3>4. CASE MkDir(r)
      <4>1. tree'[d] = [text |-> "dir", writer |-> None]
        BY <1>1, <1>4, <1>7, <2>2, <3>1, <3>4, MkDirIs
      <4>2. [text |-> "dir", writer |-> None] \in Node
        BY DEF Node
      <4> DEFINE n == [text |-> "dir", writer |-> None]
      <4>3. n # None
        BY <4>2, NoneAssumption
      <4> HIDE DEF n
      <4> QED
        BY <4>1, <4>3 DEF Exists, n
    <3>5. CASE DeleteFile(r) /\ Kind(r) = "update"
      <4>1. Exists(Front(FileOf(r))) /\ Path(r) \in Dirs /\ pc[r] = "delete"
        BY <1>1, <1>2, <1>7, <3>1, <3>5, DeleteFileIs, OpIs DEF Ended
      <4>2. Exists(Path(r))
        BY <1>1, <4>1, FileIs
      <4> QED
        BY <1>1, <1>4, <1>7, <2>2, <3>1, <4>2, Above
    <3> QED
      BY <1>1, <1>7, <3>1, <3>2, <3>3, <3>4, <3>5, Came, OpenFileIs
  <2> QED
    BY <2>1, <2>2
<1>8. ASSUME Kind(q) = "create", IsStrictPrefix(d, Path(q)), pc'[q] = "mkdir"
      PROVE  Exists(d)'
  <2>1. Exists(d)
    <3>1. CASE pc[q] = "mkdir"
      BY <1>4, <1>8, <3>1 DEF AtWork
    <3>2. CASE pc[q] # "mkdir"
      <4>1. q = r /\ Absent(r)
        BY <1>1, <1>2, <1>8, <3>2, Came
      <4> QED
        BY <1>1, <1>4, <1>8, <4>1, AbsentIs DEF Ended
    <3> QED
      BY <3>1, <3>2
  <2> QED
    BY <1>1, <1>2, <1>8, <2>1, DirStays DEF IsStrictPrefix
<1>9. ASSUME Kind(q) = "update", Path(q) = d, pc'[q] = "delete"
      PROVE  Exists(d)'
  <2>1. Exists(d)
    <3>1. CASE pc[q] = "delete"
      BY <1>4, <1>9, <3>1 DEF AtWork
    <3>2. CASE pc[q] # "delete"
      <4>1. q = r /\ Exists(FileOf(q))
        BY <1>1, <1>2, <1>9, <3>2, Came
      <4>2. FileOf(q) = MetaOf(d)
        BY <1>1, <1>2, <1>9, FileIs DEF MetaOf
      <4> QED
        BY <1>6, <4>1, <4>2
    <3> QED
      BY <3>1, <3>2
  <2>2. IsPrefix(d, Path(q))
    BY <1>4, <1>9, Order
  <2> QED
    BY <1>1, <1>2, <1>9, <2>1, <2>2, DirStays
\* the directory and its _item.meta are not there before
<1>10. ASSUME Path(q) = d, pc'[q] = "mkdir"
       PROVE  ~Exists(d)' /\ Kind(q) = "create"
  <2>1. Kind(q) = "create" /\ ~Exists(d)
    <3>1. CASE pc[q] = "mkdir"
      BY <1>1, <1>4, <1>10, <3>1 DEF AtWork, LocalsOK, LocalsOf
    <3>2. CASE pc[q] # "mkdir"
      <4>1. q = r /\ Absent(r)
        BY <1>1, <1>2, <1>10, <3>2, Came
      <4> QED
        BY <1>1, <1>10, <4>1, AbsentIs DEF Ended, LocalsOK, LocalsOf
    <3> QED
      BY <3>1, <3>2
  <2>2. SUFFICES ASSUME Exists(d)' PROVE FALSE
    BY <2>1
  <2>3. pc[r] = "mkdir" /\ Kind(r) = "create" /\ IsPrefix(d, Path(r)) /\ MkDir(r)
    BY <1>1, <2>1, <2>2, DirAppears
  <2>4. r # q
    BY <1>1, <1>10, <2>3, MkDirIs DEF Moves
  <2>5. r \in Active /\ Path(r) # d
    BY <1>1, <1>2, <1>10, <2>1, <2>3, <2>4, NotDoneTwice DEF Active
  <2>6. Exists(d)
    BY <1>3, <2>3, <2>5 DEF AtWork, IsStrictPrefix
  <2> QED
    BY <2>1, <2>6
<1>11. ASSUME Path(q) = d, pc'[q] = "open"
       PROVE  ~Exists(MetaOf(d))'
  <2>1. CASE pc[q] = "open"
    <3>1. ~Exists(MetaOf(d))
      BY <1>4, <1>11, <2>1 DEF AtWork
    <3>2. SUFFICES ASSUME Exists(MetaOf(d))' PROVE FALSE
      OBVIOUS
    <3>3. pc[r] = "open" /\ pc'[r] = "write" /\ FileOf(r) = MetaOf(d)
      BY <1>1, <1>5, <3>1, <3>2, Appears
    <3>4. r \in Active /\ Path(r) = d /\ r # q
      BY <1>1, <1>11, <3>3, MetaIsOf DEF Active
    <3>5. Kind(r) \in {"create", "update"} /\ Kind(q) \in {"create", "update"}
      BY <1>1, <2>1, <3>3 DEF LocalsOK, LocalsOf
    <3>6. Kind(r) # Kind(q)
      BY <1>1, <1>2, <1>11, <3>4, <3>5, NotDoneTwice
    <3>7. AtWork(r, d)
      BY <1>3, <3>4
    <3> QED
      BY <1>2, <1>4, <1>11, <2>1, <3>3, <3>4, <3>5, <3>6, <3>7 DEF AtWork
  <2>2. CASE pc[q] # "open"
    <3>1. q = r /\ Path(r) \in Dirs
      BY <1>2, <1>11, <2>2
    <3>2. CASE MkDir(r)
      <4>1. ~Exists(MetaOf(d))
        BY <1>4, <1>6, <1>11, <3>1, <3>2 DEF AtWork, MkDir
      <4>2. ~IsPrefix(MetaOf(d), Path(r))
        BY <1>4, <1>5, <3>1, Order
      <4> QED
        BY <1>1, <1>5, <3>2, <4>1, <4>2, MkDirIs DEF Exists
    <3>3. CASE DeleteFile(r) /\ Kind(r) = "update"
      <4>1. FileOf(r) = MetaOf(d)
        BY <1>1, <1>2, <1>11, <3>1, FileIs DEF MetaOf
      <4>2. tree' = [tree EXCEPT ![MetaOf(d)] = None]
        BY <1>1, <1>11, <3>1, <3>3, <4>1, DeleteFileIs DEF Ended
      <4> QED
        BY <1>1, <1>5, <4>2 DEF TreeOK, Exists
    <3> QED
      BY <1>1, <1>11, <3>1, <3>2, <3>3, Came
  <2> QED
    BY <2>1, <2>2
\* nobody updates what is being created
<1>12. ASSUME Path(q) = d, Kind(q) = "create", pc'[q] \in {"mkdir", "open"},
              NEW p \in Requests, pc'[p] # "idle", Kind(p) = "update", Path(p) = d
       PROVE  pc'[p] = "present"
  <2>1. p \in Active /\ p # q /\ AtWork(p, d) /\ (p # r => pc'[p] = pc[p])
    BY <1>1, <1>3, <1>12, Stays DEF Active
  <2>2. pc[p] = "present"
    <3>1. CASE pc[q] \in {"mkdir", "open"}
      BY <1>4, <1>12, <2>1, <3>1 DEF AtWork
    <3>2. CASE pc[q] \notin {"mkdir", "open"}
      <4>1. q = r /\ Absent(r)
        BY <1>1, <1>2, <1>12, <3>2, Came DEF MkDir
      <4>2. ~Exists(d)
        BY <1>1, <1>12, <4>1, AbsentIs DEF Ended
      <4>3. pc[p] \notin {"open", "write", "delete"}
        BY <1>4, <1>12, <2>1, <4>2, Order DEF AtWork
      <4>4. pc[p] \in {"present", "delete", "open", "write"}
        BY <1>1, <1>12, <2>1 DEF LocalsOK, LocalsOf, Steps, Active
      <4> QED
        BY <4>3, <4>4
    <3> QED
      BY <3>1, <3>2
  <2>3. SUFFICES ASSUME p = r, pc'[p] # "present" PROVE FALSE
    BY <2>1, <2>2
  <2>4. pc'[q] = pc[q] /\ ~Exists(MetaOf(d))
    BY <1>2, <1>4, <1>6, <1>12, <2>1, <2>3 DEF AtWork
  <2>5. Present(r)
    BY <1>1, <2>2, <2>3, AbsentIs, MkDirIs, OpenFileIs, WriteFileIs, DeleteFileIs, SweepIs,
       RmDirIs, ListIs, FindIs, ReadIs, ServeIs DEF Step
  <2>6. Exists(FileOf(r))
    BY <1>1, <1>12, <2>3, <2>5, PresentIs DEF Ended
  <2>7. FileOf(r) = MetaOf(d)
    BY <1>1, <1>12, <2>1, <2>3, FileIs DEF MetaOf, Active
  <2> QED
    BY <2>4, <2>6, <2>7
\* what is in a directory that is swept is on the list
<1>13. ASSUME pc'[q] = "sweep", IsPrefix(Path(q), d)
       PROVE  Inside(Path(q))' \subseteq ctx'[q].todo
  <2>1. CASE q # r
    <3>1. Inside(Path(q)) \subseteq ctx[q].todo /\ pc[q] = "sweep"
      BY <1>2, <1>4, <1>13, <2>1 DEF AtWork
    <3>2. Inside(Path(q))' \subseteq Inside(Path(q))
      BY <1>1, <1>2, <1>13, <3>1, NothingComes
    <3> QED
      BY <1>2, <2>1, <3>1, <3>2
  <2>2. CASE q = r /\ Sweep(r)
    <3>1. Inside(Path(q)) \subseteq ctx[q].todo
      BY <1>4, <1>13, <2>2 DEF AtWork, Sweep
    <3> QED
      BY <1>1, <1>13, <2>2, <3>1, Swept
  <2>3. CASE q = r /\ Present(r) /\ ctx'[r].todo = Inside(Path(r))
    <3>1. tree' = tree
      BY <1>1, <2>3, PresentIs
    <3> QED
      BY <1>2, <2>3, <3>1 DEF Inside, Under, Exists
  <2> QED
    BY <1>1, <1>13, <2>1, <2>2, <2>3, Came
<1>14. (/\ Kind(q) \in {"create", "update"} /\ IsPrefix(d, Path(q)) /\ pc[q] \in {"open", "write"}
        => Exists(d))'
  BY <1>2, <1>7
<1>15. (Kind(q) = "create" /\ IsStrictPrefix(d, Path(q)) /\ pc[q] = "mkdir" => Exists(d))'
  BY <1>2, <1>8
<1>16. (Kind(q) = "update" /\ Path(q) = d /\ pc[q] = "delete" => Exists(d))'
  BY <1>2, <1>9
<1>17. (Path(q) = d /\ pc[q] = "mkdir" => ~Exists(d))'
  BY <1>2, <1>10
<1>18. (Path(q) = d /\ pc[q] = "open" => ~Exists(MetaOf(d)))'
  BY <1>2, <1>11
<1>19. (Path(q) = d /\ Kind(q) = "create" /\ pc[q] \in {"mkdir", "open"} =>
          \A p \in Active : Kind(p) = "update" /\ Path(p) = d => pc[p] = "present")'
  <2>1. SUFFICES ASSUME Path(q) = d, Kind(q) = "create", pc'[q] \in {"mkdir", "open"},
                        NEW p \in Requests, pc'[p] # "idle", Kind(p)' = "update", Path(p)' = d
                 PROVE  pc'[p] = "present"
    BY <1>2 DEF Active
  <2>2. Kind(p)' = Kind(p) /\ Path(p)' = Path(p)
    BY <1>1, <2>1, Stays
  <2> QED
    BY <1>12, <2>1, <2>2
<1>20. (pc[q] = "sweep" /\ IsPrefix(Path(q), d) => Inside(Path(q)) \subseteq ctx[q].todo)'
  BY <1>2, <1>13
<1> QED
  BY <1>14, <1>15, <1>16, <1>17, <1>18, <1>19, <1>20 DEF AtWork

\* What a step does to the _item.meta of such a directory.
LEMMA MetaChanges ==
    ASSUME MetaInv, NEW r \in Requests, Step(r), NEW d \in Dirs \ spoiled,
           Exists(MetaOf(d)), tree'[MetaOf(d)] # tree[MetaOf(d)]
    PROVE  \/ pc'[r] = "open" /\ Path(r) = d
           \/ pc'[r] = "sweep" /\ IsPrefix(Path(r), d)
           \/ /\ Held(MetaOf(d)) /\ tree[MetaOf(d)].writer = r
              /\ \E text \in {"full", "broken"} :
                    /\ tree'[MetaOf(d)] = [text |-> text, writer |-> None]
                    /\ tree[MetaOf(d)].text # "full" => text = "full"
<1>1. TypeInv /\ TreeOK /\ HeldOK /\ LocalsOK /\ CountersOK
  BY TypeInvIs DEF MetaInv
<1>2. MetaOf(d) \in Paths /\ MetaOf(d) \notin Dirs /\ Front(MetaOf(d)) = d /\ d \in Paths
  BY MetaPaths DEF MetaOf, Paths
<1>3. CASE tree'[MetaOf(d)] = None
  <2>1. ~Exists(MetaOf(d))'
    BY <1>3 DEF Exists
  <2>2. \/ DeleteFile(r) /\ pc[r] = "delete" /\ MetaOf(d) = FileOf(r)
        \/ Sweep(r) /\ pc[r] = "sweep" /\ MetaOf(d) \in Under(Path(r))
        \/ RmDir(r) /\ pc[r] = "sweep" /\ MetaOf(d) = Path(r)
    BY <1>1, <1>2, <2>1, Goes
  <2>3. CASE DeleteFile(r) /\ pc[r] = "delete" /\ MetaOf(d) = FileOf(r)
    <3>1. Path(r) = d
      BY <1>1, <2>3, MetaIsOf
    <3>2. Kind(r) = "update"
      BY <1>1, <2>3, <3>1, KindsDiffer DEF LocalsOK, LocalsOf
    <3>3. Moves(r, "open")
      BY <1>1, <2>3, <3>2, DeleteFileIs
    <3> QED
      BY <3>1, <3>3 DEF Moves
  <2>4. CASE Sweep(r) /\ pc[r] = "sweep" /\ MetaOf(d) \in Under(Path(r))
    <3>1. Path(r) \in Paths /\ IsPrefix(Path(r), MetaOf(d)) /\ Path(r) # MetaOf(d)
      BY <1>1, <2>4, OpIs DEF Under, IsStrictPrefix
    <3>2. IsPrefix(Path(r), d)
      BY <1>2, <3>1, Order
    <3> QED
      BY <1>1, <2>4, <3>2, SweepIs DEF Moves
  <2>5. CASE RmDir(r) /\ pc[r] = "sweep" /\ MetaOf(d) = Path(r)
    BY <1>1, <1>2, <2>5 DEF LocalsOK, LocalsOf
  <2> QED
    BY <2>2, <2>3, <2>4, <2>5
<1>4. CASE pc[r] = "open" /\ MetaOf(d) = FileOf(r)
  <2>1. Path(r) = d /\ r \in Active
    BY <1>1, <1>4, MetaIsOf DEF Active
  <2>2. AtWork(r, d)
    BY <2>1 DEF MetaInv
  <2> QED
    BY <1>4, <2>1, <2>2 DEF AtWork
<1> QED
  BY <1>1, <1>2, <1>3, <1>4, Changes

\* A directory that is there has an _item.meta, or somebody is not done with it.
LEMMA MetaStep ==
    ASSUME MetaInv, NEW r \in Requests, Step(r), NEW d \in Dirs \ spoiled, Exists(d)'
    PROVE  Readable(MetaOf(d))' \/ Unfinished(d)'
<1>1. TypeInv /\ TreeOK /\ HeldOK /\ LocalsOK /\ CountersOK
  BY TypeInvIs DEF MetaInv
<1>2. /\ MetaOf(d) \in Paths /\ MetaOf(d) \notin Dirs /\ d \in Paths
      /\ \A p \in Active : AtWork(p, d)
      /\ Exists(d) => Readable(MetaOf(d)) \/ Unfinished(d)
  BY MetaPaths DEF MetaOf, Paths, MetaInv
<1>3. ASSUME NEW s \in Requests,
             (pc'[s] = "sweep" /\ IsPrefix(Path(s), d)) \/ (pc'[s] = "open" /\ Path(s) = d)
      PROVE  Unfinished(d)'
  <2>1. Path(s)' = Path(s) /\ pc'[s] # "idle"
    BY <1>1, <1>3, Stays
  <2> QED
    BY <1>3, <2>1 DEF Unfinished, Active
<1>4. ASSUME NEW s \in Requests, pc'[s] = "write", Path(s) = d,
             tree'[MetaOf(d)] = [text |-> "broken", writer |-> s]
      PROVE  Unfinished(d)'
  <2>1. Path(s)' = Path(s)
    BY <1>1, <1>4, Stays
  <2> QED
    BY <1>4, <2>1 DEF Unfinished, Active
<1>5. CASE ~Exists(d)
  <2>1. MkDir(r) /\ pc[r] = "mkdir" /\ Kind(r) = "create" /\ IsPrefix(d, Path(r)) /\ r \in Active
    BY <1>1, <1>5, DirAppears DEF Active
  <2>2. Path(r) = d
    BY <1>2, <1>5, <2>1 DEF AtWork, IsStrictPrefix
  <2>3. pc'[r] = "open"
    BY <1>1, <2>1, MkDirIs DEF Moves
  <2> QED
    BY <1>3, <2>2, <2>3
<1>6. CASE Readable(MetaOf(d))
  <2>1. CASE tree'[MetaOf(d)] = tree[MetaOf(d)]
    BY <1>6, <2>1 DEF Readable, Held, Exists
  <2>2. CASE tree'[MetaOf(d)] # tree[MetaOf(d)]
    <3>1. Exists(MetaOf(d)) /\ ~Held(MetaOf(d))
      BY <1>6 DEF Readable
    <3> QED
      BY <1>3, <2>2, <3>1, MetaChanges
  <2> QED
    BY <2>1, <2>2
<1>7. ASSUME NEW s \in Active, pc[s] = "sweep", IsPrefix(Path(s), d) PROVE Unfinished(d)'
  <2>1. CASE s # r
    BY <1>1, <1>3, <1>7, <2>1, Moved DEF Moves, Ended, Active
  <2>2. CASE s = r /\ Sweep(r)
    BY <1>1, <1>3, <1>7, <2>2, SweepIs DEF Moves
  <2>3. CASE s = r /\ RmDir(r)
    <3>1. Inside(Path(r)) = {}
      <4>1. Inside(Path(r)) \subseteq ctx[r].todo /\ ctx[r].todo = {}
        BY <1>1, <1>2, <1>7, <2>3, RmDirIs DEF AtWork
      <4> QED
        BY <4>1
    <3>2. Path(r) \in Paths
      BY <1>1, <1>7, <2>3, OpIs
    <3>3. CASE d = Path(r)
      BY <1>1, <1>2, <2>3, <3>1, <3>3, RmDirIs DEF TreeOK, Exists
    <3>4. CASE d # Path(r)
      <4>1. Exists(d)
        BY <1>1, <1>2, <2>3, <3>4, RmDirIs DEF TreeOK, Exists
      <4> QED
        BY <1>2, <1>7, <2>3, <3>1, <3>2, <3>4, <4>1, InsideIs
    <3> QED
      BY <3>3, <3>4
  <2>4. s = r => Sweep(r) \/ RmDir(r)
    BY <1>1, <1>7, AbsentIs, MkDirIs, OpenFileIs, WriteFileIs, PresentIs, DeleteFileIs,
       ListIs, FindIs, ReadIs, ServeIs DEF Step
  <2> QED
    BY <2>1, <2>2, <2>3, <2>4
<1>8. ASSUME NEW s \in Active, pc[s] = "open", Path(s) = d PROVE Unfinished(d)'
  <2>1. CASE s # r
    BY <1>1, <1>3, <1>8, <2>1, Moved DEF Moves, Ended, Active
  <2>2. CASE s = r
    <3>1. OpenFile(r)
      BY <1>1, <1>8, <2>2, AbsentIs, MkDirIs, WriteFileIs, PresentIs, DeleteFileIs, SweepIs,
         RmDirIs, ListIs, FindIs, ReadIs, ServeIs DEF Step
    <3>2. FileOf(r) = MetaOf(d) /\ Front(FileOf(r)) = d
      BY <1>1, <1>8, <2>2, FileIs DEF MetaOf
    <3>3. Exists(d) /\ ~Exists(MetaOf(d))
      <4>1. AtWork(r, d)
        BY <1>2, <1>8, <2>2
      <4>2. Kind(r) \in {"create", "update"} /\ IsPrefix(d, Path(r))
        BY <1>1, <1>2, <1>8, <2>2, Order DEF LocalsOK, LocalsOf
      <4> QED
        BY <1>8, <2>2, <4>1, <4>2 DEF AtWork
    <3>4. /\ Moves(r, "write")
          /\ tree' = [tree EXCEPT ![MetaOf(d)] =
                         [text |-> IF Exists(MetaOf(d)) THEN tree[MetaOf(d)].text ELSE "broken",
                          writer |-> r]]
      BY <1>1, <3>1, <3>2, <3>3, OpenFileIs DEF Held
    <3>5. tree'[MetaOf(d)] = [text |-> "broken", writer |-> r]
      BY <1>1, <1>2, <3>3, <3>4 DEF TreeOK
    <3> QED
      BY <1>4, <1>8, <2>2, <3>4, <3>5 DEF Moves
  <2> QED
    BY <2>1, <2>2
<1>9. ASSUME NEW s \in Active, pc[s] = "write", Path(s) = d,
             tree[MetaOf(d)] = [text |-> "broken", writer |-> s]
      PROVE  Readable(MetaOf(d))' \/ Unfinished(d)'
  <2>1. s \in Requests /\ tree[MetaOf(d)].text = "broken" /\ tree[MetaOf(d)].writer = s
    BY <1>9 DEF Active
  <2>2. s # None /\ [text |-> "broken", writer |-> s] # None /\ [text |-> "full", writer |-> None] # None
    <3> DEFINE n == [text |-> "broken", writer |-> s]
               m == [text |-> "full", writer |-> None]
    <3>1. n \in Node /\ m \in Node
      BY <2>1 DEF Node
    <3> HIDE DEF n, m
    <3>2. n # None /\ m # None /\ s # None
      BY <2>1, <3>1, NoneAssumption
    <3> QED
      BY <3>2 DEF n, m
  <2>3. Exists(MetaOf(d)) /\ Held(MetaOf(d))
    BY <1>9, <2>1, <2>2 DEF Exists, Held
  <2>4. CASE s = r
    <3>1. WriteFile(r)
      BY <1>1, <1>9, <2>4, AbsentIs, MkDirIs, OpenFileIs, PresentIs, DeleteFileIs, SweepIs,
         RmDirIs, ListIs, FindIs, ReadIs, ServeIs DEF Step
    <3>2. FileOf(r) = MetaOf(d)
      BY <1>1, <1>9, <2>4, FileIs DEF MetaOf
    <3>3. tree' = [tree EXCEPT ![MetaOf(d)] = [text |-> "full", writer |-> None]]
      BY <1>1, <2>1, <2>3, <2>4, <3>1, <3>2, WriteFileIs
    <3>4. tree'[MetaOf(d)] = [text |-> "full", writer |-> None]
      BY <1>1, <1>2, <3>3 DEF TreeOK
    <3> QED
      BY <2>2, <3>4 DEF Readable, Held, Exists
  <2>5. CASE s # r
    <3>1. pc'[s] = "write"
      BY <1>1, <1>9, <2>1, <2>5, Moved DEF Moves, Ended
    <3>2. CASE tree'[MetaOf(d)] = tree[MetaOf(d)]
      BY <1>4, <1>9, <2>1, <3>1, <3>2
    <3>3. CASE tree'[MetaOf(d)] # tree[MetaOf(d)]
      BY <1>3, <2>1, <2>3, <2>5, <3>3, MetaChanges
    <3> QED
      BY <3>2, <3>3
  <2> QED
    BY <2>4, <2>5
<1>10. CASE Exists(d) /\ Unfinished(d)
  BY <1>7, <1>8, <1>9, <1>10 DEF Unfinished
<1> QED
  BY <1>2, <1>5, <1>6, <1>10

LEMMA MetaSubmit ==
    ASSUME MetaInv, NEW r \in Requests, NEW op \in Operations, Submit(r, op), NEW d \in Dirs \ spoiled'
    PROVE  /\ \A q \in Active' : AtWork(q, d)'
           /\ Exists(d)' => Readable(MetaOf(d))' \/ Unfinished(d)'
<1>1. TypeInv /\ TreeOK /\ HeldOK /\ LocalsOK /\ CountersOK
  BY TypeInvIs DEF MetaInv
<1>2. tree' = tree /\ d \in Dirs \ spoiled
  BY <1>1, SubmitIs
<1>3. /\ \A q \in Active : AtWork(q, d)
      /\ Exists(d) => Readable(MetaOf(d)) \/ Unfinished(d)
  BY <1>2 DEF MetaInv
<1>4. \A p : (Exists(p)' <=> Exists(p)) /\ (Inside(p)' = Inside(p)) /\ (Readable(p)' <=> Readable(p))
  BY <1>2 DEF Exists, Inside, Under, Readable, Held
<1>5. ASSUME NEW q \in Requests, pc'[q] # "idle" PROVE AtWork(q, d)'
  <2>1. CASE q = r /\ pc'[q] = FirstStep(op)
    <3>1. pc'[q] \in {"absent", "present", "find", "list"}
      BY <2>1, FirstStepIs
    <3> QED
      BY <3>1 DEF AtWork
  <2>2. CASE q # r /\ pc[q] # "idle" /\ pc'[q] = pc[q] /\ Notices(q, op)
             /\ Path(q)' = Path(q) /\ Kind(q)' = Kind(q)
    <3>1. AtWork(q, d) /\ ctx'[q].todo = ctx[q].todo
      BY <1>3, <2>2 DEF Active, Notices
    <3>2. (Path(q) = d /\ Kind(q) = "create" /\ pc[q] \in {"mkdir", "open"} =>
             \A p \in Active : Kind(p) = "update" /\ Path(p) = d => pc[p] = "present")'
      <4>1. SUFFICES ASSUME Path(q) = d, Kind(q) = "create", pc[q] \in {"mkdir", "open"},
                            NEW p \in Requests, pc'[p] # "idle", Kind(p)' = "update", Path(p)' = d
                     PROVE  pc'[p] = "present"
        BY <2>2 DEF Active
      <4>2. CASE p = r /\ pc'[p] = FirstStep(op) /\ Kind(p)' = op.kind
        BY <4>1, <4>2, FirstStepIs
      <4>3. CASE p # r /\ pc[p] # "idle" /\ pc'[p] = pc[p] /\ Path(p)' = Path(p) /\ Kind(p)' = Kind(p)
        BY <3>1, <4>1, <4>3 DEF AtWork, Active
      <4> QED
        BY <1>1, <4>1, <4>2, <4>3, Attends
    <3>3. (/\ Kind(q) \in {"create", "update"} /\ IsPrefix(d, Path(q)) /\ pc[q] \in {"open", "write"}
           => Exists(d))'
      BY <1>4, <2>2, <3>1 DEF AtWork
    <3>4. (Kind(q) = "create" /\ IsStrictPrefix(d, Path(q)) /\ pc[q] = "mkdir" => Exists(d))'
      BY <1>4, <2>2, <3>1 DEF AtWork
    <3>5. (Kind(q) = "update" /\ Path(q) = d /\ pc[q] = "delete" => Exists(d))'
      BY <1>4, <2>2, <3>1 DEF AtWork
    <3>6. (Path(q) = d /\ pc[q] = "mkdir" => ~Exists(d))'
      BY <1>4, <2>2, <3>1 DEF AtWork
    <3>7. (Path(q) = d /\ pc[q] = "open" => ~Exists(MetaOf(d)))'
      BY <1>2, <2>2, <3>1 DEF AtWork, Exists, MetaOf
    <3>8. (pc[q] = "sweep" /\ IsPrefix(Path(q), d) => Inside(Path(q)) \subseteq ctx[q].todo)'
      BY <1>2, <2>2, <3>1 DEF AtWork, Inside, Under, Exists
    <3> QED
      BY <3>2, <3>3, <3>4, <3>5, <3>6, <3>7, <3>8 DEF AtWork
  <2> QED
    BY <1>1, <1>5, <2>1, <2>2, Attends
<1>6. ASSUME Exists(d), Unfinished(d) PROVE Unfinished(d)'
  <2>1. PICK s \in Active :
          \/ pc[s] = "sweep" /\ IsPrefix(Path(s), d)
          \/ pc[s] = "open" /\ Path(s) = d
          \/ pc[s] = "write" /\ Path(s) = d /\ tree[MetaOf(d)] = [text |-> "broken", writer |-> s]
    BY <1>6 DEF Unfinished
  <2>2. s \in Requests /\ pc[s] # "idle" /\ s # r
    BY <1>1, SubmitIs DEF Active
  <2>3. pc'[s] = pc[s]
    BY <1>1, <2>2, SubmitIs DEF LocalsOK
  <2>4. Path(s)' = Path(s)
    BY <1>1, <2>2, <2>3, Attends
  <2> QED
    BY <1>2, <2>1, <2>2, <2>3, <2>4 DEF Unfinished, Active, MetaOf
<1>7. (Exists(d)' <=> Exists(d)) /\ (Readable(MetaOf(d))' <=> Readable(MetaOf(d)))
  BY <1>2 DEF Exists, Readable, Held, MetaOf
<1>8. \A q \in Active' : AtWork(q, d)'
  BY <1>5 DEF Active
<1> QED
  BY <1>3, <1>6, <1>7, <1>8

\* A directory nobody works on: nobody is going to write its _item.meta.
LEMMA QuietIsFinished ==
    ASSUME LocalsOK, NEW d \in Dirs, Quiet(d)
    PROVE  ~Unfinished(d)
<1>1. SUFFICES ASSUME NEW s \in Active,
                      \/ pc[s] = "sweep" /\ IsPrefix(Path(s), d)
                      \/ pc[s] \in {"open", "write"} /\ Path(s) = d
               PROVE  FALSE
  BY DEF Unfinished
<1>2. d \in Paths /\ s \in Requests
  BY DEF Paths, Active
<1>3. IsPrefix(Path(s), d)
  BY <1>1, <1>2, Order
<1>4. Kind(s) # "get"
  BY <1>1, <1>2 DEF LocalsOK, LocalsOf
<1> QED
  BY <1>3, <1>4 DEF Quiet

LEMMA MetaCrash ==
    ASSUME MetaInv, Crash, NEW d \in Dirs \ spoiled'
    PROVE  /\ \A q \in Active' : AtWork(q, d)'
           /\ Exists(d)' => Readable(MetaOf(d))'
<1>1. TypeInv /\ TreeOK /\ HeldOK /\ LocalsOK /\ CountersOK
  BY TypeInvIs DEF MetaInv
<1>2. Active' = {}
  BY <1>1, Stopped DEF Active
<1>3. d \notin spoiled /\ Quiet(d) /\ d \in Paths /\ MetaOf(d) \in Paths /\ MetaOf(d) \notin Dirs
  BY <1>1, CrashIs, MetaPaths DEF Paths, MetaOf
<1>4. SUFFICES ASSUME Exists(d)' PROVE Readable(MetaOf(d))'
  BY <1>2
<1>5. Exists(d)
  BY <1>1, <1>3, <1>4, CrashIs
<1>6. Exists(MetaOf(d)) /\ tree[MetaOf(d)].text = "full"
  BY <1>1, <1>3, <1>5, QuietIsFinished DEF MetaInv, Readable
<1> DEFINE m == MetaOf(d)
<1>7. m \in Paths /\ Exists(m) /\ tree[m].text = "full"
  BY <1>3, <1>6
<1> HIDE DEF m
<1>8. Exists(m)' /\ ~Held(m)' /\ tree'[m].text = "full"
  BY <1>1, <1>7, CrashIs
<1>9. Readable(m)'
  BY <1>8 DEF Readable
<1> QED
  BY <1>9 DEF m

LEMMA MetaNext == MetaInv /\ [Next]_vars => MetaInv'
<1> SUFFICES ASSUME MetaInv, [Next]_vars PROVE MetaInv'
  OBVIOUS
<1>1. TypeInv /\ TypeInv' /\ Aware'
  BY TypeStep, AwareNext DEF MetaInv
<1> SUFFICES ASSUME NEW d \in Dirs \ spoiled'
             PROVE  /\ \A q \in Active' : AtWork(q, d)'
                    /\ Exists(d)' => Readable(MetaOf(d))' \/ Unfinished(d)'
  BY <1>1 DEF MetaInv
<1>2. CASE Crash
  BY <1>2, MetaCrash
<1>3. ASSUME NEW r \in Requests, Step(r)
      PROVE  /\ \A q \in Active' : AtWork(q, d)'
             /\ Exists(d)' => Readable(MetaOf(d))' \/ Unfinished(d)'
  <2>1. d \in Dirs \ spoiled
    BY <1>1, <1>3, Moved
  <2>2. ASSUME NEW q \in Requests, pc'[q] # "idle" PROVE AtWork(q, d)'
    BY <1>3, <2>1, <2>2, AtWorkStep
  <2>3. \A q \in Active' : AtWork(q, d)'
    BY <2>2 DEF Active
  <2> QED
    BY <1>3, <2>1, <2>3, MetaStep
<1>4. CASE \E r \in Requests : \E op \in Operations : Submit(r, op)
  BY <1>4, MetaSubmit
<1>5. CASE UNCHANGED vars
  <2>1. /\ d \in Dirs \ spoiled /\ tree' = tree /\ pc' = pc /\ ctx' = ctx
    BY <1>5 DEF vars, history
  <2>2. /\ \A q \in Active : AtWork(q, d)
        /\ Exists(d) => Readable(MetaOf(d)) \/ Unfinished(d)
    BY <2>1 DEF MetaInv
  <2>3. \A q \in Requests : AtWork(q, d) => AtWork(q, d)'
    BY <2>1 DEF AtWork, Active, Exists, Inside, Under, Path, Kind, MetaOf
  <2>4. Active' = Active /\ (Exists(d)' <=> Exists(d))
        /\ (Readable(MetaOf(d)) => Readable(MetaOf(d))')
    BY <2>1 DEF Active, Exists, Readable, Held, MetaOf
  <2>5. Unfinished(d) => Unfinished(d)'
    BY <2>1 DEF Unfinished, Active, Path, MetaOf
  <2> QED
    BY <2>2, <2>3, <2>4, <2>5 DEF Active
<1> QED
  BY <1>2, <1>3, <1>4, <1>5 DEF Next

LEMMA MetaInit == Init => MetaInv
<1> SUFFICES ASSUME Init PROVE MetaInv
  OBVIOUS
<1>1. Active = {} /\ \A d \in Dirs : ~Exists(d)
  BY DEF Init, Active, Exists, Paths
<1>2. Aware
  BY <1>1 DEF Aware
<1> QED
  BY <1>1, <1>2, TypeInit DEF MetaInv

\* Every secret and locker that is there has an _item.meta that can be read, when
\* nobody works on it: a directory is made after it was looked for and before its
\* file, an update deletes a file it writes next, a removal takes the file and then
\* the directory, and nobody else comes between, unless the directory was spoiled.
THEOREM EveryDirectoryIsReadable == Spec => []MetaIsReadable
<1>1. MetaInv => MetaIsReadable
  BY TypeInvIs, QuietIsFinished DEF MetaInv, MetaIsReadable, MetaOf
<1> QED
  BY <1>1, MetaInit, MetaNext, PTL DEF Spec

=============================================================================
