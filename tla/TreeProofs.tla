----------------------------- MODULE TreeProofs -----------------------------
(***************************************************************************)
(* Proofs about the two suites whose threads build a tree of files and     *)
(* take it down again.                                                     *)
(*                                                                         *)
(* fsstress, for every number of threads, operations, pages and files: a   *)
(* path is computed by recursion over the list of a thread, so the first   *)
(* part shows that the recursion has a value and what it depends on: an    *)
(* entry keeps its path for as long as it is listed.  Inv is the inductive *)
(* invariant.                                                              *)
(*                                                                         *)
(* smallfile, for every number of threads and files and every invocation:  *)
(* SmallfileInv is the inductive invariant, in two parts.  Control is      *)
(* about the loops of run_phase and holds with faults too; Tracks says     *)
(* which directories, names and attributes every phase finds and leaves    *)
(* when there are none.                                                    *)
(***************************************************************************)
EXTENDS Fsstress, Smallfile, Sums, FunctionTheorems

-----------------------------------------------------------------------------
(* fsstress: names and paths. *)


PathNames == Types \X Nat
Paths == Seq(PathNames)
Entries == [type : Types, id : Nat, parent : Nat]

-----------------------------------------------------------------------------
(* The path of a directory, as a function of the directories of a thread.  *)

StepUp(D, f, k) ==
  IF \E d \in D : d.id = k
    THEN LET d == CHOOSE d \in D : d.id = k
         IN Append(IF d.parent < k THEN f[d.parent] ELSE Base, Name("dir", k))
    ELSE Base

Climbs(D, id, f) == f = [k \in 0..id |-> StepUp(D, f, k)]
PathIn(D, id) == (CHOOSE f : Climbs(D, id, f))[id]
PathOf(D, e) ==
  Append(IF e.parent = e.id THEN Base ELSE PathIn(D, e.parent), Name(e.type, e.id))

\* directories: numbered without repetition, below one with a smaller number
Tidy(D) ==
  /\ D \subseteq {e \in Entries : e.type = "dir"}
  /\ \A d, e \in D : d.id = e.id => d = e
  /\ \A d \in D : d.parent <= d.id

\* the directory an entry is in is one of D
Inside(D, e) == e.parent # e.id => \E d \in D : d.id = e.parent

LEMMA PathsOfThread ==
  ASSUME NEW t, NEW e
  PROVE  FentToName(t, e) = PathOf(Dirs(t), e)
<1>1. \A id : DirName(t, id) = PathIn(Dirs(t), id)
  BY DEF DirName, PathIn, Climbs, StepUp
<1> QED
  BY <1>1 DEF FentToName, PathOf

LEMMA StepUpType ==
  ASSUME NEW D, Tidy(D), NEW k \in Nat, NEW f,
         \A j \in Nat : j < k => f[j] \in Paths
  PROVE  StepUp(D, f, k) \in Paths
<1>1. Base \in Paths /\ Name("dir", k) \in PathNames
  BY DEF Base, Paths, PathNames, Name, Types
<1>2. CASE \E d \in D : d.id = k
  <2>1. PICK d \in D : d = (CHOOSE c \in D : c.id = k)
    BY <1>2
  <2>2. d.parent \in Nat
    BY <2>1 DEF Tidy, Entries
  <2>3. (IF d.parent < k THEN f[d.parent] ELSE Base) \in Paths
    BY <1>1, <2>2
  <2>4. StepUp(D, f, k) = Append(IF d.parent < k THEN f[d.parent] ELSE Base, Name("dir", k))
    BY <1>2, <2>1 DEF StepUp
  <2> QED
    BY <1>1, <2>3, <2>4 DEF Paths
<1>3. CASE ~\E d \in D : d.id = k
  BY <1>1, <1>3 DEF StepUp
<1> QED
  BY <1>2, <1>3

\* a step looks at smaller numbers only
LEMMA StepUpSame ==
  ASSUME NEW D, Tidy(D), NEW k \in Nat, NEW f, NEW g,
         \A j \in Nat : j < k => f[j] = g[j]
  PROVE  StepUp(D, f, k) = StepUp(D, g, k)
<1>1. CASE \E d \in D : d.id = k
  <2>1. PICK d \in D : d = (CHOOSE c \in D : c.id = k)
    BY <1>1
  <2>2. d.parent \in Nat
    BY <2>1 DEF Tidy, Entries
  <2>3. /\ StepUp(D, f, k) = Append(IF d.parent < k THEN f[d.parent] ELSE Base, Name("dir", k))
        /\ StepUp(D, g, k) = Append(IF d.parent < k THEN g[d.parent] ELSE Base, Name("dir", k))
    BY <1>1, <2>1 DEF StepUp
  <2> QED
    BY <2>2, <2>3
<1>2. CASE ~\E d \in D : d.id = k
  BY <1>2 DEF StepUp
<1> QED
  BY <1>1, <1>2

LEMMA ClimbsUpTo ==
  ASSUME NEW D, Tidy(D), NEW id \in Nat, NEW n \in Nat
  PROVE  \E f \in [0..id -> Paths] : \A k \in 0..id : k <= n => f[k] = StepUp(D, f, k)
<1> DEFINE Good(f, m) == \A k \in 0..id : k <= m => f[k] = StepUp(D, f, k)
           Bad == {m \in Nat : ~\E f \in [0..id -> Paths] : Good(f, m)}
<1>0. SUFFICES ASSUME Bad # {} PROVE FALSE
  OBVIOUS
<1>1. PICK m \in Bad : \A k \in Bad : m <= k
  <2>1. Bad \in SUBSET Nat
    OBVIOUS
  <2> QED
    BY <1>0, <2>1, LeastNumber
<1>2. PICK g \in [0..id -> Paths] : m = 0 \/ Good(g, m - 1)
  <2>1. CASE m = 0
    <3>1. Base \in Paths
      BY DEF Base, Paths
    <3>2. [k \in 0..id |-> Base] \in [0..id -> Paths]
      BY <3>1
    <3> QED
      BY <2>1, <3>2
  <2>2. CASE m # 0
    <3>1. m - 1 \in Nat /\ ~(m <= m - 1)
      BY <2>2
    <3>2. m - 1 \notin Bad
      BY <1>1, <3>1
    <3> QED
      BY <3>1, <3>2
  <2> QED
    BY <2>1, <2>2
<1> DEFINE h == [k \in 0..id |-> IF k <= m THEN StepUp(D, g, k) ELSE Base]
<1>3. ASSUME NEW k \in 0..id PROVE StepUp(D, g, k) \in Paths
  <2>1. k \in Nat /\ \A j \in Nat : j < k => g[j] \in Paths
    BY <1>2
  <2> QED
    BY <2>1, StepUpType
<1>4. h \in [0..id -> Paths]
  <2>1. Base \in Paths
    BY DEF Base, Paths
  <2> QED
    BY <1>3, <2>1
<1>5. ASSUME NEW k \in 0..id, k <= m
      PROVE  h[k] = StepUp(D, h, k)
  <2>1. \A j \in Nat : j < k => g[j] = h[j]
    <3> TAKE j \in Nat
    <3>1. CASE j < k
      <4>1. j \in 0..id /\ j <= m /\ m # 0 /\ j <= m - 1
        BY <1>5, <3>1
      <4> QED
        BY <4>1, <1>2
    <3> QED
      BY <3>1
  <2>2. k \in Nat /\ h[k] = StepUp(D, g, k)
    BY <1>5
  <2> HIDE DEF h
  <2> QED
    BY <2>1, <2>2, StepUpSame
<1> HIDE DEF h
<1>6. Good(h, m)
  BY <1>5
<1> QED
  BY <1>1, <1>4, <1>6

LEMMA ClimbsExists ==
  ASSUME NEW D, Tidy(D), NEW id \in Nat
  PROVE  \E f : Climbs(D, id, f)
<1>1. PICK f \in [0..id -> Paths] : \A k \in 0..id : k <= id => f[k] = StepUp(D, f, k)
  BY ClimbsUpTo
<1>2. \A k \in 0..id : f[k] = StepUp(D, f, k)
  BY <1>1
<1> QED
  BY <1>1, <1>2 DEF Climbs

\* two solutions agree where both are defined
LEMMA ClimbsUnique ==
  ASSUME NEW D, Tidy(D), NEW i \in Nat, NEW j \in Nat, NEW f, NEW g,
         Climbs(D, i, f), Climbs(D, j, g), NEW k \in Nat, k <= i, k <= j
  PROVE  f[k] = g[k]
<1> DEFINE Bad == {m \in Nat : m <= i /\ m <= j /\ f[m] # g[m]}
<1>1. Bad = {}
  <2> SUFFICES ASSUME Bad # {} PROVE FALSE
    OBVIOUS
  <2>1. PICK m \in Bad : \A n \in Bad : m <= n
    <3>1. Bad \in SUBSET Nat
      OBVIOUS
    <3> QED
      BY <3>1, LeastNumber
  <2>2. \A n \in Nat : n < m => f[n] = g[n]
    BY <2>1
  <2>3. StepUp(D, f, m) = StepUp(D, g, m)
    BY <2>1, <2>2, StepUpSame
  <2>4. m \in 0..i /\ m \in 0..j
    BY <2>1
  <2>5. f[m] = StepUp(D, f, m) /\ g[m] = StepUp(D, g, m)
    BY <2>4 DEF Climbs
  <2> QED
    BY <2>1, <2>3, <2>5
<1> QED
  BY <1>1

\* what the recursion says
LEMMA PathInStep ==
  ASSUME NEW D, Tidy(D), NEW id \in Nat
  PROVE  /\ (\A d \in D : d.id # id) => PathIn(D, id) = Base
         /\ \A d \in D : d.id = id =>
              PathIn(D, id) =
                Append(IF d.parent < id THEN PathIn(D, d.parent) ELSE Base, Name("dir", id))
<1>1. ASSUME NEW k \in Nat
      PROVE  Climbs(D, k, CHOOSE f : Climbs(D, k, f))
  BY ClimbsExists
<1>2. PICK f : f = (CHOOSE g : Climbs(D, id, g)) /\ Climbs(D, id, f)
  BY <1>1
<1>3. id \in 0..id
  OBVIOUS
<1>4. PathIn(D, id) = StepUp(D, f, id)
  BY <1>2, <1>3 DEF PathIn, Climbs
<1>5. CASE \A d \in D : d.id # id
  BY <1>4, <1>5 DEF StepUp
<1>6. ASSUME NEW d \in D, d.id = id
      PROVE  PathIn(D, id) =
               Append(IF d.parent < id THEN PathIn(D, d.parent) ELSE Base, Name("dir", id))
  <2>1. d = CHOOSE c \in D : c.id = id
    BY <1>6 DEF Tidy
  <2>2. PathIn(D, id) = Append(IF d.parent < id THEN f[d.parent] ELSE Base, Name("dir", id))
    BY <1>4, <1>6, <2>1 DEF StepUp
  <2>3. d.parent \in Nat
    BY <1>6 DEF Tidy, Entries
  <2>4. CASE d.parent < id
    <3>1. PICK g : g = (CHOOSE h : Climbs(D, d.parent, h)) /\ Climbs(D, d.parent, g)
      BY <1>1, <2>3
    <3>2. g[d.parent] = f[d.parent]
      <4>1. d.parent <= id /\ d.parent <= d.parent
        BY <2>3, <2>4
      <4>2. Climbs(D, d.parent, g) /\ Climbs(D, id, f) /\ Tidy(D)
        BY <1>2, <3>1
      <4> DEFINE p == d.parent
      <4>3. p \in Nat /\ p <= id /\ p <= p /\ Climbs(D, p, g)
        BY <2>3, <4>1, <4>2
      <4> HIDE DEF p
      <4>4. g[p] = f[p]
        BY <4>2, <4>3, ClimbsUnique
      <4> QED
        BY <4>4 DEF p
    <3>3. PathIn(D, d.parent) = g[d.parent]
      BY <3>1 DEF PathIn
    <3> QED
      BY <2>2, <2>4, <3>2, <3>3
  <2> QED
    BY <2>2, <2>4
<1> QED
  BY <1>5, <1>6

LEMMA PathInType ==
  ASSUME NEW D, Tidy(D), NEW id \in Nat
  PROVE  PathIn(D, id) \in Paths
<1> DEFINE Bad == {k \in Nat : PathIn(D, k) \notin Paths}
<1>1. Bad = {}
  <2> SUFFICES ASSUME Bad # {} PROVE FALSE
    OBVIOUS
  <2>1. PICK m \in Bad : \A n \in Bad : m <= n
    <3>1. Bad \in SUBSET Nat
      OBVIOUS
    <3> QED
      BY <3>1, LeastNumber
  <2>2. Base \in Paths /\ Name("dir", m) \in PathNames
    BY <2>1 DEF Base, Paths, PathNames, Name, Types
  <2>3. PICK d \in D : d.id = m
    BY <2>1, <2>2, PathInStep
  <2>4. d.parent \in Nat /\ (d.parent < m => PathIn(D, d.parent) \in Paths)
    BY <2>1 DEF Tidy, Entries
  <2>5. (IF d.parent < m THEN PathIn(D, d.parent) ELSE Base) \in Paths
    BY <2>2, <2>4
  <2>6. PathIn(D, m) =
          Append(IF d.parent < m THEN PathIn(D, d.parent) ELSE Base, Name("dir", m))
    BY <2>1, <2>3, PathInStep
  <2>7. PathIn(D, m) \in Paths
    BY <2>2, <2>5, <2>6 DEF Paths
  <2> QED
    BY <2>1, <2>7
<1> QED
  BY <1>1

\* the directories of D and of E have the same paths as far as K, if they are the
\* same there and K is closed under parents
LEMMA PathsSame ==
  ASSUME NEW D, NEW E, Tidy(D), Tidy(E), NEW K \in SUBSET Nat,
         \A d \in D \cup E : d.id \in K =>
           /\ d \in D /\ d \in E
           /\ d.parent < d.id => d.parent \in K
  PROVE  \A k \in K : PathIn(D, k) = PathIn(E, k)
<1> DEFINE Bad == {k \in K : PathIn(D, k) # PathIn(E, k)}
<1>1. Bad = {}
  <2> SUFFICES ASSUME Bad # {} PROVE FALSE
    OBVIOUS
  <2>1. PICK m \in Bad : \A n \in Bad : m <= n
    <3>1. Bad \in SUBSET Nat
      OBVIOUS
    <3> QED
      BY <3>1, LeastNumber
  <2>2. m \in Nat /\ m \in K
    BY <2>1
  <2>3. CASE \E d \in D \cup E : d.id = m
    <3>1. PICK d \in D : d \in E /\ d.id = m /\ (d.parent < m => d.parent \in K)
      BY <2>2, <2>3
    <3>2. d.parent \in Nat
      BY <3>1 DEF Tidy, Entries
    <3>3. d.parent < m => PathIn(D, d.parent) = PathIn(E, d.parent)
      BY <2>1, <2>2, <3>1, <3>2
    <3>4. /\ PathIn(D, m) =
               Append(IF d.parent < m THEN PathIn(D, d.parent) ELSE Base, Name("dir", m))
          /\ PathIn(E, m) =
               Append(IF d.parent < m THEN PathIn(E, d.parent) ELSE Base, Name("dir", m))
      BY <2>2, <3>1, PathInStep
    <3> QED
      BY <2>1, <3>3, <3>4
  <2>4. CASE ~\E d \in D \cup E : d.id = m
    <3>1. (\A d \in D : d.id # m) /\ (\A d \in E : d.id # m)
      BY <2>4
    <3>2. PathIn(D, m) = Base /\ PathIn(E, m) = Base
      BY <2>2, <3>1, PathInStep
    <3> QED
      BY <2>1, <3>2
  <2> QED
    BY <2>3, <2>4
<1> QED
  BY <1>1

\* the path of an entry is the path of its directory and its own name
LEMMA PathOfType ==
  ASSUME NEW D, Tidy(D), NEW e \in Entries
  PROVE  \E q \in Paths : /\ PathOf(D, e) = Append(q, Name(e.type, e.id))
                          /\ q = IF e.parent = e.id THEN Base ELSE PathIn(D, e.parent)
<1>1. e.parent \in Nat
  BY DEF Entries
<1>2. Base \in Paths /\ PathIn(D, e.parent) \in Paths
  BY <1>1, PathInType DEF Base, Paths
<1> QED
  BY <1>2 DEF PathOf

LEMMA DirectoryPath ==
  ASSUME NEW D, Tidy(D), NEW d \in D
  PROVE  PathOf(D, d) = PathIn(D, d.id)
<1>1. d \in Entries /\ d.type = "dir" /\ d.parent <= d.id /\ d.id \in Nat /\ d.parent \in Nat
  BY DEF Tidy, Entries
<1>2. PathIn(D, d.id) =
        Append(IF d.parent < d.id THEN PathIn(D, d.parent) ELSE Base, Name("dir", d.id))
  BY <1>1, PathInStep
<1>3. d.parent < d.id <=> d.parent # d.id
  BY <1>1
<1> QED
  BY <1>1, <1>2, <1>3 DEF PathOf

\* facts about sequences, for paths
LEMMA Appended ==
  ASSUME NEW p \in Paths, NEW n \in PathNames
  PROVE  /\ Append(p, n) \in Paths /\ Append(p, n) # Base
         /\ Len(Append(p, n)) = Len(p) + 1 /\ Len(p) \in Nat
         /\ Append(p, n)[Len(p) + 1] = n
         /\ Parent(Append(p, n)) = p
         /\ \A i \in 1..Len(p) : Append(p, n)[i] = p[i]
         /\ p = Base <=> Len(p) = 0
<1>1. /\ Append(p, n) \in Paths /\ Len(Append(p, n)) = Len(p) + 1 /\ Len(p) \in Nat
      /\ Append(p, n)[Len(p) + 1] = n /\ \A i \in 1..Len(p) : Append(p, n)[i] = p[i]
  BY DEF Paths
<1>2. Append(p, n) # Base /\ (p = Base <=> Len(p) = 0)
  BY <1>1 DEF Paths, Base
<1>3. Parent(Append(p, n)) = p
  <2> DEFINE s == Append(p, n)
  <2>1. s \in Seq(PathNames) /\ Len(s) - 1 = Len(p) /\ \A i \in 1..Len(p) : s[i] = p[i]
    BY <1>1 DEF Paths
  <2>2. Parent(s) = SubSeq(s, 1, Len(p))
    BY <2>1 DEF Parent
  <2>3. SubSeq(s, 1, Len(p)) \in Seq(PathNames) /\ Len(SubSeq(s, 1, Len(p))) = Len(p)
        /\ \A i \in 1..Len(p) : SubSeq(s, 1, Len(p))[i] = s[i]
    BY <1>1, <2>1
  <2>4. SubSeq(s, 1, Len(p)) = p
    BY <2>1, <2>3 DEF Paths
  <2> QED
    BY <2>2, <2>4
<1> QED
  BY <1>1, <1>2, <1>3

LEMMA AppendsDiffer ==
  ASSUME NEW p \in Paths, NEW q \in Paths, NEW m \in PathNames, NEW n \in PathNames,
         Append(p, m) = Append(q, n)
  PROVE  p = q /\ m = n
<1>1. p = Parent(Append(p, m)) /\ m = Append(p, m)[Len(p) + 1]
  BY Appended
<1>2. q = Parent(Append(q, n)) /\ n = Append(q, n)[Len(q) + 1]
  BY Appended
<1> QED
  BY <1>1, <1>2

\* the directories of a thread hang from one of them in the base directory
LEMMA Rooted ==
  ASSUME NEW D, Tidy(D), \A d \in D : Inside(D, d), NEW e \in D
  PROVE  \E r \in D : /\ r.parent = r.id
                      /\ Len(PathIn(D, e.id)) \in Nat \ {0}
                      /\ PathIn(D, e.id)[1] = Name("dir", r.id)
<1> DEFINE Right(k) == \E r \in D : /\ r.parent = r.id
                                    /\ Len(PathIn(D, k)) \in Nat \ {0}
                                    /\ PathIn(D, k)[1] = Name("dir", r.id)
           Bad == {k \in Nat : (\E d \in D : d.id = k) /\ ~Right(k)}
<1>1. Bad = {}
  <2> SUFFICES ASSUME Bad # {} PROVE FALSE
    OBVIOUS
  <2>1. PICK m \in Bad : \A n \in Bad : m <= n
    <3>1. Bad \in SUBSET Nat
      OBVIOUS
    <3> QED
      BY <3>1, LeastNumber
  <2>2. PICK d \in D : d.id = m
    BY <2>1
  <2>3. d.parent \in Nat /\ d.parent <= m /\ m \in Nat /\ Name("dir", m) \in PathNames
        /\ Base \in Paths
    BY <2>1, <2>2 DEF Tidy, Entries, PathNames, Name, Types, Base, Paths
  <2>4. PathIn(D, m) =
          Append(IF d.parent < m THEN PathIn(D, d.parent) ELSE Base, Name("dir", m))
    BY <2>2, <2>3, PathInStep
  <2>5. CASE d.parent = m
    <3>1. PathIn(D, m) = Append(Base, Name("dir", m))
      BY <2>3, <2>4, <2>5
    <3>2. Len(Base) = 0
      BY DEF Base
    <3>3. Len(PathIn(D, m)) = 1 /\ PathIn(D, m)[1] = Name("dir", m)
      BY <2>3, <3>1, <3>2, Appended
    <3>4. Right(m)
      BY <2>2, <2>5, <3>3
    <3> QED
      BY <2>1, <3>4
  <2>6. CASE d.parent # m
    <3>1. PICK c \in D : c.id = d.parent
      BY <2>2, <2>6 DEF Inside
    <3>2. d.parent < m
      BY <2>3, <2>6
    <3>3. d.parent \notin Bad
      BY <2>1, <2>3, <3>2
    <3>4. Right(d.parent)
      BY <2>3, <3>1, <3>3
    <3>5. PICK r \in D : /\ r.parent = r.id
                         /\ Len(PathIn(D, d.parent)) \in Nat \ {0}
                         /\ PathIn(D, d.parent)[1] = Name("dir", r.id)
      BY <3>4
    <3>6. /\ PathIn(D, d.parent) \in Paths
          /\ PathIn(D, m) = Append(PathIn(D, d.parent), Name("dir", m))
      BY <2>3, <2>4, <3>2, PathInType
    <3>7. 1 \in 1..Len(PathIn(D, d.parent))
      BY <3>5
    <3>8. PathIn(D, m)[1] = Name("dir", r.id) /\ Len(PathIn(D, m)) \in Nat \ {0}
      BY <2>3, <3>5, <3>6, <3>7, Appended
    <3>9. Right(m)
      BY <3>5, <3>8
    <3> QED
      BY <2>1, <3>9
  <2> QED
    BY <2>5, <2>6
<1>2. e.id \in Nat
  BY DEF Tidy, Entries
<1> QED
  BY <1>1, <1>2

-----------------------------------------------------------------------------
(* The list of a thread, and what an operation may do with it.              *)

DirsOf(L) == {e \in L : e.type = "dir"}

\* the entries of a thread that has taken n names
Sound(L, n) ==
  /\ L \subseteq Entries
  /\ \A e \in L : e.id < n /\ e.parent <= e.id
  /\ \A e, f \in L : e.id = f.id => e = f
  /\ \A e \in L : Inside(DirsOf(L), e)

\* the entries of X have the same paths with the list M as with L
Keeps(X, L, M) == \A f \in X : PathOf(DirsOf(M), f) = PathOf(DirsOf(L), f)

\* an entry of generate_name
New(L, n, e) ==
  /\ e \in Entries /\ e.id = n
  /\ e.parent = n \/ \E d \in DirsOf(L) : d.id = e.parent

LEMMA SoundTidy ==
  ASSUME NEW L, NEW n, Sound(L, n)
  PROVE  Tidy(DirsOf(L)) /\ \A d \in DirsOf(L) : Inside(DirsOf(L), d)
BY DEF Sound, Tidy, DirsOf

\* an entry is added, and entries of other types than directories may go
LEMMA Grow ==
  ASSUME NEW L, NEW n \in Nat, Sound(L, n), NEW S, S \cap DirsOf(L) = {},
         NEW e, New(L, n, e), NEW M, M = (L \ S) \cup {e}
  PROVE  Sound(M, n + 1) /\ Keeps(L \cup {e}, L, M)
<1> DEFINE D == DirsOf(L)
           E == DirsOf(M)
<1>1. M \subseteq Entries /\ D \subseteq E /\ E \subseteq D \cup {e}
  BY DEF Sound, New, DirsOf
<1>2. \A f \in L : f.id \in Nat /\ f.parent \in Nat /\ f.id < n /\ f.parent <= f.id
  BY DEF Sound, Entries
<1>3. e.id = n /\ e.parent \in Nat /\ e.parent <= n
      /\ (e.parent = n \/ \E d \in D : d.id = e.parent)
  <2>1. e.id = n /\ e.parent \in Nat /\ (e.parent = n \/ \E d \in D : d.id = e.parent)
    BY DEF New, Entries
  <2>2. \A d \in D : d.id <= n
    BY <1>2 DEF DirsOf
  <2> QED
    BY <2>1, <2>2
<1>4. \A f \in M : f.id < n + 1 /\ f.parent <= f.id
  BY <1>2, <1>3
<1>5. \A f, g \in M : f.id = g.id => f = g
  <2> TAKE f, g \in M
  <2>1. CASE f \in L /\ g \in L
    BY <2>1 DEF Sound
  <2>2. CASE f = e \/ g = e
    BY <2>2, <1>2, <1>3
  <2> QED
    BY <2>1, <2>2
<1>6. \A f \in M : Inside(E, f)
  <2> TAKE f \in M
  <2>1. CASE f \in L
    BY <2>1, <1>1 DEF Sound, Inside
  <2>2. CASE f = e
    BY <2>2, <1>1, <1>3 DEF Inside
  <2> QED
    BY <2>1, <2>2
<1>7. Sound(M, n + 1)
  BY <1>1, <1>4, <1>5, <1>6 DEF Sound
<1>8. Tidy(D) /\ Tidy(E)
  BY <1>7, SoundTidy
<1>9. \A k \in 0..n-1 : PathIn(E, k) = PathIn(D, k)
  <2> DEFINE K == 0..n-1
  <2>1. \A d \in E \cup D : d.id \in K =>
          d \in E /\ d \in D /\ (d.parent < d.id => d.parent \in K)
    <3> TAKE d \in E \cup D
    <3>1. CASE d \in D
      <4>1. d \in L
        BY <3>1 DEF DirsOf
      <4>2. d \in E
        BY <3>1, <1>1
      <4>3. d.parent < d.id => d.parent \in 0..n-1
        BY <4>1, <1>2
      <4> QED
        BY <3>1, <4>2, <4>3
    <3>2. CASE d = e
      BY <3>2, <1>3
    <3> QED
      BY <3>1, <3>2, <1>1
  <2>2. K \in SUBSET Nat
    OBVIOUS
  <2> HIDE DEF K, D, E
  <2>3. \A k \in K : PathIn(E, k) = PathIn(D, k)
    BY <1>8, <2>1, <2>2, PathsSame
  <2> QED
    BY <2>3 DEF K
<1>10. \A f \in L \cup {e} : f.parent # f.id => f.parent \in 0..n-1
  BY <1>2, <1>3
<1> HIDE DEF D, E
<1>11. \A f \in L \cup {e} : PathOf(E, f) = PathOf(D, f)
  BY <1>9, <1>10 DEF PathOf
<1> QED
  BY <1>7, <1>11 DEF D, E, Keeps

\* an entry goes that is not the directory of another
LEMMA Shrink ==
  ASSUME NEW L, NEW n \in Nat, Sound(L, n), NEW e \in L,
         \A f \in L : e.type = "dir" /\ f.parent = e.id => f.parent = f.id,
         NEW M, M = L \ {e}
  PROVE  Sound(M, n) /\ Keeps(M, L, M)
<1> DEFINE D == DirsOf(L)
           E == DirsOf(M)
<1>1. M \subseteq Entries /\ E \subseteq D /\ D \subseteq E \cup {e}
  BY DEF Sound, DirsOf
<1>2. \A f \in M : Inside(E, f)
  <2> SUFFICES ASSUME NEW f \in M, f.parent # f.id
               PROVE  \E d \in E : d.id = f.parent
    BY DEF Inside
  <2>1. PICK d \in D : d.id = f.parent
    BY DEF Sound, Inside
  <2>2. d # e
    BY <2>1 DEF DirsOf
  <2> QED
    BY <1>1, <2>1, <2>2
<1>3. Sound(M, n)
  BY <1>1, <1>2 DEF Sound
<1>4. Tidy(D) /\ Tidy(E)
  BY <1>3, SoundTidy
<1> DEFINE K == {k \in Nat : e.type = "dir" => k # e.id}
<1>5. \A d \in E \cup D : d.id \in K =>
        d \in E /\ d \in D /\ (d.parent < d.id => d.parent \in K)
  <2> SUFFICES ASSUME NEW d \in D, d.id \in K
               PROVE  d \in E /\ (d.parent < d.id => d.parent \in K)
    BY <1>1
  <2>1. d \in L /\ d.type = "dir" /\ d.id \in Nat /\ d.parent \in Nat
    BY <1>4 DEF DirsOf, Tidy, Entries
  <2>2. d # e
    BY <2>1
  <2>3. d.parent < d.id => d.parent # d.id
    BY <2>1
  <2> QED
    BY <1>1, <2>1, <2>2, <2>3
<1>6. \A k \in K : PathIn(E, k) = PathIn(D, k)
  <2>1. K \in SUBSET Nat
    OBVIOUS
  <2> HIDE DEF K, D, E
  <2> QED
    BY <1>4, <1>5, <2>1, PathsSame
<1>7. \A f \in M : f.parent # f.id => f.parent \in K
  BY <1>1 DEF Entries
<1> HIDE DEF D, E, K
<1>8. \A f \in M : PathOf(E, f) = PathOf(D, f)
  BY <1>6, <1>7 DEF PathOf
<1> QED
  BY <1>3, <1>8 DEF D, E, Keeps

\* an entry below a directory, or a directory: one whose path cannot be lost
Claimed(e) == e.parent # e.id \/ e.type = "dir"

\* where the paths of a list begin: one that is claimed in a directory that the
\* thread has made in the base directory, the others in the base directory itself
LEMMA PathBegins ==
  ASSUME NEW L, NEW n \in Nat, Sound(L, n), NEW e \in L
  PROVE  /\ PathOf(DirsOf(L), e) \in Paths \ {Base}
         /\ Claimed(e) =>
              \E r \in DirsOf(L) : /\ r.parent = r.id
                                   /\ PathOf(DirsOf(L), e)[1] = Name("dir", r.id)
         /\ e.parent = e.id =>
              /\ PathOf(DirsOf(L), e)[1] = Name(e.type, e.id)
              /\ Len(PathOf(DirsOf(L), e)) = 1
         /\ e.parent # e.id => Len(PathOf(DirsOf(L), e)) > 1
         /\ PathOf(DirsOf(L), e)[Len(PathOf(DirsOf(L), e))] = Name(e.type, e.id)
<1> DEFINE D == DirsOf(L)
<1>1. Tidy(D) /\ e \in Entries /\ \A d \in D : Inside(D, d)
  BY SoundTidy DEF Sound
<1>2. Name(e.type, e.id) \in PathNames /\ e.parent \in Nat
  BY <1>1 DEF Entries, Name, PathNames
<1> HIDE DEF D
<1>3. PICK q \in Paths : /\ PathOf(D, e) = Append(q, Name(e.type, e.id))
                         /\ q = IF e.parent = e.id THEN Base ELSE PathIn(D, e.parent)
  BY <1>1, PathOfType
<1>4. /\ PathOf(D, e) \in Paths \ {Base} /\ Len(PathOf(D, e)) = Len(q) + 1 /\ Len(q) \in Nat
      /\ PathOf(D, e)[Len(PathOf(D, e))] = Name(e.type, e.id)
      /\ \A i \in 1..Len(q) : PathOf(D, e)[i] = q[i]
      /\ q = Base <=> Len(q) = 0
  BY <1>2, <1>3, Appended
<1>5. CASE e.parent = e.id
  <2>1. Len(PathOf(D, e)) = 1
    BY <1>3, <1>4, <1>5
  <2>2. Claimed(e) => e \in D /\ e.type = "dir"
    BY <1>5 DEF Claimed, D, DirsOf
  <2> QED
    BY <1>4, <1>5, <2>1, <2>2 DEF D
<1>6. CASE e.parent # e.id
  <2>1. PICK d \in D : d.id = e.parent
    BY <1>6 DEF Sound, Inside, D
  <2>2. PICK r \in D : /\ r.parent = r.id
                       /\ Len(PathIn(D, d.id)) \in Nat \ {0}
                       /\ PathIn(D, d.id)[1] = Name("dir", r.id)
    BY <1>1, Rooted
  <2>3. q = PathIn(D, d.id) /\ 1 \in 1..Len(q)
    BY <1>3, <1>6, <2>1, <2>2
  <2>4. PathOf(D, e)[1] = Name("dir", r.id) /\ Len(PathOf(D, e)) > 1
    BY <1>4, <2>2, <2>3
  <2> QED
    BY <1>4, <1>6, <2>2, <2>4 DEF D
<1> QED
  BY <1>5, <1>6

\* entries of one list have different paths
LEMMA PathsDiffer ==
  ASSUME NEW L, NEW n \in Nat, Sound(L, n), NEW e \in L, NEW f \in L, e # f
  PROVE  PathOf(DirsOf(L), e) # PathOf(DirsOf(L), f)
<1>1. e.id # f.id
  BY DEF Sound
<1>2. /\ PathOf(DirsOf(L), e)[Len(PathOf(DirsOf(L), e))] = Name(e.type, e.id)
      /\ PathOf(DirsOf(L), f)[Len(PathOf(DirsOf(L), f))] = Name(f.type, f.id)
  BY PathBegins
<1> QED
  BY <1>1, <1>2 DEF Name

-----------------------------------------------------------------------------
(* The inductive invariant. *)

Path(t, e) == PathOf(DirsOf(lists[t]), e)
Leftover == {<<n>> : n \in old}

Shapes ==
  /\ lists \in [Threads -> SUBSET Entries]
  /\ nameseq \in [Threads -> Nat]
  /\ map \in [Threads -> [node : Nat, page : Nat]]
  /\ size \in [Inodes -> Nat]
  /\ cutter \in [Inodes -> Threads \cup {Nobody}]
  /\ old \subseteq PathNames
  /\ main \in {"run", "sweep", "rounds", "clean", "done", "sigbus"}

ListsOk == \A t \in Threads : Sound(lists[t], nameseq[t])

\* what a list claims is there
Present ==
  main = "run" =>
    \A t \in Threads : \A e \in lists[t] : Claimed(e) => Exists(Path(t, e))

\* no directory is in two lists
Apart ==
  \A t, u \in Threads : t # u =>
    \A e \in Dirs(t) : \A d \in Dirs(u) : Path(t, e) # Path(u, d)

\* what is listed has been noted for the cleanup
Noted == \A t \in Threads : \A e \in lists[t] : Path(t, e) \in created

CreatedOk ==
  /\ created \subseteq Paths \ {Base}
  /\ \E b \in Nat : \A p \in created : Len(p) <= b

\* the file system is a tree, and the type of a name is that of what it names
TreeOk ==
  \A p \in DOMAIN tree :
    /\ p \in Paths \ {Base}
    /\ tree[p] \in Inodes \cup {Directory}
    /\ tree[p] = Directory <=> p[Len(p)][1] = "dir"
    /\ Holds(Parent(p))

\* what is there was there before or has been noted, and what was there before
\* is still there or has been noted
Known ==
  /\ DOMAIN tree \subseteq created \cup Leftover
  /\ Leftover \ created \subseteq DOMAIN tree

\* the cleanup has removed what it has taken from its list
Swept ==
  /\ todo \subseteq created
  /\ main = "sweep" => created \cap DOMAIN tree \subseteq todo
  /\ main \in {"rounds", "clean"} => created \cap DOMAIN tree = {}

\* a mapping is inside its file, unless another thread has cut the file
Mapped ==
  \A t \in Threads : map[t] # NoMap =>
    /\ map[t].node \in Inodes
    /\ \/ map[t].page < size[map[t].node]
       \/ cutter[map[t].node] \in Threads \ {t}

Filed == ListsOk /\ Present /\ Apart /\ Noted /\ CreatedOk /\ TreeOk /\ Known /\ Swept
Inv == Shapes /\ Filed /\ Mapped

LEMMA Constants ==
  /\ Inodes \subseteq Nat \ {0} /\ 1 \in Inodes /\ Directory \notin Inodes
  /\ PathNames = Types \X Nat
  /\ \A l \in Leftovers : l \subseteq PathNames
  /\ "dir" \notin NodeTypes /\ NodeTypes \cup {"dir"} \subseteq Types /\ "reg" \in Types
  /\ Nops \in Nat /\ MaxSize \in Nat \ {0}
BY FsstressAssumption DEF Inodes, Directory, PathNames, Types

LEMMA InitInv == Init => Inv
<1> SUFFICES ASSUME Init PROVE Inv
  OBVIOUS
<1>1. Shapes
  BY Constants DEF Init, Shapes, NoMap
<1>2. ListsOk /\ Present /\ Apart /\ Noted
  BY DEF Init, ListsOk, Sound, Present, Apart, Noted, Dirs
<1>3. CreatedOk /\ Swept
  BY DEF Init, CreatedOk, Swept
<1>4. ASSUME NEW p \in DOMAIN tree
      PROVE  /\ p \in Paths \ {Base} /\ Len(p) = 1 /\ p \in Leftover
             /\ tree[p] \in Inodes \cup {Directory}
             /\ tree[p] = Directory <=> p[Len(p)][1] = "dir"
             /\ Holds(Parent(p))
  <2>1. p \in {<<n>> : n \in old} /\ tree[p] = IF p[1][1] = "dir" THEN Directory ELSE 1
    BY DEF Init
  <2>2. PICK n \in old : p = <<n>>
    BY <2>1
  <2>3. n \in PathNames
    BY <2>2, Constants DEF Init
  <2>4. Base \in Paths /\ Len(Base) = 0 /\ p = Append(Base, n)
    BY <2>2, <2>3 DEF Base, Paths
  <2>5. p \in Paths \ {Base} /\ Len(p) = 1 /\ Parent(p) = Base
    <3> DEFINE b == Base
    <3>1. b \in Paths /\ Len(b) = 0 /\ p = Append(b, n)
      BY <2>4
    <3> HIDE DEF b
    <3>2. /\ p \in Paths /\ p # Base /\ Parent(p) = b
          /\ Len(p) = Len(b) + 1
      BY <2>3, <3>1, Appended
    <3> QED
      BY <3>1, <3>2 DEF b
  <2> QED
    BY <2>1, <2>5, Constants DEF Leftover, Holds
<1>5. TreeOk
  BY <1>4 DEF TreeOk
<1>6. Known
  BY <1>4 DEF Known, Leftover, Init
<1>7. Mapped
  BY DEF Init, Mapped
<1> QED
  BY <1>1, <1>2, <1>3, <1>5, <1>6, <1>7 DEF Inv, Filed

-----------------------------------------------------------------------------
(* What each thread may do to the names. *)

\* what a list claims is not the path of an entry of another thread
LEMMA Separate ==
  ASSUME ListsOk, Shapes, Apart, NEW t \in Threads, NEW u \in Threads, t # u,
         NEW f \in lists[u], Claimed(f), NEW s \in lists[t]
  PROVE  Path(u, f) # Path(t, s)
<1> SUFFICES ASSUME Path(u, f) = Path(t, s) PROVE FALSE
  OBVIOUS
<1>1. /\ Sound(lists[t], nameseq[t]) /\ Sound(lists[u], nameseq[u])
      /\ nameseq[t] \in Nat /\ nameseq[u] \in Nat
  BY DEF ListsOk, Shapes
<1>2. PICK r \in DirsOf(lists[u]) : r.parent = r.id /\ Path(u, f)[1] = Name("dir", r.id)
  BY <1>1, PathBegins DEF Path
<1>3. CASE Claimed(s)
  <2>1. PICK c \in DirsOf(lists[t]) : c.parent = c.id /\ Path(t, s)[1] = Name("dir", c.id)
    BY <1>1, <1>3, PathBegins DEF Path
  <2>2. r.id = c.id /\ r.type = "dir" /\ c.type = "dir" /\ r \in lists[u] /\ c \in lists[t]
    BY <1>2, <2>1 DEF Name, DirsOf
  <2>3. /\ Path(u, r) \in Paths /\ Len(Path(u, r)) = 1 /\ Path(u, r)[1] = Name("dir", r.id)
    BY <1>1, <1>2, <2>2, PathBegins DEF Path
  <2>4. /\ Path(t, c) \in Paths /\ Len(Path(t, c)) = 1 /\ Path(t, c)[1] = Name("dir", c.id)
    BY <1>1, <2>1, <2>2, PathBegins DEF Path
  <2>5. Path(u, r) = Path(t, c)
    BY <2>2, <2>3, <2>4 DEF Paths
  <2> QED
    BY <1>2, <2>1, <2>5 DEF Apart, Dirs, DirsOf
<1>4. CASE ~Claimed(s)
  <2>1. s.parent = s.id /\ s.type # "dir"
    BY <1>4 DEF Claimed
  <2>2. Path(t, s)[1] = Name(s.type, s.id)
    BY <1>1, <2>1, PathBegins DEF Path
  <2> QED
    BY <1>2, <2>1, <2>2 DEF Name
<1> QED
  BY <1>3, <1>4

\* thread t enters e under the path it has computed: creat, mkdir, mknod, symlink,
\* link and rename; the entries of S go, and the names Q of some of them
Enters(t, S, Q, e) ==
  /\ main = "run"
  /\ S \cap DirsOf(lists[t]) = {} /\ S \subseteq lists[t]
  /\ Q \subseteq {Path(t, s) : s \in S}
  /\ New(lists[t], nameseq[t], e)
  /\ Holds(Parent(Path(t, e)))
  /\ e.type = "dir" => ~Exists(Path(t, e))
  /\ lists' = [lists EXCEPT ![t] = (@ \ S) \cup {e}]
  /\ nameseq' = [nameseq EXCEPT ![t] = @ + 1]
  /\ created' = created \cup {Path(t, e)}
  /\ DOMAIN tree' = (DOMAIN tree \ Q) \cup {Path(t, e)}
  /\ \A r \in DOMAIN tree' : r # Path(t, e) => tree'[r] = tree[r]
  /\ tree'[Path(t, e)] \in Inodes \cup {Directory}
  /\ tree'[Path(t, e)] = Directory <=> e.type = "dir"
  /\ UNCHANGED <<main, todo, old>>

\* the list of the thread, and that every entry keeps its path
LEMMA EntersLists ==
  ASSUME Shapes, Filed, NEW t \in Threads, NEW S, NEW Q, NEW e, Enters(t, S, Q, e)
  PROVE  /\ ListsOk'
         /\ \A u \in Threads : \A f \in lists'[u] :
              /\ Path(u, f)' = Path(u, f)
              /\ f \in lists[u] \ (IF u = t THEN S ELSE {}) \/ (u = t /\ f = e)
         /\ e \in lists'[t] /\ lists' \in [Threads -> SUBSET Entries]
         /\ nameseq' \in [Threads -> Nat]
<1>1. Sound(lists[t], nameseq[t]) /\ nameseq[t] \in Nat
  BY DEF Filed, ListsOk, Shapes
<1>2. S \cap DirsOf(lists[t]) = {} /\ New(lists[t], nameseq[t], e) /\ e \in Entries
  BY DEF Enters, New
<1> DEFINE M == (lists[t] \ S) \cup {e}
<1>3. Sound(M, nameseq[t] + 1) /\ Keeps(lists[t] \cup {e}, lists[t], M)
  <2> DEFINE L == lists[t]
             n == nameseq[t]
  <2>1. n \in Nat /\ Sound(L, n) /\ S \cap DirsOf(L) = {} /\ New(L, n, e)
        /\ M = (L \ S) \cup {e}
    BY <1>1, <1>2
  <2> HIDE DEF L, n, M
  <2> QED
    BY <2>1, Grow DEF L, n
<1>4. /\ lists'[t] = M /\ nameseq'[t] = nameseq[t] + 1
      /\ \A u \in Threads : u # t => lists'[u] = lists[u] /\ nameseq'[u] = nameseq[u]
      /\ lists' \in [Threads -> SUBSET Entries] /\ nameseq' \in [Threads -> Nat]
  BY <1>2 DEF Enters, Shapes
<1>5. ListsOk'
  BY <1>3, <1>4 DEF Filed, ListsOk
<1>6. ASSUME NEW u \in Threads, NEW f \in lists'[u]
      PROVE  /\ Path(u, f)' = Path(u, f)
             /\ f \in lists[u] \ (IF u = t THEN S ELSE {}) \/ (u = t /\ f = e)
  <2>1. CASE u = t
    <3>1. PathOf(DirsOf(lists'[u]), f) = PathOf(DirsOf(lists[u]), f)
      BY <1>3, <1>4, <1>6, <2>1 DEF Keeps
    <3> QED
      BY <3>1, <1>4, <1>6, <2>1 DEF Path
  <2>2. CASE u # t
    BY <2>2, <1>4, <1>6 DEF Path
  <2> QED
    BY <2>1, <2>2
<1> QED
  BY <1>4, <1>5, <1>6

LEMMA EntersTree ==
  ASSUME Shapes, Filed, NEW t \in Threads, NEW S, NEW Q, NEW e, Enters(t, S, Q, e)
  PROVE  TreeOk' /\ CreatedOk' /\ Known' /\ Swept'
<1>0. PICK p : p = Path(t, e)
  OBVIOUS
<1>1. Sound(lists[t], nameseq[t]) /\ nameseq[t] \in Nat
  BY DEF Filed, ListsOk, Shapes
<1>2. e \in Entries /\ Tidy(DirsOf(lists[t])) /\ Name(e.type, e.id) \in PathNames
  BY <1>1, SoundTidy DEF Enters, New, Entries, Name, PathNames
<1>3. PICK d \in Paths : p = Append(d, Name(e.type, e.id))
  BY <1>0, <1>2, PathOfType DEF Path
<1>4. /\ p \in Paths \ {Base} /\ Parent(p) = d /\ p # d /\ Len(p) \in Nat
      /\ p[Len(p)] = Name(e.type, e.id)
  BY <1>2, <1>3, Appended
<1>5. /\ Holds(Parent(p)) /\ created' = created \cup {p} /\ main = "run" /\ main' = main
      /\ DOMAIN tree' = (DOMAIN tree \ Q) \cup {p} /\ UNCHANGED <<todo, old>>
      /\ \A r \in DOMAIN tree' : r # p => tree'[r] = tree[r]
      /\ tree'[p] \in Inodes \cup {Directory}
      /\ tree'[p] = Directory <=> e.type = "dir"
  BY <1>0 DEF Enters
<1>6. ASSUME NEW q \in Q
      PROVE  q \in created /\ (q \in DOMAIN tree => tree[q] # Directory)
  <2>1. PICK s \in lists[t] : q = Path(t, s) /\ s.type # "dir"
    BY DEF Enters, DirsOf
  <2>2. q[Len(q)] = Name(s.type, s.id)
    BY <1>1, <2>1, PathBegins DEF Path
  <2> QED
    BY <2>1, <2>2 DEF Filed, Noted, TreeOk, Name
<1>7. ASSUME NEW r, Holds(r), r # p PROVE Holds(r)'
  BY <1>5, <1>6, <1>7 DEF Holds, Exists
<1>8. e.type = "dir" => Holds(p)'
  BY <1>5 DEF Holds, Exists
<1>9. ASSUME NEW r \in DOMAIN tree'
      PROVE  /\ r \in Paths \ {Base}
             /\ tree'[r] \in Inodes \cup {Directory}
             /\ tree'[r] = Directory <=> r[Len(r)][1] = "dir"
             /\ Holds(Parent(r))'
  <2>1. CASE r = p
    <3>1. Holds(Parent(r))'
      BY <1>4, <1>5, <1>7, <2>1
    <3>2. tree'[r] = Directory <=> r[Len(r)][1] = "dir"
      BY <1>4, <1>5, <2>1 DEF Name
    <3> QED
      BY <1>4, <1>5, <2>1, <3>1, <3>2
  <2>2. CASE r # p
    <3>1. r \in DOMAIN tree /\ tree'[r] = tree[r]
      BY <1>5, <2>2
    <3>2. /\ r \in Paths \ {Base} /\ tree[r] \in Inodes \cup {Directory}
          /\ tree[r] = Directory <=> r[Len(r)][1] = "dir"
          /\ Holds(Parent(r))
      BY <3>1 DEF Filed, TreeOk
    <3>3. Holds(Parent(r))'
      <4>1. CASE Parent(r) = p
        <5>1. p \in DOMAIN tree /\ tree[p] = Directory
          BY <1>4, <3>2, <4>1 DEF Holds, Exists
        <5>2. p[Len(p)][1] = "dir"
          BY <5>1 DEF Filed, TreeOk
        <5> QED
          BY <5>2, <1>4, <1>8, <4>1 DEF Name
      <4>2. CASE Parent(r) # p
        BY <1>7, <3>2, <4>2
      <4> QED
        BY <4>1, <4>2
    <3> QED
      BY <3>1, <3>2, <3>3
  <2> QED
    BY <2>1, <2>2
<1>10. TreeOk'
  BY <1>9 DEF TreeOk
<1>11. CreatedOk'
  <2>1. PICK b \in Nat : \A r \in created : Len(r) <= b
    BY DEF Filed, CreatedOk
  <2>2. \A r \in created : Len(r) \in Nat
    BY DEF Filed, CreatedOk, Paths
  <2>3. b + Len(p) \in Nat /\ \A r \in created' : Len(r) <= b + Len(p)
    BY <1>4, <1>5, <2>1, <2>2
  <2> QED
    BY <1>4, <1>5, <2>3 DEF Filed, CreatedOk
<1>12. Known'
  BY <1>5, <1>6 DEF Filed, Known, Leftover
<1>13. Swept'
  BY <1>5 DEF Filed, Swept
<1> QED
  BY <1>10, <1>11, <1>12, <1>13

LEMMA EntersFiled ==
  ASSUME Shapes, Filed, NEW t \in Threads, NEW S, NEW Q, NEW e, Enters(t, S, Q, e)
  PROVE  Filed'
<1> DEFINE p == Path(t, e)
<1>1. /\ ListsOk'
      /\ \A u \in Threads : \A f \in lists'[u] :
           /\ Path(u, f)' = Path(u, f)
           /\ f \in lists[u] \ (IF u = t THEN S ELSE {}) \/ (u = t /\ f = e)
  BY EntersLists
<1>2. /\ main = "run" /\ created' = created \cup {p}
      /\ DOMAIN tree' = (DOMAIN tree \ Q) \cup {p}
      /\ S \subseteq lists[t] /\ Q \subseteq {Path(t, s) : s \in S}
      /\ e.type = "dir" => ~Exists(p)
  BY DEF Enters
<1>3. ASSUME NEW u \in Threads, NEW f \in lists'[u], ~(u = t /\ f = e)
      PROVE  /\ f \in lists[u] /\ (u = t => f \notin S)
             /\ Path(u, f)' = Path(u, f) /\ Path(u, f) \in created
  BY <1>1, <1>3 DEF Filed, Noted
<1>4. Path(t, e)' = p
  <2>1. e \in lists'[t]
    BY EntersLists
  <2> QED
    BY <1>1, <2>1
<1>5. Noted'
  BY <1>2, <1>3, <1>4 DEF Noted
<1>6. ASSUME NEW u \in Threads, NEW f \in lists'[u], Claimed(f)
      PROVE  Path(u, f)' \in DOMAIN tree'
  <2>1. CASE u = t /\ f = e
    BY <1>2, <1>4, <2>1
  <2>2. CASE ~(u = t /\ f = e)
    <3>1. f \in lists[u] /\ (u = t => f \notin S) /\ Path(u, f)' = Path(u, f)
      BY <1>3, <2>2
    <3>2. Path(u, f) \in DOMAIN tree
      BY <1>2, <1>6, <3>1 DEF Filed, Present, Exists
    <3>3. ASSUME NEW s \in S PROVE Path(u, f) # Path(t, s)
      <4>1. CASE u = t
        <5>1. Sound(lists[t], nameseq[t]) /\ nameseq[t] \in Nat /\ s \in lists[t] /\ f # s
          BY <1>2, <3>1, <4>1 DEF Filed, ListsOk, Shapes
        <5> QED
          BY <5>1, <3>1, <4>1, PathsDiffer DEF Path
      <4>2. CASE u # t
        BY <1>2, <1>6, <3>1, <4>2, Separate DEF Filed
      <4> QED
        BY <4>1, <4>2
    <3>4. Path(u, f) \notin Q
      BY <1>2, <3>3
    <3> QED
      BY <1>2, <3>1, <3>2, <3>4
  <2> QED
    BY <2>1, <2>2
<1>7. Present'
  BY <1>6 DEF Present, Exists
<1>8. Apart'
  <2> SUFFICES ASSUME NEW v \in Threads, NEW u \in Threads, v # u,
                      NEW c \in Dirs(v)', NEW d \in Dirs(u)'
               PROVE  Path(v, c)' # Path(u, d)'
    BY DEF Apart
  <2>1. c \in lists'[v] /\ d \in lists'[u] /\ c.type = "dir" /\ d.type = "dir"
    BY DEF Dirs
  <2>2. Claimed(c) /\ Claimed(d)
    BY <2>1 DEF Claimed
  <2>3. CASE v = t /\ c = e
    <3>1. d \in lists[u] /\ Path(u, d)' = Path(u, d) /\ Path(u, d) \in DOMAIN tree
      BY <1>2, <1>3, <2>1, <2>2, <2>3 DEF Filed, Present, Exists
    <3> QED
      BY <1>2, <1>4, <2>1, <2>3, <3>1 DEF Exists
  <2>4. CASE u = t /\ d = e
    <3>1. c \in lists[v] /\ Path(v, c)' = Path(v, c) /\ Path(v, c) \in DOMAIN tree
      BY <1>2, <1>3, <2>1, <2>2, <2>4 DEF Filed, Present, Exists
    <3> QED
      BY <1>2, <1>4, <2>1, <2>4, <3>1 DEF Exists
  <2>5. CASE ~(v = t /\ c = e) /\ ~(u = t /\ d = e)
    <3>1. /\ c \in lists[v] /\ Path(v, c)' = Path(v, c)
          /\ d \in lists[u] /\ Path(u, d)' = Path(u, d)
      BY <1>3, <2>1, <2>5
    <3>2. c \in Dirs(v) /\ d \in Dirs(u)
      BY <2>1, <3>1 DEF Dirs
    <3> QED
      BY <3>1, <3>2 DEF Filed, Apart
  <2> QED
    BY <2>3, <2>4, <2>5
<1> QED
  BY <1>1, <1>5, <1>7, <1>8, EntersTree DEF Filed

\* thread t takes away e, which has nothing below it
Leaves(t, e) ==
  /\ main = "run"
  /\ e \in lists[t]
  /\ Exists(Path(t, e)) /\ Children(Path(t, e)) = {}
  /\ tree' = Without({Path(t, e)})
  /\ lists' = [lists EXCEPT ![t] = @ \ {e}]
  /\ UNCHANGED <<nameseq, created, main, todo, old>>

\* names without anything below them go away
LEMMA PrunedTree ==
  ASSUME TreeOk, NEW X, tree' = Without(X),
         \A p \in DOMAIN tree \cap X : Children(p) = {}
  PROVE  TreeOk'
<1>1. DOMAIN tree' = DOMAIN tree \ X /\ \A r \in DOMAIN tree' : tree'[r] = tree[r]
  BY DEF Without
<1>2. ASSUME NEW r \in DOMAIN tree'
      PROVE  Holds(Parent(r))'
  <2>1. r \in DOMAIN tree /\ r # Base /\ Holds(Parent(r))
    BY <1>1 DEF TreeOk
  <2>2. CASE Parent(r) = Base
    BY <2>2 DEF Holds
  <2>3. CASE Parent(r) # Base
    <3>1. Parent(r) \in DOMAIN tree /\ tree[Parent(r)] = Directory
      BY <2>1, <2>3 DEF Holds, Exists
    <3>2. r \in Children(Parent(r))
      BY <2>1 DEF Children
    <3>3. Parent(r) \in DOMAIN tree'
      BY <1>1, <3>1, <3>2
    <3> QED
      BY <1>1, <3>1, <3>3 DEF Holds, Exists
  <2> QED
    BY <2>2, <2>3
<1> QED
  BY <1>1, <1>2 DEF TreeOk

\* what a directory of the list contains is below it in the tree
LEMMA EmptyIsNoParent ==
  ASSUME Shapes, Filed, main = "run", NEW t \in Threads, NEW e \in lists[t],
         Children(Path(t, e)) = {}, NEW f \in lists[t],
         e.type = "dir", f.parent = e.id
  PROVE  f.parent = f.id
<1> SUFFICES ASSUME f.parent # f.id PROVE FALSE
  OBVIOUS
<1>1. Sound(lists[t], nameseq[t]) /\ nameseq[t] \in Nat
  BY DEF Filed, ListsOk, Shapes
<1> DEFINE D == DirsOf(lists[t])
<1>2. Tidy(D) /\ e \in D /\ f \in Entries /\ Name(f.type, f.id) \in PathNames
  BY <1>1, SoundTidy DEF Sound, DirsOf, Entries, Name, PathNames
<1> HIDE DEF D
<1>3. PICK q \in Paths : /\ PathOf(D, f) = Append(q, Name(f.type, f.id))
                         /\ q = IF f.parent = f.id THEN Base ELSE PathIn(D, f.parent)
  BY <1>2, PathOfType
<1>4. q = PathOf(D, e)
  BY <1>2, <1>3, DirectoryPath
<1>5. Parent(PathOf(D, f)) = PathOf(D, e) /\ PathOf(D, f) # Base
  BY <1>2, <1>3, <1>4, Appended
<1>6. Path(t, f) = PathOf(D, f) /\ Path(t, e) = PathOf(D, e)
  BY DEF Path, D
<1>7. Path(t, f) \in DOMAIN tree
  BY DEF Filed, Present, Exists, Claimed
<1> QED
  BY <1>5, <1>6, <1>7 DEF Children

LEMMA LeavesFiled ==
  ASSUME Shapes, Filed, NEW t \in Threads, NEW e, Leaves(t, e)
  PROVE  Filed' /\ lists' \in [Threads -> SUBSET Entries]
<1>1. Sound(lists[t], nameseq[t]) /\ nameseq[t] \in Nat
  BY DEF Filed, ListsOk, Shapes
<1>2. /\ main = "run" /\ e \in lists[t] /\ Children(Path(t, e)) = {}
      /\ Path(t, e) \in DOMAIN tree /\ tree' = Without({Path(t, e)})
      /\ lists' = [lists EXCEPT ![t] = @ \ {e}]
      /\ UNCHANGED <<nameseq, created, main, todo, old>>
  BY DEF Leaves, Exists
<1>3. PICK M : M = lists[t] \ {e}
  OBVIOUS
<1>4. Sound(M, nameseq[t]) /\ Keeps(M, lists[t], M)
  <2>1. \A f \in lists[t] : e.type = "dir" /\ f.parent = e.id => f.parent = f.id
    BY <1>2, EmptyIsNoParent
  <2> QED
    BY <1>1, <1>2, <1>3, <2>1, Shrink
<1>5. /\ lists'[t] = M /\ \A u \in Threads : u # t => lists'[u] = lists[u]
      /\ lists' \in [Threads -> SUBSET Entries]
  BY <1>2, <1>3 DEF Shapes
<1>6. ListsOk'
  BY <1>2, <1>4, <1>5 DEF Filed, ListsOk
<1>7. ASSUME NEW u \in Threads, NEW f \in lists'[u]
      PROVE  Path(u, f)' = Path(u, f) /\ f \in lists[u] /\ (u = t => f # e)
  <2>1. CASE u = t
    BY <1>3, <1>4, <1>5, <1>7, <2>1 DEF Path, Keeps
  <2>2. CASE u # t
    BY <2>2, <1>5, <1>7 DEF Path
  <2> QED
    BY <2>1, <2>2
<1>8. Noted' /\ CreatedOk' /\ Swept'
  BY <1>2, <1>7 DEF Filed, Noted, CreatedOk, Swept
<1>9. DOMAIN tree' = DOMAIN tree \ {Path(t, e)}
  BY <1>2 DEF Without
<1>10. Present'
  <2> SUFFICES ASSUME NEW u \in Threads, NEW f \in lists'[u], Claimed(f)
               PROVE  Path(u, f)' \in DOMAIN tree'
    BY DEF Present, Exists
  <2>1. f \in lists[u] /\ Path(u, f)' = Path(u, f) /\ Path(u, f) \in DOMAIN tree
    BY <1>2, <1>7 DEF Filed, Present, Exists
  <2>2. CASE u = t
    <3>1. Path(t, f) # Path(t, e)
      BY <1>1, <1>2, <1>7, <2>1, <2>2, PathsDiffer DEF Path
    <3> QED
      BY <1>9, <2>1, <2>2, <3>1
  <2>3. CASE u # t
    <3>1. Path(u, f) # Path(t, e)
      BY <1>2, <2>1, <2>3, Separate DEF Filed
    <3> QED
      BY <1>9, <2>1, <3>1
  <2> QED
    BY <2>2, <2>3
<1>11. Apart'
  BY <1>7 DEF Filed, Apart, Dirs
<1>12. TreeOk'
  BY <1>2, PrunedTree DEF Filed
<1>13. Known'
  BY <1>2, <1>9 DEF Filed, Known, Noted, Leftover
<1> QED
  BY <1>5, <1>6, <1>8, <1>10, <1>11, <1>12, <1>13 DEF Filed

-----------------------------------------------------------------------------
(* The operations. *)

LEMMA PathIsFent ==
  ASSUME NEW t, NEW e
  PROVE  FentToName(t, e) = Path(t, e)
BY PathsOfThread DEF Path, Dirs, DirsOf

LEMMA NewIsNew ==
  ASSUME Shapes, Filed, NEW t \in Threads, NEW ft \in Types, NEW e \in NewEntries(t, ft)
  PROVE  New(lists[t], nameseq[t], e) /\ e.type = ft
<1>1. nameseq[t] \in Nat /\ \A d \in Dirs(t) : d.id \in Nat
  BY DEF Shapes, Dirs, Entries
<1> DEFINE parents == IF Dirs(t) = {} THEN {nameseq[t]} ELSE {d.id : d \in Dirs(t)}
<1>2. PICK p \in parents : e = [type |-> ft, id |-> nameseq[t], parent |-> p]
  BY DEF NewEntries
<1>3. p \in Nat /\ (p = nameseq[t] \/ \E d \in DirsOf(lists[t]) : d.id = p)
  BY <1>1 DEF Dirs, DirsOf
<1> QED
  BY <1>1, <1>2, <1>3 DEF New, Entries

LEMMA NewPath ==
  ASSUME Shapes, Filed, NEW t \in Threads, NEW e, New(lists[t], nameseq[t], e)
  PROVE  /\ Path(t, e) \in Paths \ {Base}
         /\ Path(t, e)[Len(Path(t, e))] = Name(e.type, e.id)
<1>1. Sound(lists[t], nameseq[t]) /\ e \in Entries
  BY DEF Filed, ListsOk, New
<1>2. Tidy(DirsOf(lists[t])) /\ Name(e.type, e.id) \in PathNames
  BY <1>1, SoundTidy DEF Entries, Name, PathNames
<1>3. PICK q \in Paths : Path(t, e) = Append(q, Name(e.type, e.id))
  BY <1>1, <1>2, PathOfType DEF Path
<1> QED
  BY <1>2, <1>3, Appended

\* a new inode is neither named nor mapped
LEMMA FreshIsFree ==
  ASSUME Free # {}
  PROVE  Fresh \in Inodes /\ \A t \in Threads : map[t].node # Fresh
<1>1. Free \in SUBSET Nat
  BY Constants DEF Free
<1>2. \E i \in Free : \A j \in Free : i <= j
  BY <1>1, LeastNumber
<1>3. Fresh \in Free
  BY <1>2 DEF Fresh
<1> QED
  BY <1>3 DEF Free, Used

\* nothing happens to the names
LEMMA QuietFiled ==
  ASSUME Shapes, Filed, NEW t \in Threads,
         nameseq' = nameseq \/ nameseq' = [nameseq EXCEPT ![t] = @ + 1],
         UNCHANGED <<lists, tree, created, main, todo, old>>
  PROVE  Filed' /\ nameseq' \in [Threads -> Nat]
<1>1. nameseq' \in [Threads -> Nat] /\ \A u \in Threads : nameseq[u] <= nameseq'[u]
  BY DEF Shapes
<1>2. ListsOk'
  <2> SUFFICES ASSUME NEW u \in Threads PROVE Sound(lists[u], nameseq'[u])
    BY DEF ListsOk
  <2>1. Sound(lists[u], nameseq[u]) /\ nameseq[u] \in Nat /\ nameseq'[u] \in Nat
        /\ nameseq[u] <= nameseq'[u]
    BY <1>1 DEF Filed, ListsOk, Shapes
  <2>2. \A e \in lists[u] : e.id \in Nat
    BY <2>1 DEF Sound, Entries
  <2> QED
    BY <2>1, <2>2 DEF Sound
<1>3. Present' /\ Apart' /\ Noted'
  BY DEF Filed, Present, Apart, Noted, Path, Exists, Dirs
<1>4. CreatedOk' /\ TreeOk' /\ Known' /\ Swept'
  BY DEF Filed, CreatedOk, TreeOk, Known, Swept, Holds, Exists, Leftover
<1> QED
  BY <1>1, <1>2, <1>3, <1>4 DEF Filed

\* what only concerns names leaves the mappings alone
LEMMA NamesStep ==
  ASSUME Inv, main = "run", UNCHANGED <<map, main, old>>,
         Filed', lists' \in [Threads -> SUBSET Entries], nameseq' \in [Threads -> Nat],
         size' \in [Inodes -> Nat], cutter' \in [Inodes -> Threads \cup {Nobody}],
         \A u \in Threads : map[u] # NoMap =>
           size'[map[u].node] = size[map[u].node] /\ cutter'[map[u].node] = cutter[map[u].node]
  PROVE  Inv'
<1>1. Shapes'
  BY DEF Inv, Shapes
<1>2. Mapped'
  BY DEF Inv, Mapped
<1> QED
  BY <1>1, <1>2 DEF Inv

\* report_err, after a name was generated or before
LEMMA FailedStep ==
  ASSUME Inv, main = "run", NEW t \in Threads, Failed, UNCHANGED <<map, cleanup, main, old>>,
         nameseq' = nameseq \/ nameseq' = [nameseq EXCEPT ![t] = @ + 1]
  PROVE  Inv'
<1>1. UNCHANGED <<lists, tree, size, created, cutter, todo>>
  BY DEF Failed, disk, cleanup
<1>2. Filed' /\ nameseq' \in [Threads -> Nat]
  BY <1>1, QuietFiled DEF Inv
<1> QED
  BY <1>1, <1>2, NamesStep DEF Inv, Shapes

LEMMA CreatStep ==
  ASSUME Inv, NEW t \in Threads, Creat(t)
  PROVE  Inv'
<1>1. main = "run" /\ UNCHANGED <<map, main, old, todo>>
      /\ nameseq' = [nameseq EXCEPT ![t] = @ + 1]
  BY DEF Creat, Works, Named, cleanup
<1>2. CASE Failed
  BY <1>1, <1>2, FailedStep DEF Creat
<1>3. CASE ~Failed
  <2>1. PICK e \in NewEntries(t, "reg") :
          LET p == FentToName(t, e)
          IN /\ Holds(Parent(p)) /\ (Exists(p) \/ Free # {})
             /\ Add(t, e, p)
             /\ tree' = IF Exists(p) THEN tree ELSE Put(p, Fresh)
             /\ size' = IF Exists(p) THEN size ELSE [size EXCEPT ![Fresh] = 0]
             /\ cutter' = IF Exists(p) THEN cutter ELSE [cutter EXCEPT ![Fresh] = Nobody]
    BY <1>3 DEF Creat
  <2>2. PICK p : p = Path(t, e)
    OBVIOUS
  <2>3. /\ Holds(Parent(p)) /\ (Exists(p) \/ Free # {}) /\ Add(t, e, p)
        /\ tree' = IF Exists(p) THEN tree ELSE Put(p, Fresh)
        /\ size' = IF Exists(p) THEN size ELSE [size EXCEPT ![Fresh] = 0]
        /\ cutter' = IF Exists(p) THEN cutter ELSE [cutter EXCEPT ![Fresh] = Nobody]
    BY <2>1, <2>2, PathIsFent
  <2>4. New(lists[t], nameseq[t], e) /\ e.type = "reg"
    BY NewIsNew, Constants DEF Inv
  <2>5. Free # {} => Fresh \in Inodes /\ \A u \in Threads : map[u].node # Fresh
    BY FreshIsFree
  <2>6. Exists(p) => tree[p] \in Inodes
    <3>1. SUFFICES ASSUME Exists(p) PROVE tree[p] \in Inodes
      OBVIOUS
    <3>2. tree[p] \in Inodes \cup {Directory} /\ (tree[p] = Directory <=> p[Len(p)][1] = "dir")
      BY <3>1 DEF Inv, Filed, TreeOk, Exists
    <3>3. p[Len(p)] = Name("reg", e.id)
      BY <2>2, <2>4, NewPath DEF Inv
    <3> QED
      BY <3>2, <3>3 DEF Name
  <2>7. /\ DOMAIN tree' = DOMAIN tree \cup {p}
        /\ \A r \in DOMAIN tree' : r # p => tree'[r] = tree[r]
        /\ tree'[p] \in Inodes
    BY <2>3, <2>5, <2>6 DEF Put, Exists
  <2>8. Enters(t, {}, {}, e)
    BY <1>1, <2>2, <2>3, <2>4, <2>7, Constants DEF Enters, Add
  <2>9. Filed' /\ lists' \in [Threads -> SUBSET Entries] /\ nameseq' \in [Threads -> Nat]
    BY <2>8, EntersFiled, EntersLists DEF Inv
  <2>10. /\ size' \in [Inodes -> Nat] /\ cutter' \in [Inodes -> Threads \cup {Nobody}]
         /\ \A u \in Threads :
              /\ size'[map[u].node] = size[map[u].node]
              /\ cutter'[map[u].node] = cutter[map[u].node]
    BY <2>3, <2>5 DEF Inv, Shapes
  <2> QED
    BY <1>1, <2>9, <2>10, NamesStep
<1> QED
  BY <1>2, <1>3

LEMMA MakeStep ==
  ASSUME Inv, NEW t \in Threads, NEW ft \in NodeTypes \cup {"dir"}, Make(t, ft)
  PROVE  Inv'
<1>1. main = "run" /\ UNCHANGED <<map, main, old, todo>>
      /\ nameseq' = [nameseq EXCEPT ![t] = @ + 1]
  BY DEF Make, Works, Named, cleanup
<1>2. CASE Failed
  BY <1>1, <1>2, FailedStep DEF Make
<1>3. CASE ~Failed
  <2>1. PICK e \in NewEntries(t, ft) :
          LET p == FentToName(t, e)
          IN /\ Holds(Parent(p)) /\ ~Exists(p)
             /\ ft = "dir" \/ Free # {}
             /\ Add(t, e, p)
             /\ tree' = Put(p, IF ft = "dir" THEN Directory ELSE Fresh)
             /\ UNCHANGED <<size, cutter>>
    BY <1>3 DEF Make
  <2>2. PICK p : p = Path(t, e)
    OBVIOUS
  <2>3. /\ Holds(Parent(p)) /\ ~Exists(p) /\ (ft = "dir" \/ Free # {}) /\ Add(t, e, p)
        /\ tree' = Put(p, IF ft = "dir" THEN Directory ELSE Fresh)
        /\ UNCHANGED <<size, cutter>>
    BY <2>1, <2>2, PathIsFent
  <2>4. New(lists[t], nameseq[t], e) /\ e.type = ft
    BY NewIsNew, Constants DEF Inv
  <2>5. Free # {} => Fresh \in Inodes
    BY FreshIsFree
  <2>6. /\ DOMAIN tree' = DOMAIN tree \cup {p}
        /\ \A r \in DOMAIN tree' : r # p => tree'[r] = tree[r]
        /\ tree'[p] = IF ft = "dir" THEN Directory ELSE Fresh
    BY <2>3 DEF Put
  <2>7. /\ tree'[p] \in Inodes \cup {Directory}
        /\ tree'[p] = Directory <=> e.type = "dir"
    BY <2>3, <2>4, <2>5, <2>6, Constants
  <2>8. Enters(t, {}, {}, e)
    BY <1>1, <2>2, <2>3, <2>4, <2>6, <2>7 DEF Enters, Add
  <2>9. Filed' /\ lists' \in [Threads -> SUBSET Entries] /\ nameseq' \in [Threads -> Nat]
    BY <2>8, EntersFiled, EntersLists DEF Inv
  <2> QED
    BY <1>1, <2>3, <2>9, NamesStep DEF Inv, Shapes
<1> QED
  BY <1>2, <1>3

\* an entry that is no directory stands for an inode, where it exists
LEMMA NodeOfEntry ==
  ASSUME Shapes, Filed, NEW t \in Threads, NEW s \in lists[t], s.type # "dir",
         Exists(Path(t, s))
  PROVE  tree[Path(t, s)] \in Inodes
<1>1. Sound(lists[t], nameseq[t]) /\ nameseq[t] \in Nat
  BY DEF Filed, ListsOk, Shapes
<1>2. Path(t, s)[Len(Path(t, s))] = Name(s.type, s.id)
  BY <1>1, PathBegins DEF Path
<1>3. /\ tree[Path(t, s)] \in Inodes \cup {Directory}
      /\ tree[Path(t, s)] = Directory <=> Path(t, s)[Len(Path(t, s))][1] = "dir"
  BY DEF Filed, TreeOk, Exists
<1> QED
  BY <1>2, <1>3 DEF Name

LEMMA LinkStep ==
  ASSUME Inv, NEW t \in Threads, Link(t)
  PROVE  Inv'
<1>1. main = "run" /\ UNCHANGED <<map, main, old, todo>>
      /\ nameseq' = [nameseq EXCEPT ![t] = @ + 1]
  BY DEF Link, Works, Named, cleanup
<1>2. CASE Failed
  BY <1>1, <1>2, FailedStep DEF Link
<1>3. CASE ~Failed
  <2>1. PICK s \in lists[t] \ Dirs(t) : \E e \in NewEntries(t, s.type) :
          LET p == FentToName(t, e)
              q == FentToName(t, s)
          IN /\ Exists(q) /\ Holds(Parent(p)) /\ ~Exists(p)
             /\ Add(t, e, p)
             /\ tree' = Put(p, tree[q])
             /\ UNCHANGED <<size, cutter>>
    BY <1>3 DEF Link
  <2>0. PICK e \in NewEntries(t, s.type) :
          LET p == FentToName(t, e)
              q == FentToName(t, s)
          IN /\ Exists(q) /\ Holds(Parent(p)) /\ ~Exists(p)
             /\ Add(t, e, p)
             /\ tree' = Put(p, tree[q])
             /\ UNCHANGED <<size, cutter>>
    BY <2>1
  <2>2. PICK p, q : p = Path(t, e) /\ q = Path(t, s)
    OBVIOUS
  <2>3. /\ Exists(q) /\ Holds(Parent(p)) /\ ~Exists(p) /\ Add(t, e, p)
        /\ tree' = Put(p, tree[q]) /\ UNCHANGED <<size, cutter>>
    BY <2>0, <2>2, PathIsFent
  <2>4. s \in lists[t] /\ s.type # "dir" /\ s.type \in Types
    BY DEF Dirs, Inv, Shapes, Entries
  <2>5. New(lists[t], nameseq[t], e) /\ e.type = s.type
    BY <2>4, NewIsNew DEF Inv
  <2>6. tree[q] \in Inodes
    BY <2>2, <2>3, <2>4, NodeOfEntry DEF Inv
  <2>7. /\ DOMAIN tree' = DOMAIN tree \cup {p}
        /\ \A r \in DOMAIN tree' : r # p => tree'[r] = tree[r]
        /\ tree'[p] = tree[q]
    BY <2>3 DEF Put
  <2>8. Enters(t, {}, {}, e)
    BY <1>1, <2>2, <2>3, <2>4, <2>5, <2>6, <2>7, Constants DEF Enters, Add
  <2>9. Filed' /\ lists' \in [Threads -> SUBSET Entries] /\ nameseq' \in [Threads -> Nat]
    BY <2>8, EntersFiled, EntersLists DEF Inv
  <2> QED
    BY <1>1, <2>3, <2>9, NamesStep DEF Inv, Shapes
<1> QED
  BY <1>2, <1>3

LEMMA RenameStep ==
  ASSUME Inv, NEW t \in Threads, Rename(t)
  PROVE  Inv'
<1>1. main = "run" /\ UNCHANGED <<map, main, old, todo>>
      /\ nameseq' = [nameseq EXCEPT ![t] = @ + 1]
  BY DEF Rename, Works, Named, cleanup
<1>2. CASE Failed
  BY <1>1, <1>2, FailedStep DEF Rename
<1>3. CASE ~Failed
  <2>1. PICK s \in lists[t] \ Dirs(t) : \E e \in NewEntries(t, s.type) :
          LET p == FentToName(t, e)
              q == FentToName(t, s)
          IN /\ Exists(q) /\ Holds(Parent(p))
             /\ lists' = [lists EXCEPT ![t] = (@ \ {s}) \cup {e}]
             /\ created' = created \cup {p}
             /\ tree' = IF Exists(p) /\ tree[p] = tree[q] THEN tree
                        ELSE [r \in (DOMAIN tree \ {q}) \cup {p} |->
                                IF r = p THEN tree[q] ELSE tree[r]]
             /\ UNCHANGED <<size, cutter>>
    BY <1>3 DEF Rename
  <2>0. PICK e \in NewEntries(t, s.type) :
          LET p == FentToName(t, e)
              q == FentToName(t, s)
          IN /\ Exists(q) /\ Holds(Parent(p))
             /\ lists' = [lists EXCEPT ![t] = (@ \ {s}) \cup {e}]
             /\ created' = created \cup {p}
             /\ tree' = IF Exists(p) /\ tree[p] = tree[q] THEN tree
                        ELSE [r \in (DOMAIN tree \ {q}) \cup {p} |->
                                IF r = p THEN tree[q] ELSE tree[r]]
             /\ UNCHANGED <<size, cutter>>
    BY <2>1
  <2>2. PICK p, q : p = Path(t, e) /\ q = Path(t, s)
    OBVIOUS
  <2>3. /\ Exists(q) /\ Holds(Parent(p))
        /\ lists' = [lists EXCEPT ![t] = (@ \ {s}) \cup {e}]
        /\ created' = created \cup {p}
        /\ tree' = IF Exists(p) /\ tree[p] = tree[q] THEN tree
                   ELSE [r \in (DOMAIN tree \ {q}) \cup {p} |->
                           IF r = p THEN tree[q] ELSE tree[r]]
        /\ UNCHANGED <<size, cutter>>
    BY <2>0, <2>2, PathIsFent
  <2>4. s \in lists[t] /\ s.type # "dir" /\ s.type \in Types /\ s \notin DirsOf(lists[t])
    BY DEF Dirs, DirsOf, Inv, Shapes, Entries
  <2>5. New(lists[t], nameseq[t], e) /\ e.type = s.type
    BY <2>4, NewIsNew DEF Inv
  <2>6. tree[q] \in Inodes
    BY <2>2, <2>3, <2>4, NodeOfEntry DEF Inv
  <2>7. PICK Q \in SUBSET {q} :
          /\ DOMAIN tree' = (DOMAIN tree \ Q) \cup {p}
          /\ \A r \in DOMAIN tree' : r # p => tree'[r] = tree[r]
          /\ tree'[p] = tree[q]
    <3>1. CASE Exists(p) /\ tree[p] = tree[q]
      <4>1. tree' = tree /\ p \in DOMAIN tree
        BY <2>3, <3>1 DEF Exists
      <4>2. {} \in SUBSET {q} /\ DOMAIN tree' = (DOMAIN tree \ {}) \cup {p}
        BY <4>1
      <4> QED
        BY <3>1, <4>1, <4>2
    <3>2. CASE ~(Exists(p) /\ tree[p] = tree[q])
      <4>1. tree' = [r \in (DOMAIN tree \ {q}) \cup {p} |->
                       IF r = p THEN tree[q] ELSE tree[r]]
        BY <2>3, <3>2
      <4>2. {q} \in SUBSET {q}
        OBVIOUS
      <4> QED
        BY <4>1, <4>2
    <3> QED
      BY <3>1, <3>2
  <2>8. Enters(t, {s}, Q, e)
    <3>1. Q \subseteq {Path(t, f) : f \in {s}} /\ {s} \cap DirsOf(lists[t]) = {}
          /\ {s} \subseteq lists[t]
      BY <2>2, <2>4, <2>7
    <3>2. tree'[p] \in Inodes \cup {Directory} /\ (tree'[p] = Directory <=> e.type = "dir")
      BY <2>4, <2>5, <2>6, <2>7, Constants
    <3> QED
      BY <1>1, <2>2, <2>3, <2>4, <2>5, <2>7, <3>1, <3>2 DEF Enters
  <2>9. Filed' /\ lists' \in [Threads -> SUBSET Entries] /\ nameseq' \in [Threads -> Nat]
    BY <2>8, EntersFiled, EntersLists DEF Inv
  <2> QED
    BY <1>1, <2>3, <2>9, NamesStep DEF Inv, Shapes
<1> QED
  BY <1>2, <1>3

LEMMA RemoveStep ==
  ASSUME Inv, NEW t \in Threads, Remove(t)
  PROVE  Inv'
<1>1. main = "run" /\ UNCHANGED <<map, main, old, todo, nameseq>>
  BY DEF Remove, Works, cleanup
<1>2. CASE Failed
  BY <1>1, <1>2, FailedStep DEF Remove
<1>3. CASE ~Failed
  <2>1. PICK e \in lists[t] :
          LET p == FentToName(t, e)
          IN /\ Exists(p) /\ Children(p) = {}
             /\ tree' = Without({p})
             /\ lists' = [lists EXCEPT ![t] = @ \ {e}]
             /\ UNCHANGED <<size, created, cutter>>
    BY <1>3 DEF Remove
  <2>2. /\ Exists(Path(t, e)) /\ Children(Path(t, e)) = {}
        /\ tree' = Without({Path(t, e)})
        /\ lists' = [lists EXCEPT ![t] = @ \ {e}]
        /\ UNCHANGED <<size, created, cutter>>
    BY <2>1, PathIsFent
  <2>3. Leaves(t, e)
    BY <1>1, <2>2 DEF Leaves
  <2>4. Filed' /\ lists' \in [Threads -> SUBSET Entries]
    BY <2>3, LeavesFiled DEF Inv
  <2> QED
    BY <1>1, <2>2, <2>4, NamesStep DEF Inv, Shapes
<1> QED
  BY <1>2, <1>3

\* what does not concern names, lists and the control of the run
LEMMA FilesStep ==
  ASSUME Inv, UNCHANGED <<lists, nameseq, tree, created, todo, old, main>>,
         map' \in [Threads -> [node : Nat, page : Nat]],
         size' \in [Inodes -> Nat], cutter' \in [Inodes -> Threads \cup {Nobody}],
         Mapped', main = "run"
  PROVE  Inv'
<1>1. Filed'
  <2>1. ListsOk' /\ Present' /\ Apart' /\ Noted'
    BY DEF Inv, Filed, ListsOk, Present, Apart, Noted, Path, Exists, Dirs
  <2>2. CreatedOk' /\ TreeOk' /\ Known' /\ Swept'
    BY DEF Inv, Filed, CreatedOk, TreeOk, Known, Swept, Holds, Exists, Leftover
  <2> QED
    BY <2>1, <2>2 DEF Filed
<1>2. Shapes'
  BY DEF Inv, Shapes
<1> QED
  BY <1>1, <1>2 DEF Inv

\* a file of the thread is an inode
LEMMA OpenableNode ==
  ASSUME Inv, NEW t \in Threads, NEW p \in Openable(t)
  PROVE  tree[p] \in Inodes
<1>1. PICK e \in lists[t] : e.type = "reg" /\ p = Path(t, e) /\ Exists(p)
  BY PathIsFent DEF Openable, OfType
<1> QED
  BY <1>1, NodeOfEntry DEF Inv

\* a thread that cuts a file short is another one than those that have it mapped
LEMMA SetSizeStep ==
  ASSUME Inv, NEW t \in Threads, Works(t), NEW i \in Inodes, NEW n \in Nat, SetSize(t, i, n)
  PROVE  Inv'
<1>1. /\ main = "run" /\ map[t] = NoMap
      /\ size' = [size EXCEPT ![i] = n]
      /\ cutter' = IF n < size[i] THEN [cutter EXCEPT ![i] = t] ELSE cutter
      /\ UNCHANGED <<lists, nameseq, map, tree, created, todo, main, old>>
  BY DEF Works, SetSize, cleanup
<1>2. /\ size' \in [Inodes -> Nat] /\ cutter' \in [Inodes -> Threads \cup {Nobody}]
      /\ \A j \in Inodes : size'[j] = IF j = i THEN n ELSE size[j]
      /\ \A j \in Inodes : cutter'[j] = IF j = i /\ n < size[i] THEN t ELSE cutter[j]
  BY <1>1 DEF Inv, Shapes
<1>3. Mapped'
  <2> SUFFICES ASSUME NEW u \in Threads, map[u] # NoMap
               PROVE  /\ map[u].node \in Inodes
                      /\ \/ map[u].page < size'[map[u].node]
                         \/ cutter'[map[u].node] \in Threads \ {u}
    BY <1>1 DEF Mapped
  <2>1. /\ map[u].node \in Inodes /\ u # t /\ map[u].page \in Nat /\ size[i] \in Nat
        /\ \/ map[u].page < size[map[u].node]
           \/ cutter[map[u].node] \in Threads \ {u}
    BY <1>1 DEF Inv, Mapped, Shapes
  <2>2. CASE map[u].node = i /\ n < size[i]
    BY <1>2, <2>1, <2>2
  <2>3. CASE map[u].node = i /\ ~(n < size[i])
    <3>1. map[u].page < size[i] => map[u].page < n
      BY <2>1, <2>3
    <3> QED
      BY <1>2, <2>1, <2>3, <3>1
  <2>4. CASE map[u].node # i
    BY <1>2, <2>1, <2>4
  <2> QED
    BY <2>2, <2>3, <2>4
<1> QED
  BY <1>1, <1>2, <1>3, FilesStep DEF Inv, Shapes

LEMMA SizesStep ==
  ASSUME Inv, NEW t \in Threads, Rw(t) \/ Truncate(t) \/ FallocRange(t)
  PROVE  Inv'
<1>1. Works(t)
  BY DEF Rw, Truncate, FallocRange
<1>2. ASSUME NEW p \in Openable(t)
      PROVE  tree[p] \in Inodes /\ size[tree[p]] \in Nat
  BY OpenableNode DEF Inv, Shapes
<1>3. CASE Rw(t)
  <2>1. PICK p \in Openable(t) : \E n \in size[tree[p]]..MaxSize : SetSize(t, tree[p], n)
    BY <1>3 DEF Rw
  <2>2. PICK n \in size[tree[p]]..MaxSize : SetSize(t, tree[p], n)
    BY <2>1
  <2>3. n \in Nat
    BY <1>2, <2>2
  <2> QED
    BY <1>1, <1>2, <2>2, <2>3, SetSizeStep
<1>4. CASE Truncate(t)
  <2>1. PICK p \in Openable(t) : \E n \in 0..MaxSize : SetSize(t, tree[p], n)
    BY <1>4 DEF Truncate
  <2>2. PICK n \in 0..MaxSize : SetSize(t, tree[p], n)
    BY <2>1
  <2> QED
    BY <1>1, <1>2, <2>2, SetSizeStep
<1>5. CASE FallocRange(t)
  <2>1. PICK p \in Openable(t) :
          \E n \in Min({1, size[tree[p]]})..MaxSize : SetSize(t, tree[p], n)
    BY <1>5 DEF FallocRange
  <2>2. PICK n \in Min({1, size[tree[p]]})..MaxSize : SetSize(t, tree[p], n)
    BY <2>1
  <2>3. Min({1, size[tree[p]]}) \in Nat
    <3>1. {1, size[tree[p]]} \in SUBSET Nat /\ {1, size[tree[p]]} # {}
      BY <1>2
    <3>2. \E x \in {1, size[tree[p]]} : \A y \in {1, size[tree[p]]} : x <= y
      BY <3>1, LeastNumber
    <3>3. Min({1, size[tree[p]]}) \in {1, size[tree[p]]}
      BY <3>2 DEF Min
    <3> QED
      BY <3>1, <3>3
  <2>4. n \in Nat
    BY <2>2, <2>3
  <2> QED
    BY <1>1, <1>2, <2>2, <2>4, SetSizeStep
<1> QED
  BY <1>3, <1>4, <1>5

LEMMA LookStep ==
  ASSUME Inv, NEW t \in Threads, Look(t) \/ Expire(t)
  PROVE  Inv'
<1>1. /\ main = "run"
      /\ UNCHANGED <<lists, nameseq, map, tree, size, cutter, created, todo, main, old>>
  BY DEF Look, Expire, Works, disk, cleanup, ghosts
<1>2. Mapped'
  BY <1>1 DEF Inv, Mapped
<1> QED
  BY <1>1, <1>2, FilesStep DEF Inv, Shapes

LEMMA MapOpenStep ==
  ASSUME Inv, NEW t \in Threads, MapOpen(t)
  PROVE  Inv'
<1>1. /\ main = "run"
      /\ UNCHANGED <<lists, nameseq, tree, size, cutter, created, todo, main, old>>
  BY DEF MapOpen, Works, disk, cleanup, ghosts
<1>2. PICK e \in OfType(t, {"reg"}) :
        LET p == FentToName(t, e)
        IN /\ Exists(p) /\ size[tree[p]] > 0
           /\ \E k \in 0..size[tree[p]] - 1 :
                map' = [map EXCEPT ![t] = [node |-> tree[p], page |-> k]]
  BY DEF MapOpen
<1>3. PICK i, k : /\ i = tree[Path(t, e)] /\ Exists(Path(t, e))
                  /\ k \in 0..size[i] - 1
                  /\ map' = [map EXCEPT ![t] = [node |-> i, page |-> k]]
  BY <1>2, PathIsFent
<1>4. e \in lists[t] /\ e.type # "dir"
  BY DEF OfType
<1>5. i \in Inodes
  BY <1>3, <1>4, NodeOfEntry DEF Inv
<1>6. k \in Nat /\ k < size[i] /\ i \in Nat
  BY <1>3, <1>5, Constants DEF Inv, Shapes
<1>7. map' \in [Threads -> [node : Nat, page : Nat]]
  BY <1>3, <1>6 DEF Inv, Shapes
<1>8. map'[t].node = i /\ map'[t].page = k /\ \A u \in Threads : u # t => map'[u] = map[u]
  BY <1>3 DEF Inv, Shapes
<1>9. Mapped'
  BY <1>1, <1>5, <1>6, <1>8 DEF Inv, Mapped
<1> QED
  BY <1>1, <1>7, <1>9, FilesStep DEF Inv, Shapes

LEMMA MapWriteStep ==
  ASSUME Inv, NEW t \in Threads, MapWrite(t)
  PROVE  Inv'
<1>1. /\ main = "run" /\ map[t] # NoMap
      /\ UNCHANGED <<lists, nameseq, tree, size, cutter, created, todo, old>>
  BY DEF MapWrite, disk, cleanup, ghosts
<1>2. CASE map[t].page < size[map[t].node] /\ map' = [map EXCEPT ![t] = NoMap] /\ main' = main
  <2>1. map' \in [Threads -> [node : Nat, page : Nat]]
    BY <1>2 DEF Inv, Shapes, NoMap
  <2>2. map'[t] = NoMap /\ \A u \in Threads : u # t => map'[u] = map[u]
    BY <1>2 DEF Inv, Shapes
  <2>3. Mapped'
    BY <1>1, <2>2 DEF Inv, Mapped
  <2> QED
    BY <1>1, <1>2, <2>1, <2>3, FilesStep DEF Inv, Shapes
<1>3. CASE main' = "sigbus" /\ UNCHANGED map
  <2>1. ListsOk' /\ Present' /\ Apart' /\ Noted'
    BY <1>1, <1>3 DEF Inv, Filed, ListsOk, Present, Apart, Noted, Path, Exists, Dirs
  <2>2. CreatedOk' /\ TreeOk' /\ Known' /\ Swept'
    BY <1>1, <1>3 DEF Inv, Filed, CreatedOk, TreeOk, Known, Swept, Holds, Exists, Leftover
  <2>3. Shapes' /\ Mapped'
    BY <1>1, <1>3 DEF Inv, Shapes, Mapped
  <2> QED
    BY <2>1, <2>2, <2>3 DEF Inv, Filed
<1> QED
  BY <1>2, <1>3 DEF MapWrite

-----------------------------------------------------------------------------
(* The cleanup. *)

\* paths of which nothing is left but the longest can be chosen from
LEMMA Longest ==
  ASSUME CreatedOk, todo \subseteq created, todo # {}
  PROVE  \E q \in todo : \A r \in todo : Len(r) <= Len(q)
<1>1. PICK b \in Nat : \A p \in created : Len(p) <= b
  BY DEF CreatedOk
<1>2. \A p \in todo : Len(p) \in Nat /\ Len(p) <= b
  BY <1>1 DEF CreatedOk, Paths
<1> DEFINE B == {n \in Nat : \A p \in todo : Len(p) <= n}
<1>3. PICK m \in B : \A n \in B : m <= n
  <2>1. B \in SUBSET Nat /\ B # {}
    BY <1>1, <1>2
  <2> HIDE DEF B
  <2> QED
    BY <2>1, LeastNumber
<1>4. SUFFICES ASSUME \A q \in todo : Len(q) # m PROVE FALSE
  BY <1>2, <1>3
<1>5. \A p \in todo : Len(p) < m
  BY <1>2, <1>3, <1>4
<1>6. m \in Nat /\ m - 1 \in Nat /\ \A p \in todo : Len(p) <= m - 1
  BY <1>2, <1>3, <1>5
<1>7. m - 1 \in B
  BY <1>6
<1>8. m <= m - 1
  BY <1>3, <1>7
<1> QED
  BY <1>6, <1>8

\* the names change, and nothing else but the control of the run
LEMMA CleanupStep ==
  ASSUME Inv, UNCHANGED <<lists, nameseq, map, size, cutter, created, old>>,
         main # "run", main # "sigbus", main' \in {"sweep", "rounds", "clean", "done"},
         TreeOk', Known', Swept'
  PROVE  Inv'
<1>1. ListsOk' /\ Present' /\ Apart' /\ Noted' /\ CreatedOk'
  BY DEF Inv, Filed, ListsOk, Present, Apart, Noted, Path, Exists, Dirs, CreatedOk
<1>2. Shapes' /\ Mapped'
  BY DEF Inv, Shapes, Mapped
<1> QED
  BY <1>1, <1>2 DEF Inv, Filed

LEMMA JoinStep ==
  ASSUME Inv, Join
  PROVE  Inv'
<1>1. /\ main = "run" /\ UNCHANGED <<lists, nameseq, map, size, cutter, created, old, tree>>
      /\ main' \in {"sweep", "done"} /\ (todo' = created \/ (main' # "sweep" /\ todo' = todo))
  BY DEF Join, local, disk, ghosts
<1>2. ListsOk' /\ Present' /\ Apart' /\ Noted' /\ CreatedOk'
  BY <1>1 DEF Inv, Filed, ListsOk, Present, Apart, Noted, Path, Exists, Dirs, CreatedOk
<1>3. TreeOk' /\ Known' /\ Swept'
  BY <1>1 DEF Inv, Filed, TreeOk, Known, Swept, Holds, Exists, Leftover
<1>4. Shapes' /\ Mapped'
  BY <1>1 DEF Inv, Shapes, Mapped
<1> QED
  BY <1>2, <1>3, <1>4 DEF Inv, Filed

\* of what is left, the longest path has nothing below it
LEMMA SweepStep ==
  ASSUME Inv, Sweep
  PROVE  Inv'
<1>1. main = "sweep" /\ UNCHANGED <<lists, nameseq, map, size, cutter, created, old>>
  BY DEF Sweep, local, ghosts
<1>2. CASE todo = {} /\ main' = "rounds" /\ UNCHANGED <<tree, todo>>
  <2>1. TreeOk' /\ Known' /\ Swept'
    BY <1>1, <1>2 DEF Inv, Filed, TreeOk, Known, Swept, Holds, Exists, Leftover
  <2> QED
    BY <1>1, <1>2, <2>1, CleanupStep
<1>3. CASE todo # {} /\ UNCHANGED main
  <2>1. PICK p : p = CHOOSE q \in todo : \A r \in todo : Len(r) <= Len(q)
    OBVIOUS
  <2>2. p \in todo /\ \A r \in todo : Len(r) <= Len(p)
    BY <1>3, <2>1, Longest DEF Inv, Filed, Swept
  <2>3. /\ todo' = todo \ {p}
        /\ tree' = IF Exists(p) /\ Children(p) = {} THEN Without({p}) ELSE tree
    BY <1>1, <1>3, <2>1 DEF Sweep
  <2>4. p \in created /\ p \in Paths \ {Base} /\ Len(p) \in Nat \ {0}
    BY <2>2 DEF Inv, Filed, Swept, CreatedOk, Paths, Base
  <2>5. Children(p) = {}
    <3> SUFFICES ASSUME NEW c \in Children(p) PROVE FALSE
      OBVIOUS
    <3>1. c \in DOMAIN tree /\ c \in Paths \ {Base} /\ Parent(c) = p
      BY DEF Children, Inv, Filed, TreeOk
    <3>2. Len(c) = Len(p) + 1
      BY <2>4, <3>1 DEF Parent, Paths, Base
    <3>3. c \notin Leftover
      <4> SUFFICES ASSUME NEW n \in old, c = <<n>> PROVE FALSE
        BY DEF Leftover
      <4>1. Len(c) = 1
        OBVIOUS
      <4> QED
        BY <2>4, <3>2, <4>1
    <3>4. c \in todo
      BY <1>1, <3>1, <3>3 DEF Inv, Filed, Known, Swept
    <3> QED
      BY <2>2, <2>4, <3>2, <3>4
  <2>6. tree' = Without({p}) \/ (tree' = tree /\ p \notin DOMAIN tree)
    BY <2>3, <2>5 DEF Exists
  <2>7. DOMAIN tree' = DOMAIN tree \ {p}
    BY <2>6 DEF Without
  <2>8. TreeOk'
    <3>1. CASE tree' = Without({p})
      BY <2>5, <3>1, PrunedTree DEF Inv, Filed
    <3>2. CASE tree' = tree
      BY <3>2 DEF Inv, Filed, TreeOk, Holds, Exists
    <3> QED
      BY <2>6, <3>1, <3>2
  <2>9. Known' /\ Swept'
    BY <1>1, <1>3, <2>3, <2>4, <2>7 DEF Inv, Filed, Known, Swept, Leftover
  <2> QED
    BY <1>1, <1>3, <2>8, <2>9, CleanupStep
<1> QED
  BY <1>1, <1>2, <1>3 DEF Sweep

LEMMA RoundsStep ==
  ASSUME Inv, Rounds \/ Report
  PROVE  Inv'
<1>1. /\ main \in {"rounds", "clean"}
      /\ UNCHANGED <<lists, nameseq, map, size, cutter, created, old, todo>>
  BY DEF Rounds, Report, local, ghosts, disk, cleanup
<1>2. CASE Rounds
  <2>1. PICK empty :
          empty = {p \in created : Exists(p) /\ tree[p] = Directory /\ Children(p) = {}}
    OBVIOUS
  <2>2. tree' = Without(empty) /\ main' \in {"rounds", "clean"}
    BY <1>2, <2>1 DEF Rounds
  <2>3. empty = {}
    BY <1>1, <2>1 DEF Inv, Filed, Swept, Exists
  <2>4. DOMAIN tree' = DOMAIN tree
    BY <2>2, <2>3 DEF Without
  <2>5. TreeOk'
    BY <2>2, <2>3, PrunedTree DEF Inv, Filed
  <2>6. Known' /\ Swept'
    BY <1>1, <2>2, <2>4 DEF Inv, Filed, Known, Swept, Leftover
  <2> QED
    BY <1>1, <2>2, <2>5, <2>6, CleanupStep
<1>3. CASE Report
  <2>1. main' = "done" /\ UNCHANGED tree
    BY <1>3 DEF Report, disk
  <2>2. TreeOk' /\ Known' /\ Swept'
    BY <1>1, <2>1 DEF Inv, Filed, TreeOk, Known, Swept, Holds, Exists, Leftover
  <2> QED
    BY <1>1, <2>1, <2>2, CleanupStep
<1> QED
  BY <1>2, <1>3

-----------------------------------------------------------------------------
(* Theorems. *)

LEMMA StutterStep ==
  ASSUME Inv, UNCHANGED vars
  PROVE  Inv'
<1>1. UNCHANGED <<lists, nameseq, map, tree, size, created, todo, main, old, cutter>>
  BY DEF vars, local, disk, cleanup, ghosts
<1>2. ListsOk' /\ Present' /\ Apart' /\ Noted'
  BY <1>1 DEF Inv, Filed, ListsOk, Present, Apart, Noted, Path, Exists, Dirs
<1>3. CreatedOk' /\ TreeOk' /\ Known' /\ Swept'
  BY <1>1 DEF Inv, Filed, CreatedOk, TreeOk, Known, Swept, Holds, Exists, Leftover
<1>4. Shapes' /\ Mapped'
  BY <1>1 DEF Inv, Shapes, Mapped
<1> QED
  BY <1>2, <1>3, <1>4 DEF Inv, Filed

\* The inductive invariant of the threads, of the tree they work on and of the
\* cleanup that follows them.
THEOREM FsstressInvariance == Spec => []Inv
<1>1. ASSUME Inv, [Next]_vars
      PROVE  Inv'
  <2>1. ASSUME NEW t \in Threads, Thread(t)
        PROVE  Inv'
    BY <1>1, <2>1, CreatStep, LinkStep, RenameStep, RemoveStep, LookStep, SizesStep,
       MapOpenStep, MapWriteStep, MakeStep DEF Thread
  <2>2. CASE UNCHANGED vars
    BY <1>1, <2>2, StutterStep
  <2> QED
    BY <1>1, <2>1, <2>2, JoinStep, SweepStep, RoundsStep DEF Next, Finished
<1> QED
  BY <1>1, InitInv, PTL DEF Spec

\* What the list of a thread says of the directories it has made is true for as
\* long as the threads run: fent_to_name finds the parent of every entry, what is
\* below a directory of the thread is there, and it is the directory of no other.
THEOREM ListsMatchTheTree == Spec => []ListsAreExact
<1>1. Inv => ListsAreExact
  <2> SUFFICES ASSUME Inv, main = "run", NEW t \in Threads, NEW e \in lists[t]
               PROVE  /\ e.parent # e.id => \E d \in Dirs(t) : d.id = e.parent
                      /\ e.parent # e.id \/ e.type = "dir" => Exists(FentToName(t, e))
                      /\ e.type = "dir" =>
                           \A u \in Threads \ {t} : \A d \in Dirs(u) :
                             FentToName(u, d) # FentToName(t, e)
    BY DEF ListsAreExact
  <2>1. e.parent # e.id => \E d \in Dirs(t) : d.id = e.parent
    BY DEF Inv, Filed, ListsOk, Sound, Inside, Dirs, DirsOf
  <2>2. Claimed(e) => Exists(Path(t, e))
    BY DEF Inv, Filed, Present
  <2>3. e.type = "dir" =>
          \A u \in Threads \ {t} : \A d \in Dirs(u) : Path(u, d) # Path(t, e)
    BY DEF Inv, Filed, Apart, Dirs
  <2> QED
    BY <2>1, <2>2, <2>3, PathIsFent DEF Claimed
<1> QED
  BY <1>1, FsstressInvariance, PTL

\* Behind the cleanup of -c there is what was there before and the run has never
\* opened, renamed onto or linked, and nothing else.
THEOREM CleanupRestores == Spec => []CleanupIsExact
<1>1. Inv => CleanupIsExact
  BY DEF Inv, Filed, Known, Swept, Leftover, CleanupIsExact
<1> QED
  BY <1>1, FsstressInvariance, PTL

\* A mapping is behind the end of its file only if another thread has cut the file
\* short since it was made, the cause that the handler of SIGBUS reports.
THEOREM OnlyOthersCutMappings == Spec => []BehindEndIsRace
<1>1. Inv => BehindEndIsRace
  <2> SUFFICES ASSUME Inv, NEW t \in Threads, map[t] # NoMap,
                      map[t].page >= size[map[t].node]
               PROVE  cutter[map[t].node] \in Threads \ {t}
    BY DEF BehindEndIsRace
  <2>1. map[t].page \in Nat /\ size[map[t].node] \in Nat
        /\ \/ map[t].page < size[map[t].node]
           \/ cutter[map[t].node] \in Threads \ {t}
    BY DEF Inv, Mapped, Shapes
  <2> QED
    BY <2>1
<1> QED
  BY <1>1, FsstressInvariance, PTL

-----------------------------------------------------------------------------
(* smallfile: the control of the threads. *)


\* a descriptor of swift-put is open while it writes the temporary file
OpenInClose == \A t \in Tids : opened[t] <=> pc[t] = "close"

\* the state of a thread and its figures
Placed(t) ==
  /\ pc[t] \in {"pre", "wait"} =>
       filenum[t] = 0 /\ processed[t] = 0 /\ ~ended[t] /\ status[t] = "ok"
  /\ pc[t] = "next" => processed[t] = filenum[t]
  /\ pc[t] \in {"op", "close", "advise"} => processed[t] + 1 = filenum[t]
  /\ pc[t] \in {"next", "op", "close", "advise"} =>
       status[t] = "ok" /\ (ended[t] => FinishAll)
  /\ pc[t] \in {"close", "advise"} => Op = "swift-put"
  /\ pc[t] = "tidy" => Op = "cleanup" /\ status[t] = "ok"
  /\ pc[t] \in {"tidy", "over", "done"} /\ status[t] = "ok" /\ Op # "swift-put" =>
       /\ processed[t] = filenum[t] /\ ended[t]
       /\ filenum[t] = Iterations \/ (~FinishAll /\ Stonewall)

\* when the figures were frozen, and by what
Figured(t) ==
  ended[t] =>
    /\ files[t] <= filenum[t]
    /\ FinishAll \/ files[t] = filenum[t]
    /\ files[t] < Iterations /\ status[t] = "ok" /\ Op # "swift-put" => flag

\* the flag was raised by a thread that has gone through its files
Raised ==
  flag => \E u \in Tids : ended[u] /\ files[u] = Iterations /\ filenum[u] = Iterations

\* nobody passes the barrier before all have come
Gathered ==
  \A t \in Tids :
    \/ pc[t] \in {"next", "op", "close", "advise", "tidy", "over"}
    \/ pc[t] = "done" /\ status[t] = "ok"
    => arrived = Tids

-----------------------------------------------------------------------------
NamesOf(t, n) == {x \in names : x[2] = t /\ x[3] = n}

SrcName(t, n) == <<"src", t, n, "">>
DstName(t, n) == <<"dst", t, n, "">>
DotDName(t, n) == <<"src", t, n, ".d">>
LinkName(t, n) == <<"dst", t, n, ".s">>

\* the names of a file behind phase p
Made(p, t, n) ==
  IF opt.suite
    THEN CASE p \in 2..4 -> {SrcName(t, n)}
           [] p = 5 -> {DstName(t, n)}
           [] OTHER -> {}
    ELSE CASE p \in 2..9 -> {SrcName(t, n)}
           [] p \in {10, 12, 13, 14} -> {SrcName(t, n), LinkName(t, n)}
           [] p = 11 -> {SrcName(t, n), LinkName(t, n), DotDName(t, n)}
           [] p = 15 -> {LinkName(t, n)}
           [] OTHER -> {}

Tracked ==
  \/ opt.suite /\ opt.faults = "none"
  \/ Alone /\ ph <= 15

LastUse == IF opt.suite THEN 6 ELSE 15

FilesTracked(t) ==
  Tracked =>
    /\ status[t] = "ok"
    /\ \A n \in FileNums :
         /\ n <= processed[t] => NamesOf(t, n) = Made(ph, t, n)
         /\ n > processed[t] /\ ph > 1 => NamesOf(t, n) = Made(ph - 1, t, n)

DirsTracked(t) ==
  Tracked =>
    /\ ph \in 3..LastUse => Subdirs(t) \subseteq dirs
    /\ ph = 2 /\ t \in arrived /\ ~LeavesDirsTo0(t) => Subdirs(t) \subseteq dirs
    /\ opt.suite /\ ~opt.shared =>
         /\ ph = 7 /\ pc[t] = "tidy" => dirs \cap Subdirs(t) \subseteq left[t]
         /\ ph = 7 /\ pc[t] \in {"over", "done"} => dirs \cap Subdirs(t) = {}
         /\ ph = 8 => dirs \cap Subdirs(t) = {}

AttrsTracked(t) ==
  Tracked /\ ~opt.suite =>
    \A n \in FileNums :
      /\ ph \in 3..14 \/ (ph = 2 /\ n <= processed[t]) =>
           <<SrcName(t, n), "ctime">> \in attrs
      /\ ph \in 7..14 \/ (ph = 6 /\ n <= processed[t]) =>
           <<SrcName(t, n), "user">> \in attrs

Control ==
  /\ TypeOK /\ OpenInClose /\ Raised /\ Gathered
  /\ \A t \in Tids : Placed(t) /\ Figured(t)

Tracks ==
  \A t \in Tids : FilesTracked(t) /\ DirsTracked(t) /\ AttrsTracked(t)

SmallfileInv == Control /\ Tracks

-----------------------------------------------------------------------------
(* The constants, the phases and the directories. *)

LEMMA TidFacts ==
  /\ T \in Nat /\ T >= 1 /\ Iterations \in Nat /\ Iterations >= 1
  /\ \A t \in Tids : t \in Nat /\ t < T
  /\ 0 \in Tids
  /\ \A n \in FileNums : n \in Nat /\ n >= 1 /\ n <= Iterations
  /\ \A n \in Nat : n >= 1 /\ n <= Iterations => n \in FileNums
BY SmallfileAssumption DEF Tids, FileNums

\* a division by the number of files per directory
LEMMA DirNumFacts ==
  ASSUME NEW n \in Nat
  PROVE  /\ DirNum(n) \in Nat
         /\ n <= Iterations => DirNum(n) \in SubdirNums
         /\ \A m \in Nat : m <= n => DirNum(m) <= DirNum(n)
<1> DEFINE F == FilesPerDir
           q == n \div F
<1>1. F \in Nat \ {0} /\ Iterations \in Nat
  BY SmallfileAssumption
<1>2. q \in Nat /\ n % F \in 0..F-1 /\ n = (F * q) + (n % F)
  BY <1>1
<1>3. (F * q) % F = 0 /\ (F * q) \div F = q /\ F * q \in Nat
  BY <1>1, <1>2
<1>4. ASSUME n <= Iterations
      PROVE  DirNum(n) \in SubdirNums
  <2>1. F * q \in 0..Iterations + F - 1
    BY <1>1, <1>2, <1>3, <1>4
  <2> QED
    BY <2>1, <1>3 DEF SubdirNums, DirNum
<1>5. \A m \in Nat : m <= n => DirNum(m) <= DirNum(n)
  BY <1>1 DEF DirNum
<1> QED
  BY <1>2, <1>4, <1>5 DEF DirNum

LEMMA PlanFacts ==
  ASSUME opt \in Options
  PROVE  /\ opt \in OptionType /\ Len(opt.plan) \in Nat /\ opt.plan \in Seq(Ops)
         /\ \A p \in 1..Len(opt.plan) : opt.plan[p] \in Ops
         /\ opt.suite =>
              /\ Len(opt.plan) = 7
              /\ opt.plan[1] = "cleanup" /\ opt.plan[2] = "create"
              /\ opt.plan[3] = "read" /\ opt.plan[4] = "append"
              /\ opt.plan[5] = "rename" /\ opt.plan[6] = "delete-renamed"
              /\ opt.plan[7] = "cleanup"
         /\ Alone =>
              /\ Len(opt.plan) = 16
              /\ opt.plan[1] = "cleanup" /\ opt.plan[2] = "create"
              /\ opt.plan[3] = "overwrite" /\ opt.plan[4] = "stat"
              /\ opt.plan[5] = "chmod" /\ opt.plan[6] = "setxattr"
              /\ opt.plan[7] = "getxattr" /\ opt.plan[8] = "readdir"
              /\ opt.plan[9] = "ls-l" /\ opt.plan[10] = "symlink"
              /\ opt.plan[11] = "mkdir" /\ opt.plan[12] = "rmdir"
              /\ opt.plan[13] = "await-create" /\ opt.plan[14] = "swift-get"
              /\ opt.plan[15] = "delete" /\ opt.plan[16] = "swift-put"
<1>1. opt \in OptionType
  BY SmallfileAssumption
<1>2. opt.plan \in Seq(Ops)
  BY <1>1 DEF OptionType
<1>3. opt.suite => opt.plan = DefaultPhases
  BY SmallfileAssumption
<1>4. Alone => opt.plan = AllOps
  BY DEF Alone
<1>5. /\ Len(opt.plan) \in Nat
      /\ \A p \in 1..Len(opt.plan) : opt.plan[p] \in Ops
  BY <1>2
<1>6. ASSUME opt.suite
      PROVE  opt.plan = <<"cleanup", "create", "read", "append", "rename",
                          "delete-renamed", "cleanup">>
  BY <1>3, <1>6 DEF DefaultPhases
<1>7. ASSUME Alone
      PROVE  opt.plan = <<"cleanup", "create", "overwrite", "stat", "chmod", "setxattr",
                          "getxattr", "readdir", "ls-l", "symlink", "mkdir", "rmdir",
                          "await-create", "swift-get", "delete", "swift-put">>
  BY <1>4, <1>7 DEF AllOps
<1>8. opt.suite => /\ Len(opt.plan) = 7
                   /\ opt.plan[1] = "cleanup" /\ opt.plan[2] = "create"
                   /\ opt.plan[3] = "read" /\ opt.plan[4] = "append"
                   /\ opt.plan[5] = "rename" /\ opt.plan[6] = "delete-renamed"
                   /\ opt.plan[7] = "cleanup"
  BY <1>6
<1>9. Alone => /\ Len(opt.plan) = 16
               /\ opt.plan[1] = "cleanup" /\ opt.plan[2] = "create"
               /\ opt.plan[3] = "overwrite" /\ opt.plan[4] = "stat"
               /\ opt.plan[5] = "chmod" /\ opt.plan[6] = "setxattr"
               /\ opt.plan[7] = "getxattr" /\ opt.plan[8] = "readdir"
               /\ opt.plan[9] = "ls-l" /\ opt.plan[10] = "symlink"
               /\ opt.plan[11] = "mkdir" /\ opt.plan[12] = "rmdir"
               /\ opt.plan[13] = "await-create" /\ opt.plan[14] = "swift-get"
               /\ opt.plan[15] = "delete" /\ opt.plan[16] = "swift-put"
  BY <1>7
<1> QED
  BY <1>1, <1>2, <1>5, <1>8, <1>9

LEMMA SubdirFacts ==
  ASSUME NEW t \in Tids, NEW n \in FileNums, NEW x
  PROVE  /\ Subdirs(t) \subseteq Directories
         /\ x[1] \in Trees /\ x[2] = t /\ x[3] = n => DirOf(x) \in Subdirs(t)
         /\ LeavesDirsTo0(t) => Subdirs(t) = Subdirs(0) /\ t # 0
         /\ ~LeavesDirsTo0(0)
         /\ {SrcName(t, n), DstName(t, n), DotDName(t, n), LinkName(t, n)} \subseteq Names
<1>1. n \in Nat /\ n <= Iterations /\ t \in 0..T /\ T \in 0..T
  BY TidFacts
<1>2. DirNum(n) \in SubdirNums
  BY <1>1, DirNumFacts
<1>3. Subdirs(t) \subseteq Directories
  BY <1>1 DEF Subdirs, Directories, Shared
<1>4. x[1] \in Trees /\ x[2] = t /\ x[3] = n => DirOf(x) \in Subdirs(t)
  BY <1>2 DEF DirOf, Subdirs
<1>5. LeavesDirsTo0(t) => Subdirs(t) = Subdirs(0) /\ t # 0
  BY DEF LeavesDirsTo0, Subdirs
<1>6. "" \in Suffixes("src") /\ ".d" \in Suffixes("src")
      /\ "" \in Suffixes("dst") /\ ".s" \in Suffixes("dst")
  BY DEF Suffixes
<1>7. \A s \in Trees : \A e \in Suffixes(s) : <<s, t, n, e>> \in Names
  BY DEF Names
<1>8. {SrcName(t, n), DstName(t, n), DotDName(t, n), LinkName(t, n)} \subseteq Names
  BY <1>6, <1>7 DEF Trees, SrcName, DstName, DotDName, LinkName
<1> QED
  BY <1>3, <1>4, <1>5, <1>8 DEF LeavesDirsTo0

-----------------------------------------------------------------------------
(* Steps of a thread: control and figures. *)

Kinds == {"user", "ctime"}
GatheredAt == {"next", "op", "close", "advise", "tidy", "over"}

\* thread t moves, the others stay where they are
OthersStay(t) ==
  \A u \in Tids : u # t =>
    /\ pc'[u] = pc[u] /\ filenum'[u] = filenum[u] /\ ended'[u] = ended[u]
    /\ files'[u] = files[u] /\ status'[u] = status[u] /\ processed'[u] = processed[u]
    /\ opened'[u] = opened[u] /\ left'[u] = left[u]

Complete(t) == ended[t] /\ files[t] = Iterations /\ filenum[t] = Iterations

LEMMA ControlFrame ==
  ASSUME Control, NEW t \in Tids, UNCHANGED <<opt, ph>>, TypeOK', OthersStay(t),
         flag => flag', arrived \subseteq arrived',
         opened'[t] <=> pc'[t] = "close", Placed(t)', Figured(t)',
         flag' => flag \/ Complete(t)', Complete(t) => Complete(t)',
         pc'[t] \in GatheredAt \/ (pc'[t] = "done" /\ status'[t] = "ok") => arrived' = Tids
  PROVE  Control'
<1>1. Op' = Op /\ FinishAll' = FinishAll /\ Stonewall' = Stonewall
  BY DEF Op, FinishAll, Stonewall
<1>2. OpenInClose'
  BY DEF Control, OpenInClose, OthersStay
<1>3. Raised'
  <2>1. \A u \in Tids : Complete(u) => Complete(u)'
    BY DEF OthersStay, Complete
  <2>2. flag => \E u \in Tids : Complete(u)
    BY DEF Control, Raised, Complete
  <2> QED
    BY <2>1, <2>2 DEF Raised, Complete
<1>4. Gathered'
  <2>1. arrived' \subseteq Tids
    BY DEF TypeOK
  <2>2. \A u \in Tids : u # t => pc'[u] = pc[u] /\ status'[u] = status[u]
    BY DEF OthersStay
  <2>3. arrived = Tids => arrived' = Tids
    BY <2>1
  <2> QED
    BY <2>2, <2>3 DEF Control, Gathered, GatheredAt
<1>5. \A u \in Tids : u # t => Placed(u)'
  <2> SUFFICES ASSUME NEW u \in Tids, u # t PROVE Placed(u)'
    OBVIOUS
  <2>1. Placed(u)
    BY DEF Control
  <2> QED
    BY <2>1, <1>1 DEF Placed, OthersStay
<1>6. \A u \in Tids : u # t => Figured(u)'
  <2> SUFFICES ASSUME NEW u \in Tids, u # t PROVE Figured(u)'
    OBVIOUS
  <2>1. Figured(u)
    BY DEF Control
  <2> QED
    BY <2>1, <1>1 DEF Figured, OthersStay
<1> QED
  BY <1>2, <1>3, <1>4, <1>5, <1>6 DEF Control

LEMMA OpFacts ==
  ASSUME Control, ~RunOver
  PROVE  Op \in Ops /\ ph \in 1..Len(opt.plan)
<1>1. opt \in Options /\ ph \in 1..Len(opt.plan) + 1
  BY DEF Control, TypeOK
<1>2. Len(opt.plan) \in Nat /\ \A p \in 1..Len(opt.plan) : opt.plan[p] \in Ops
  BY <1>1, PlanFacts
<1>3. ph \in 1..Len(opt.plan)
  BY <1>1, <1>2 DEF RunOver
<1> QED
  BY <1>2, <1>3 DEF Op

\* what the invariant says of one thread
LEMMA ThreadFacts ==
  ASSUME Control, NEW t \in Tids
  PROVE  /\ Placed(t) /\ Figured(t)
         /\ filenum[t] \in Nat /\ filenum[t] <= Iterations
         /\ files[t] \in Nat /\ files[t] <= Iterations
         /\ processed[t] \in Nat /\ processed[t] <= Iterations
         /\ ended[t] \in BOOLEAN /\ status[t] \in {"ok", "error"}
         /\ opened[t] <=> pc[t] = "close"
         /\ pc[t] \in GatheredAt => arrived = Tids
BY TidFacts DEF Control, TypeOK, OpenInClose, Gathered, GatheredAt

LEMMA SetupControl ==
  ASSUME Control, NEW t \in Tids, Setup(t)
  PROVE  Control'
<1>0. Placed(t) /\ Figured(t) /\ pc[t] = "pre" /\ ~opened[t]
  BY ThreadFacts DEF Setup
<1>1. TypeOK'
  <2>1. Subdirs(t) \subseteq Directories
    BY SubdirFacts, TidFacts
  <2>2. dirs' \subseteq Directories
    BY <2>1 DEF Setup, Control, TypeOK
  <2> QED
    BY <2>2 DEF Setup, Arrive, Goto, Control, TypeOK
<1>2. OthersStay(t)
  BY DEF Setup, Arrive, Goto, OthersStay, Control, TypeOK
<1>3. /\ UNCHANGED <<opt, ph, filenum, ended, files, processed, flag, opened>>
      /\ \/ pc'[t] = "wait" /\ status' = status
         \/ pc'[t] = "done" /\ status'[t] = "error"
      /\ arrived \subseteq arrived'
  BY DEF Setup, Arrive, Goto, Control, TypeOK
<1>4. Placed(t)' /\ Figured(t)'
  BY <1>0, <1>3 DEF Placed, Figured
<1>5. (flag' => flag \/ Complete(t)') /\ (Complete(t) => Complete(t)')
  BY <1>3 DEF Complete
<1> QED
  BY <1>0, <1>1, <1>2, <1>3, <1>4, <1>5, ControlFrame DEF GatheredAt

LEMMA PassBarrierControl ==
  ASSUME Control, NEW t \in Tids, PassBarrier(t)
  PROVE  Control'
<1>0. Placed(t) /\ Figured(t) /\ pc[t] = "wait" /\ ~opened[t] /\ arrived = Tids
  BY ThreadFacts DEF PassBarrier
<1>1. TypeOK'
  BY DEF PassBarrier, Goto, Control, TypeOK, workload, system
<1>2. OthersStay(t)
  BY DEF PassBarrier, Goto, OthersStay, Control, TypeOK, workload
<1>3. /\ UNCHANGED <<opt, ph, filenum, ended, files, processed, flag, opened, status, arrived>>
      /\ pc'[t] = "next"
  BY DEF PassBarrier, Goto, Control, TypeOK, workload
<1>4. Placed(t)' /\ Figured(t)'
  BY <1>0, <1>3 DEF Placed, Figured
<1>5. (flag' => flag \/ Complete(t)') /\ (Complete(t) => Complete(t)')
  BY <1>3 DEF Complete
<1> QED
  BY <1>0, <1>1, <1>2, <1>3, <1>4, <1>5, ControlFrame DEF GatheredAt

\* end_test: what the figures are behind it
LEMMA EndTestFacts ==
  ASSUME Control, NEW t \in Tids, EndTest(t), filenum' = filenum
  PROVE  /\ ended'[t] /\ (Complete(t) => Complete(t)')
         /\ (flag => flag') /\ (flag' => flag \/ Complete(t)')
         /\ \A u \in Tids : u # t => ended'[u] = ended[u] /\ files'[u] = files[u]
         /\ ended' \in [Tids -> BOOLEAN] /\ files' \in [Tids -> 0..Iterations]
         /\ flag' \in BOOLEAN
         /\ ended[t] => files'[t] = files[t] /\ flag' = flag
         /\ ~ended[t] => files'[t] = filenum[t] /\ (filenum[t] = Iterations => flag')
<1>1. /\ filenum[t] \in 0..Iterations /\ files \in [Tids -> 0..Iterations]
      /\ ended \in [Tids -> BOOLEAN] /\ flag \in BOOLEAN /\ Iterations \in Nat
  BY TidFacts DEF Control, TypeOK
<1>2. CASE ended[t]
  BY <1>1, <1>2 DEF EndTest, Complete
<1>3. CASE ~ended[t]
  <2>1. /\ files' = [files EXCEPT ![t] = filenum[t]]
        /\ ended' = [ended EXCEPT ![t] = TRUE]
        /\ flag' = (flag \/ filenum[t] >= Iterations)
    BY <1>3 DEF EndTest
  <2>2. /\ files' \in [Tids -> 0..Iterations] /\ files'[t] = filenum[t]
        /\ \A u \in Tids : u # t => files'[u] = files[u]
    BY <1>1, <2>1
  <2>3. /\ ended' \in [Tids -> BOOLEAN] /\ ended'[t]
        /\ \A u \in Tids : u # t => ended'[u] = ended[u]
    BY <1>1, <2>1
  <2>4. CASE filenum[t] = Iterations
    <3>0. filenum[t] >= Iterations
      BY <1>1, <2>4
    <3>1. flag' = TRUE
      BY <2>1, <3>0, Zenon
    <3> QED
      BY <1>3, <2>2, <2>3, <2>4, <3>1 DEF Complete
  <2>5. CASE filenum[t] # Iterations
    <3>1. ~(filenum[t] >= Iterations)
      BY <1>1, <2>5
    <3>2. flag' = flag
      BY <1>1, <2>1, <3>1
    <3> QED
      BY <1>1, <1>3, <2>2, <2>3, <2>5, <3>2 DEF Complete
  <2> QED
    BY <2>4, <2>5
<1> QED
  BY <1>2, <1>3

LEMMA DoAnotherFileControl ==
  ASSUME Control, ~RunOver, NEW t \in Tids, DoAnotherFile(t)
  PROVE  Control'
<1> DEFINE leave == (~FinishAll /\ ended'[t]) \/ filenum[t] >= Iterations
           end == SeesStonewall(t) \/ filenum[t] >= Iterations
<1>0. Placed(t) /\ Figured(t) /\ pc[t] = "next" /\ ~opened[t] /\ arrived = Tids
  BY ThreadFacts DEF DoAnotherFile, GatheredAt
<1>1. /\ filenum[t] \in 0..Iterations /\ files[t] \in 0..Iterations
      /\ processed[t] = filenum[t] /\ status[t] = "ok" /\ (ended[t] => FinishAll)
      /\ Iterations \in Nat /\ t \in DOMAIN filenum /\ t \in DOMAIN pc
  BY <1>0, ThreadFacts, TidFacts DEF Placed, Control, TypeOK
<1>2. /\ IF end THEN EndTest(t) ELSE UNCHANGED <<ended, files, flag>>
      /\ UNCHANGED <<opt, ph, status, fd, opened, arrived, dirs, names, attrs, allOk,
                     processed>>
  BY DEF DoAnotherFile, system
<1>3. \/ leave /\ LeaveLoop(t) /\ UNCHANGED filenum
      \/ /\ ~leave /\ UNCHANGED left
         /\ filenum' = [filenum EXCEPT ![t] = @ + 1] /\ pc' = [pc EXCEPT ![t] = "op"]
  BY DEF DoAnotherFile, Goto
<1>4. end \/ ~leave
  BY <1>1, <1>2
<1>5. Op' = Op /\ FinishAll' = FinishAll /\ Stonewall' = Stonewall
  BY <1>2 DEF Op, FinishAll, Stonewall
<1>6. CASE ~leave
  <2>1. ~ended'[t] \/ FinishAll
    BY <1>6
  <2>2. filenum'[t] = filenum[t] + 1 /\ filenum[t] < Iterations /\ pc'[t] = "op"
    BY <1>1, <1>3, <1>6
  <2>4. /\ ended' \in [Tids -> BOOLEAN] /\ files' \in [Tids -> 0..Iterations]
        /\ flag' \in BOOLEAN /\ (flag => flag') /\ (flag' => flag)
        /\ \A u \in Tids : u # t => ended'[u] = ended[u] /\ files'[u] = files[u]
        /\ ended[t] => ended'[t] /\ files'[t] = files[t]
        /\ ~ended[t] /\ ended'[t] => files'[t] = filenum[t] /\ end
    <3>1. CASE end
      <4>1. EndTest(t) /\ ~(filenum[t] >= Iterations)
        BY <1>1, <1>2, <2>2, <3>1
      <4> QED
        BY <1>1, <2>2, <3>1, <4>1 DEF EndTest, Control, TypeOK
    <3>2. CASE ~end
      BY <1>2, <3>2 DEF Control, TypeOK
    <3> QED
      BY <3>1, <3>2
  <2>5. ~ended[t] /\ ended'[t] => flag'
    BY <2>2, <2>4, <1>1 DEF SeesStonewall
  <2>6. TypeOK'
    <3>1. filenum' \in [Tids -> 0..Iterations]
      <4>1. filenum[t] + 1 \in 0..Iterations /\ filenum' = [filenum EXCEPT ![t] = @ + 1]
        BY <1>1, <1>3, <1>6, <2>2
      <4> QED
        BY <4>1 DEF Control, TypeOK
    <3>2. pc' \in [Tids -> {"pre", "wait", "next", "op", "close", "advise", "tidy", "over",
                            "done"}]
      BY <1>3, <1>6 DEF Control, TypeOK
    <3> QED
      BY <1>2, <1>3, <1>6, <2>4, <3>1, <3>2 DEF Control, TypeOK
  <2>7. OthersStay(t)
    BY <1>2, <1>3, <1>6, <2>4 DEF OthersStay, Control, TypeOK
  <2>8. Placed(t)'
    BY <1>1, <1>2, <1>5, <2>1, <2>2, <2>4 DEF Placed
  <2>9. Figured(t)'
    BY <1>0, <1>1, <1>2, <1>5, <2>1, <2>2, <2>4, <2>5 DEF Figured
  <2> QED
    BY <1>0, <1>1, <1>2, <2>2, <2>4, <2>6, <2>7, <2>8, <2>9, ControlFrame DEF Complete
<1>7. CASE leave
  <2>1. EndTest(t) /\ filenum' = filenum
    BY <1>2, <1>3, <1>4, <1>7
  <2>2. pc'[t] = (IF Op = "cleanup" THEN "tidy" ELSE "over")
        /\ \A u \in Tids : u # t => pc'[u] = pc[u] /\ left'[u] = left[u]
    BY <1>3, <1>7 DEF LeaveLoop, Goto, Control, TypeOK
  <2>3. left' \in [Tids -> SUBSET Directories] /\
        pc' \in [Tids -> {"pre", "wait", "next", "op", "close", "advise", "tidy", "over",
                          "done"}]
    <3>1. Subdirs(t) \subseteq Directories
      BY SubdirFacts, TidFacts
    <3> QED
      BY <3>1, <1>3, <1>7 DEF LeaveLoop, Goto, Control, TypeOK
  <2>4. TypeOK'
    BY <1>2, <2>1, <2>3, EndTestFacts DEF Control, TypeOK
  <2>5. OthersStay(t)
    BY <1>2, <2>1, <2>2, EndTestFacts DEF OthersStay
  <2>6. filenum[t] = Iterations \/ (~FinishAll /\ SeesStonewall(t))
    BY <1>1, <1>4, <1>7
  <2>7. Placed(t)'
    BY <1>1, <1>2, <1>5, <2>1, <2>2, <2>6, EndTestFacts DEF Placed, SeesStonewall
  <2>8. Figured(t)'
    <3>1. ~ended[t] => files'[t] = filenum[t] /\ flag'
      BY <2>1, <2>6, EndTestFacts DEF SeesStonewall
    <3> QED
      BY <1>0, <1>1, <1>2, <1>5, <2>1, <3>1, EndTestFacts DEF Figured
  <2> QED
    BY <1>0, <1>2, <2>1, <2>2, <2>4, <2>5, <2>7, <2>8, EndTestFacts, ControlFrame
<1> QED
  BY <1>6, <1>7

\* a step that changes only the control state
LEMMA MoveControl ==
  ASSUME Control, NEW t \in Tids, NEW step \in {"over", "tidy"},
         pc[t] = "tidy", Goto(t, step),
         left' \in [Tids -> SUBSET Directories], dirs' \subseteq Directories,
         \A u \in Tids : u # t => left'[u] = left[u],
         \/ status' = status
         \/ status' = [status EXCEPT ![t] = "error"] /\ step = "over",
         UNCHANGED <<opt, ph, filenum, ended, files, fd, opened, arrived, flag, names,
                     attrs, allOk, processed>>
  PROVE  Control'
<1>0. Placed(t) /\ Figured(t) /\ ~opened[t] /\ arrived = Tids
  BY ThreadFacts DEF GatheredAt
<1>1. pc'[t] = step /\ \A u \in Tids : u # t => pc'[u] = pc[u]
  BY DEF Goto, Control, TypeOK
<1>2. TypeOK'
  BY DEF Goto, Control, TypeOK
<1>3. OthersStay(t)
  BY <1>1 DEF OthersStay, Control, TypeOK
<1>4. \/ status'[t] = status[t]
      \/ status'[t] = "error" /\ step = "over"
  BY DEF Control, TypeOK
<1>5. Op' = Op /\ FinishAll' = FinishAll /\ Stonewall' = Stonewall
  BY DEF Op, FinishAll, Stonewall
<1>6. Placed(t)' /\ Figured(t)'
  BY <1>0, <1>1, <1>4, <1>5 DEF Placed, Figured
<1> QED
  BY <1>0, <1>1, <1>2, <1>3, <1>6, ControlFrame DEF Complete

LEMMA CleanSubdirControl ==
  ASSUME Control, NEW t \in Tids, CleanSubdir(t) \/ CleanedSubdirs(t)
  PROVE  Control'
<1>1. CASE CleanedSubdirs(t)
  <2>1. /\ left' \in [Tids -> SUBSET Directories] /\ dirs' \subseteq Directories
        /\ \A u \in Tids : u # t => left'[u] = left[u]
    BY <1>1 DEF CleanedSubdirs, Control, TypeOK, system
  <2>2. /\ UNCHANGED <<opt, ph, filenum, ended, files, status, fd, opened, arrived, flag,
                       names, attrs, allOk, processed>>
        /\ pc[t] = "tidy" /\ Goto(t, "over")
    BY <1>1 DEF CleanedSubdirs, system, workload
  <2> QED
    BY <2>1, <2>2, MoveControl
<1>2. CASE CleanSubdir(t)
  <2>1. /\ left' \in [Tids -> SUBSET Directories] /\ dirs' \subseteq Directories
        /\ \A u \in Tids : u # t => left'[u] = left[u]
    <3>1. left \in [Tids -> SUBSET Directories] /\ dirs \subseteq Directories
      BY DEF Control, TypeOK
    <3>2. /\ \/ left' = left
             \/ \E d \in left[t] : left' = [left EXCEPT ![t] = @ \ {d}]
          /\ dirs' \subseteq dirs
      BY <1>2 DEF CleanSubdir
    <3> QED
      BY <3>1, <3>2
  <2>2. \/ pc' = pc /\ status' = status
        \/ status' = [status EXCEPT ![t] = "error"] /\ Goto(t, "over")
    BY <1>2 DEF CleanSubdir
  <2>3. pc[t] = "tidy" /\ pc = [pc EXCEPT ![t] = "tidy"]
    BY <1>2 DEF CleanSubdir, Control, TypeOK
  <2>4. \/ Goto(t, "tidy") /\ status' = status
        \/ status' = [status EXCEPT ![t] = "error"] /\ Goto(t, "over")
    BY <2>2, <2>3 DEF Goto
  <2> QED
    BY <1>2, <2>1, <2>3, <2>4, MoveControl DEF CleanSubdir
<1> QED
  BY <1>1, <1>2

LEMMA FinishThreadControl ==
  ASSUME Control, NEW t \in Tids, FinishThread(t)
  PROVE  Control'
<1>0. Placed(t) /\ Figured(t) /\ pc[t] = "over" /\ ~opened[t] /\ arrived = Tids
  BY ThreadFacts DEF FinishThread, GatheredAt
<1>1. /\ EndTest(t) /\ filenum' = filenum /\ pc' = [pc EXCEPT ![t] = "done"]
      /\ UNCHANGED <<opt, ph, filenum, status, left, fd, opened, arrived, dirs, names,
                     attrs, allOk, processed>>
  BY DEF FinishThread, system, Goto
<1>2. pc'[t] = "done" /\ \A u \in Tids : u # t => pc'[u] = pc[u]
  BY <1>1 DEF Control, TypeOK
<1>3. TypeOK'
  BY <1>1, EndTestFacts DEF Control, TypeOK
<1>4. OthersStay(t)
  BY <1>1, <1>2, EndTestFacts DEF OthersStay
<1>5. Op' = Op /\ FinishAll' = FinishAll /\ Stonewall' = Stonewall
  BY <1>1 DEF Op, FinishAll, Stonewall
<1>6. Placed(t)'
  BY <1>0, <1>1, <1>2, <1>5, EndTestFacts DEF Placed
<1>7. Figured(t)'
  <2>1. filenum[t] \in Nat
    BY ThreadFacts
  <2> QED
    BY <1>0, <1>1, <1>5, <2>1, EndTestFacts DEF Figured, Placed
<1> QED
  BY <1>0, <1>1, <1>2, <1>3, <1>4, <1>6, <1>7, EndTestFacts, ControlFrame

\* the outcome of an operation on a file
OpEnds(t) ==
  /\ Succeed(t) \/ Fail(t)
  /\ names' \subseteq Names /\ attrs' \subseteq names' \X Kinds
  /\ UNCHANGED <<opt, ph, filenum, ended, files, left, fd, arrived, flag, dirs, allOk>>

LEMMA OpEndsControl ==
  ASSUME Control, NEW t \in Tids, pc[t] \in {"op", "close", "advise"}, OpEnds(t),
         opened' \in [Tids -> BOOLEAN], ~opened'[t],
         \A u \in Tids : u # t => opened'[u] = opened[u]
  PROVE  Control'
<1>0. Placed(t) /\ Figured(t) /\ arrived = Tids
  BY ThreadFacts DEF GatheredAt
<1>1. /\ processed[t] + 1 = filenum[t] /\ status[t] = "ok" /\ (ended[t] => FinishAll)
      /\ processed[t] \in Nat /\ filenum[t] \in Nat /\ filenum[t] <= Iterations
      /\ Iterations \in Nat
  BY <1>0, ThreadFacts, TidFacts DEF Placed
<1>2. \/ pc'[t] = "next" /\ processed'[t] = filenum[t] /\ status'[t] = "ok"
      \/ pc'[t] = "over" /\ processed'[t] = processed[t] /\ status'[t] = "error"
  BY <1>1 DEF OpEnds, Succeed, Fail, Goto, Control, TypeOK
<1>3. \A u \in Tids : u # t =>
        pc'[u] = pc[u] /\ processed'[u] = processed[u] /\ status'[u] = status[u]
  BY DEF OpEnds, Succeed, Fail, Goto, Control, TypeOK
<1>4. TypeOK'
  <2>1. processed' \in [Tids -> 0..Iterations]
    BY <1>1 DEF OpEnds, Succeed, Fail, Control, TypeOK
  <2>2. status' \in [Tids -> {"ok", "error"}]
    BY DEF OpEnds, Succeed, Fail, Control, TypeOK
  <2>3. pc' \in [Tids -> {"pre", "wait", "next", "op", "close", "advise", "tidy", "over",
                          "done"}]
    <3>1. pc' = [pc EXCEPT ![t] = "next"] \/ pc' = [pc EXCEPT ![t] = "over"]
      BY DEF OpEnds, Succeed, Fail, Goto
    <3>2. pc \in [Tids -> {"pre", "wait", "next", "op", "close", "advise", "tidy", "over",
                           "done"}]
      BY DEF Control, TypeOK
    <3> QED
      BY <3>1, <3>2
  <2>4. /\ UNCHANGED <<opt, ph, filenum, ended, files, left, fd, arrived, flag, dirs, allOk>>
        /\ names' \subseteq Names /\ attrs' \subseteq names' \X {"user", "ctime"}
    BY DEF OpEnds, Kinds
  <2> QED
    BY <2>1, <2>2, <2>3, <2>4 DEF Control, TypeOK
<1>5. OthersStay(t)
  BY <1>3 DEF OthersStay, OpEnds
<1>6. /\ Op' = Op /\ FinishAll' = FinishAll /\ Stonewall' = Stonewall
      /\ UNCHANGED <<opt, ph, filenum, ended, files, arrived, flag>>
  BY DEF Op, FinishAll, Stonewall, OpEnds
<1>7. Placed(t)'
  BY <1>1, <1>2, <1>6 DEF Placed
<1>8. Figured(t)'
  BY <1>0, <1>1, <1>2, <1>6 DEF Figured
<1> QED
  BY <1>0, <1>2, <1>4, <1>5, <1>6, <1>7, <1>8, ControlFrame DEF Complete

\* what an operation may come to that makes newNames and newAttrs
Outcome(t, newNames, newAttrs) ==
  /\ UNCHANGED <<opt, ph, filenum, ended, files, left, fd, opened, arrived, flag, dirs,
                 allOk>>
  /\ \/ names' = newNames /\ Succeed(t) /\ attrs' = {a \in newAttrs : a[1] \in newNames}
     \/ names' \in {names, newNames} /\ Fail(t) /\ attrs' = {a \in attrs : a[1] \in names'}

LEMMA OutcomeEnds ==
  ASSUME Control, NEW t \in Tids,
         NEW newNames \in SUBSET Names, NEW newAttrs \in SUBSET (Names \X Kinds),
         Outcome(t, newNames, newAttrs)
  PROVE  OpEnds(t) /\ opened' = opened
<1>0. names \subseteq Names /\ attrs \subseteq names \X Kinds
  BY DEF Control, TypeOK, Kinds
<1>1. CASE names' = newNames /\ Succeed(t) /\ attrs' = {a \in newAttrs : a[1] \in newNames}
  <2>1. attrs' \subseteq names' \X Kinds
    BY <1>1
  <2> QED
    BY <1>1, <2>1 DEF OpEnds, Outcome
<1>2. CASE names' \in {names, newNames} /\ Fail(t)
           /\ attrs' = {a \in attrs : a[1] \in names'}
  <2>1. names' \subseteq Names /\ attrs' \subseteq names' \X Kinds
    BY <1>0, <1>2
  <2> QED
    BY <1>2, <2>1 DEF OpEnds, Outcome
<1> QED
  BY <1>1, <1>2 DEF Outcome

\* the names of a thread's current file
LEMMA CurrentFile ==
  ASSUME Control, NEW t \in Tids, pc[t] = "op"
  PROVE  /\ filenum[t] \in FileNums /\ processed[t] \in Nat
         /\ processed[t] + 1 = filenum[t]
         /\ Src(t) = SrcName(t, filenum[t]) /\ Dst(t) = DstName(t, filenum[t])
         /\ Suffixed(Src(t), ".d") = DotDName(t, filenum[t])
         /\ Suffixed(Dst(t), ".s") = LinkName(t, filenum[t])
         /\ Src(t) \in Names /\ Dst(t) \in Names
         /\ Suffixed(Src(t), ".d") \in Names /\ Suffixed(Dst(t), ".s") \in Names
         /\ names \subseteq Names /\ attrs \subseteq Names \X Kinds
         /\ Stamp(Src(t)) \subseteq Names \X Kinds
         /\ <<Src(t), "user">> \in Names \X Kinds
<1>1. /\ processed[t] + 1 = filenum[t] /\ processed[t] \in Nat /\ filenum[t] \in Nat
      /\ filenum[t] <= Iterations /\ filenum[t] >= 1
  BY ThreadFacts DEF Placed
<1>2. filenum[t] \in FileNums
  BY <1>1, TidFacts
<1>3. /\ Src(t) = SrcName(t, filenum[t]) /\ Dst(t) = DstName(t, filenum[t])
      /\ Suffixed(Src(t), ".d") = DotDName(t, filenum[t])
      /\ Suffixed(Dst(t), ".s") = LinkName(t, filenum[t])
  BY DEF Src, Dst, Suffixed, SrcName, DstName, DotDName, LinkName
<1>4. {SrcName(t, filenum[t]), DstName(t, filenum[t]), DotDName(t, filenum[t]),
       LinkName(t, filenum[t])} \subseteq Names
  BY <1>2, SubdirFacts
<1>5. names \subseteq Names /\ attrs \subseteq Names \X Kinds
  BY DEF Control, TypeOK, Kinds
<1> QED
  BY <1>1, <1>2, <1>3, <1>4, <1>5 DEF Stamp, Kinds

\* the operations on one file, but swift-put
LEMMA OperationEnds ==
  ASSUME Control, NEW t \in Tids,
         \/ DoCreate(t) \/ DoWrite(t) \/ DoRead(t) \/ DoRename(t) \/ DoSimple(t)
         \/ DoDeleteRenamed(t) \/ DoSymlink(t) \/ DoReaddir(t) \/ DoCleanup(t)
         \/ DoSetxattr(t) \/ DoGetxattr(t) \/ DoSwiftGet(t) \/ DoAwaitCreate(t)
  PROVE  /\ pc[t] = "op" /\ Op # "swift-put"
         /\ \/ OpEnds(t) /\ opened' = opened
            \/ UNCHANGED smallfileVars
<1>1. pc[t] = "op" /\ Op # "swift-put"
  BY DEF DoCreate, DoWrite, DoRead, DoRename, DoSimple, DoDeleteRenamed, DoSymlink,
         DoReaddir, DoCleanup, DoSetxattr, DoGetxattr, DoSwiftGet, DoAwaitCreate, At
<1>2. ASSUME NEW new \in SUBSET Names, NEW more \in SUBSET (Names \X Kinds),
             Outcome(t, new, more)
      PROVE  OpEnds(t) /\ opened' = opened
  BY <1>2, OutcomeEnds
<1>3. CASE DoCreate(t)
  <2>1. Outcome(t, names \cup {Src(t)}, attrs \cup Stamp(Src(t)))
    BY <1>3 DEF DoCreate, Apply, Outcome
  <2>2. names \cup {Src(t)} \in SUBSET Names
        /\ attrs \cup Stamp(Src(t)) \in SUBSET (Names \X Kinds)
    BY <1>1, CurrentFile
  <2> QED
    BY <1>1, <1>2, <2>1, <2>2
<1>4. CASE DoWrite(t)
  <2>1. Outcome(t, names, attrs \cup Stamp(Src(t)))
    BY <1>4 DEF DoWrite, Apply, Outcome
  <2> QED
    BY <1>1, <1>2, <2>1, CurrentFile
<1>5. CASE DoRead(t) \/ DoSwiftGet(t) \/ DoGetxattr(t) \/ DoReaddir(t)
  <2>1. Outcome(t, names, attrs)
    BY <1>5 DEF DoRead, DoSwiftGet, DoGetxattr, DoReaddir, Apply, Outcome
  <2> QED
    BY <1>1, <1>2, <2>1, CurrentFile
<1>6. CASE DoRename(t)
  <2>1. Outcome(t, (names \ {Src(t)}) \cup {Dst(t)}, attrs)
    BY <1>6 DEF DoRename, Apply, Outcome
  <2> QED
    BY <1>1, <1>2, <2>1, CurrentFile
<1>7. CASE DoSimple(t)
  <2>1. PICK new \in {names \ {Src(t)}, names, names \cup {Suffixed(Src(t), ".d")},
                      names \ {Suffixed(Src(t), ".d")}} :
          Outcome(t, new, attrs)
    BY <1>7 DEF DoSimple, Apply, Outcome
  <2>2. new \in SUBSET Names /\ attrs \in SUBSET (Names \X Kinds)
    BY <1>1, CurrentFile
  <2> QED
    BY <1>1, <1>2, <2>1, <2>2
<1>8. CASE DoDeleteRenamed(t)
  <2>1. Outcome(t, names \ {Dst(t)}, attrs)
    BY <1>8 DEF DoDeleteRenamed, Apply, Outcome
  <2> QED
    BY <1>1, <1>2, <2>1, CurrentFile
<1>9. CASE DoSymlink(t)
  <2>1. Outcome(t, names \cup {Suffixed(Dst(t), ".s")}, attrs)
    BY <1>9 DEF DoSymlink, Apply, Outcome
  <2> QED
    BY <1>1, <1>2, <2>1, CurrentFile
<1>10. CASE DoCleanup(t)
  <2> DEFINE rest == names \ {Suffixed(Dst(t), ".s"), Src(t), Dst(t), Suffixed(Src(t), ".d")}
  <2>1. Outcome(t, rest, attrs)
    BY <1>10 DEF DoCleanup, Apply, Outcome
  <2> QED
    BY <1>1, <1>2, <2>1, CurrentFile
<1>11. CASE DoSetxattr(t)
  <2>1. Outcome(t, names, attrs \cup {<<Src(t), "user">>})
    BY <1>11 DEF DoSetxattr, Apply, Outcome
  <2> QED
    BY <1>1, <1>2, <2>1, CurrentFile
<1>12. CASE DoAwaitCreate(t)
  <2>1. Outcome(t, names, attrs) \/ UNCHANGED smallfileVars
    BY <1>12 DEF DoAwaitCreate, Apply, Outcome
  <2> QED
    BY <1>1, <1>2, <2>1, CurrentFile
<1> QED
  BY <1>1, <1>3, <1>4, <1>5, <1>6, <1>7, <1>8, <1>9, <1>10, <1>11, <1>12

\* swift-put: one of T descriptors is free, and there is a least one
LEMMA FreeDescriptor ==
  ASSUME Control, NEW t \in Tids, ~opened[t]
  PROVE  LET free == {n \in 1..T : \A u \in Tids : opened[u] => fd[u] # n}
         IN  (CHOOSE n \in free : \A m \in free : n <= m) \in 1..T
<1> DEFINE free == {n \in 1..T : \A u \in Tids : opened[u] => fd[u] # n}
<1>1. T \in Nat /\ T >= 1
  BY TidFacts
<1>2. free # {}
  <2>1. SUFFICES ASSUME free = {} PROVE FALSE
    OBVIOUS
  <2> DEFINE user(n) == CHOOSE u \in Tids : opened[u] /\ fd[u] = n
             f == [n \in 1..T |-> user(n)]
  <2>2. \A n \in 1..T : user(n) \in Tids /\ opened[user(n)] /\ fd[user(n)] = n
    <3> SUFFICES ASSUME NEW n \in 1..T
                 PROVE  \E u \in Tids : opened[u] /\ fd[u] = n
      OBVIOUS
    <3> QED
      BY <2>1
  <2>3. f \in [1..T -> Tids \ {t}]
    BY <2>2
  <2>4. /\ IsFiniteSet(1..T) /\ Cardinality(1..T) = T
        /\ IsFiniteSet(Tids) /\ Cardinality(Tids) = T
    BY <1>1, FS_Interval DEF Tids
  <2>5. IsFiniteSet(Tids \ {t}) /\ Cardinality(Tids \ {t}) = T - 1
    BY <2>4, FS_RemoveElement
  <2>6. \E x, y \in 1..T : x # y /\ f[x] = f[y]
    <3> DEFINE A == 1..T
               B == Tids \ {t}
    <3>1. IsFiniteSet(A) /\ IsFiniteSet(B) /\ Cardinality(B) < Cardinality(A)
      BY <1>1, <2>4, <2>5
    <3>2. f \in [A -> B]
      BY <2>3
    <3> HIDE DEF f, A, B
    <3>3. \E x, y \in A : x # y /\ f[x] = f[y]
      BY <3>1, <3>2, FS_PigeonHole
    <3> QED
      BY <3>3 DEF A
  <2> QED
    BY <2>2, <2>6
<1>3. free \in SUBSET Nat
  BY <1>1
<1>4. \E n \in free : \A m \in free : n <= m
  <2> HIDE DEF free
  <2> QED
    BY <1>2, <1>3, LeastNumber
<1> QED
  BY <1>4

LEMMA SwiftPutControl ==
  ASSUME Control, NEW t \in Tids,
         SwiftPutOpen(t) \/ SwiftPutClose(t) \/ SwiftPutAdvise(t)
  PROVE  Control'
<1>1. CASE SwiftPutOpen(t)
  <2>0. Placed(t) /\ Figured(t) /\ pc[t] = "op" /\ Op = "swift-put" /\ ~opened[t]
        /\ arrived = Tids
    BY <1>1, ThreadFacts DEF SwiftPutOpen, At, GatheredAt
  <2>1. PICK n \in 1..T : fd' = [fd EXCEPT ![t] = n]
    BY <1>1, <2>0, FreeDescriptor DEF SwiftPutOpen
  <2>2. /\ UNCHANGED <<opt, ph, filenum, ended, files, status, left, arrived, flag, dirs,
                       names, attrs, allOk, processed>>
        /\ pc' = [pc EXCEPT ![t] = "close"] /\ opened' = [opened EXCEPT ![t] = TRUE]
    BY <1>1 DEF SwiftPutOpen, workload, system, Goto
  <2>3. fd' \in [Tids -> 0..T]
    BY <2>1, TidFacts DEF Control, TypeOK
  <2>4. TypeOK'
    BY <2>2, <2>3 DEF Control, TypeOK
  <2>5. OthersStay(t)
    BY <2>2 DEF OthersStay, Control, TypeOK
  <2>6. pc'[t] = "close" /\ opened'[t]
    BY <2>2 DEF Control, TypeOK
  <2>7. Placed(t)' /\ Figured(t)'
    BY <2>0, <2>2, <2>6 DEF Placed, Figured, Op, FinishAll
  <2> QED
    BY <2>0, <2>2, <2>4, <2>5, <2>6, <2>7, ControlFrame DEF Complete
<1>2. CASE SwiftPutClose(t)
  <2>0. Placed(t) /\ Figured(t) /\ pc[t] = "close" /\ arrived = Tids /\ Op = "swift-put"
    BY <1>2, ThreadFacts DEF SwiftPutClose, GatheredAt, Placed
  <2>1. /\ UNCHANGED <<opt, ph, filenum, ended, files, left, fd, arrived, flag, dirs,
                       names, attrs, allOk>>
        /\ opened' = [opened EXCEPT ![t] = FALSE]
    BY <1>2 DEF SwiftPutClose, system
  <2>2. /\ opened' \in [Tids -> BOOLEAN] /\ ~opened'[t]
        /\ \A u \in Tids : u # t => opened'[u] = opened[u]
    BY <2>1 DEF Control, TypeOK
  <2>3. CASE Fail(t)
    <3>1. OpEnds(t)
      BY <2>1, <2>3 DEF OpEnds, Control, TypeOK, Kinds
    <3> QED
      BY <2>0, <2>2, <3>1, OpEndsControl
  <2>4. CASE Goto(t, "advise") /\ UNCHANGED <<status, processed>>
    <3>1. pc'[t] = "advise" /\ \A u \in Tids : u # t => pc'[u] = pc[u]
      BY <2>4 DEF Goto, Control, TypeOK
    <3>2. TypeOK'
      BY <2>1, <2>2, <2>4 DEF Goto, Control, TypeOK
    <3>3. OthersStay(t)
      BY <2>1, <2>2, <2>4, <3>1 DEF OthersStay
    <3>4. Placed(t)' /\ Figured(t)'
      BY <2>0, <2>1, <2>4, <3>1 DEF Placed, Figured, Op, FinishAll
    <3> QED
      BY <2>0, <2>1, <2>2, <2>4, <3>1, <3>2, <3>3, <3>4, ControlFrame DEF Complete
  <2> QED
    BY <1>2, <2>3, <2>4 DEF SwiftPutClose
<1>3. CASE SwiftPutAdvise(t)
  <2>0. /\ Placed(t) /\ Figured(t) /\ pc[t] = "advise" /\ arrived = Tids
        /\ Op = "swift-put" /\ ~opened[t]
    BY <1>3, ThreadFacts DEF SwiftPutAdvise, GatheredAt, Placed
  <2>1. /\ UNCHANGED <<opt, ph, filenum, ended, files, left, fd, arrived, flag, dirs,
                       allOk>>
        /\ opened' = opened
    BY <1>3 DEF SwiftPutAdvise
  <2>2. opened' \in [Tids -> BOOLEAN]
    BY <2>1 DEF Control, TypeOK
  <2>3. Src(t) \in Names
    <3>1. filenum[t] \in FileNums
      BY <2>0, ThreadFacts, TidFacts DEF Placed
    <3> QED
      BY <3>1, SubdirFacts DEF Src, SrcName
  <2>4. CASE /\ names' = names \cup {Src(t)} /\ Succeed(t)
             /\ attrs' = {a \in attrs : a[1] # Src(t)}
    <3>1. OpEnds(t)
      BY <2>1, <2>3, <2>4 DEF OpEnds, Control, TypeOK, Kinds
    <3> QED
      BY <2>0, <2>1, <2>2, <3>1, OpEndsControl
  <2>5. CASE Fail(t) /\ UNCHANGED <<names, attrs>>
    <3>1. OpEnds(t)
      BY <2>1, <2>5 DEF OpEnds, Control, TypeOK, Kinds
    <3> QED
      BY <2>0, <2>1, <2>2, <3>1, OpEndsControl
  <2>6. CASE /\ \E errno \in {"ok", "error"} : status' = [status EXCEPT ![t] = errno]
             /\ Goto(t, "over") /\ UNCHANGED <<names, attrs, processed>>
    <3>1. pc'[t] = "over" /\ \A u \in Tids : u # t => pc'[u] = pc[u] /\ status'[u] = status[u]
      BY <2>6 DEF Goto, Control, TypeOK
    <3>2. TypeOK'
      <4>1. status' \in [Tids -> {"ok", "error"}]
        BY <2>6 DEF Control, TypeOK
      <4> QED
        BY <2>1, <2>6, <4>1 DEF Goto, Control, TypeOK
    <3>3. OthersStay(t)
      BY <2>1, <2>6, <3>1 DEF OthersStay
    <3>4. Placed(t)' /\ Figured(t)'
      BY <2>0, <2>1, <2>6, <3>1 DEF Placed, Figured, Op, FinishAll
    <3> QED
      BY <2>0, <2>1, <2>6, <3>1, <3>2, <3>3, <3>4, ControlFrame DEF Complete
  <2> QED
    BY <1>3, <2>4, <2>5, <2>6 DEF SwiftPutAdvise
<1> QED
  BY <1>1, <1>2, <1>3

-----------------------------------------------------------------------------
(* The phases, and every step. *)

\* every thread is about to start
AllFresh ==
  \A t \in Tids :
    /\ pc[t] = "pre" /\ filenum[t] = 0 /\ ~ended[t] /\ files[t] = 0
    /\ status[t] = "ok" /\ ~opened[t] /\ processed[t] = 0

LEMMA FreshControl ==
  ASSUME TypeOK, AllFresh, ~flag
  PROVE  Control
<1>1. OpenInClose /\ Raised /\ Gathered
  BY DEF AllFresh, OpenInClose, Raised, Gathered
<1>2. ASSUME NEW t \in Tids
      PROVE  Placed(t) /\ Figured(t)
  BY DEF AllFresh, Placed, Figured
<1> QED
  BY <1>1, <1>2 DEF Control

LEMMA InitControl ==
  ASSUME SmallfileInit
  PROVE  Control
<1>1. opt \in Options /\ ph = 1 /\ Len(opt.plan) \in Nat
  BY PlanFacts DEF SmallfileInit
<1>2. dirs \subseteq Directories /\ names \subseteq Names
  <2>1. PICK l \in Remains : dirs = l[1] /\ names = l[2]
    BY DEF SmallfileInit
  <2>2. l \in (SUBSET Directories) \X (SUBSET Names)
    BY SmallfileAssumption
  <2> QED
    BY <2>1, <2>2
<1>3. TypeOK
  <2>1. ph \in 1..Len(opt.plan) + 1
    BY <1>1
  <2>2. 0 \in 0..T /\ 0 \in 0..Iterations
    BY TidFacts
  <2>3. /\ pc \in [Tids -> {"pre", "wait", "next", "op", "close", "advise", "tidy", "over",
                            "done"}]
        /\ filenum \in [Tids -> 0..Iterations] /\ files \in [Tids -> 0..Iterations]
        /\ processed \in [Tids -> 0..Iterations] /\ fd \in [Tids -> 0..T]
        /\ ended \in [Tids -> BOOLEAN] /\ opened \in [Tids -> BOOLEAN]
        /\ status \in [Tids -> {"ok", "error"}] /\ left \in [Tids -> SUBSET Directories]
    BY <2>2 DEF SmallfileInit
  <2>4. arrived = {} /\ flag = FALSE /\ attrs = {} /\ allOk = TRUE
    BY DEF SmallfileInit
  <2> QED
    BY <1>1, <1>2, <2>1, <2>3, <2>4 DEF TypeOK
<1>4. AllFresh /\ ~flag
  BY DEF SmallfileInit, AllFresh
<1> QED
  BY <1>3, <1>4, FreshControl

LEMMA PhaseControl ==
  ASSUME Control, EndPhase \/ AbortRun
  PROVE  Control' /\ AllFresh'
<1>1. opt \in Options /\ ph \in 1..Len(opt.plan) + 1 /\ Len(opt.plan) \in Nat
  BY PlanFacts DEF Control, TypeOK
<1>2. /\ FreshThreads /\ UNCHANGED <<opt, dirs, names, attrs>> /\ ~RunOver
      /\ ph' = ph + 1 \/ ph' = Len(opt.plan) + 1
  BY DEF EndPhase, AbortRun, system
<1>3. allOk' \in BOOLEAN
  BY DEF EndPhase, AbortRun, Control, TypeOK
<1>4. ph' \in 1..Len(opt'.plan) + 1
  BY <1>1, <1>2 DEF RunOver
<1>5. TypeOK'
  <2>2. 0 \in 0..T /\ 0 \in 0..Iterations
    BY TidFacts
  <2>3. /\ pc' \in [Tids -> {"pre", "wait", "next", "op", "close", "advise", "tidy", "over",
                             "done"}]
        /\ filenum' \in [Tids -> 0..Iterations] /\ files' \in [Tids -> 0..Iterations]
        /\ processed' \in [Tids -> 0..Iterations] /\ fd' \in [Tids -> 0..T]
        /\ ended' \in [Tids -> BOOLEAN] /\ opened' \in [Tids -> BOOLEAN]
        /\ status' \in [Tids -> {"ok", "error"}] /\ left' \in [Tids -> SUBSET Directories]
    BY <1>2, <2>2 DEF FreshThreads
  <2>4. arrived' = {} /\ flag' = FALSE
    BY <1>2 DEF FreshThreads
  <2> QED
    BY <1>1, <1>2, <1>3, <1>4, <2>3, <2>4 DEF Control, TypeOK
<1>6. AllFresh' /\ ~flag'
  BY <1>2 DEF FreshThreads, AllFresh
<1>7. OpenInClose' /\ Raised' /\ Gathered'
  BY <1>6 DEF AllFresh, OpenInClose, Raised, Gathered
<1>8. ASSUME NEW t \in Tids
      PROVE  Placed(t)' /\ Figured(t)'
  BY <1>6 DEF AllFresh, Placed, Figured
<1> QED
  BY <1>5, <1>6, <1>7, <1>8 DEF Control

LEMMA ControlStep ==
  ASSUME Control, [SmallfileNext]_smallfileVars
  PROVE  Control'
<1>1. ASSUME UNCHANGED smallfileVars
      PROVE  Control'
  <2>1. UNCHANGED <<opt, ph, pc, filenum, ended, files, status, left, fd, opened, arrived,
                    flag, dirs, names, attrs, allOk, processed>>
    BY <1>1 DEF smallfileVars
  <2>2. TypeOK' /\ OpenInClose' /\ Raised' /\ Gathered'
    BY <2>1 DEF Control, TypeOK, OpenInClose, Raised, Gathered
  <2>3. ASSUME NEW t \in Tids
        PROVE  Placed(t)' /\ Figured(t)'
    BY <2>1, ThreadFacts DEF Placed, Figured, Op, FinishAll, Stonewall
  <2> QED
    BY <2>2, <2>3 DEF Control
<1>2. ASSUME NEW t \in Tids, ThreadStep(t)
      PROVE  Control'
  <2>1. CASE Operation(t)
    <3>1. CASE SwiftPutOpen(t) \/ SwiftPutClose(t) \/ SwiftPutAdvise(t)
      BY <3>1, SwiftPutControl
    <3>2. CASE ~(SwiftPutOpen(t) \/ SwiftPutClose(t) \/ SwiftPutAdvise(t))
      <4>1. pc[t] = "op" /\ (UNCHANGED smallfileVars \/ (OpEnds(t) /\ opened' = opened))
        BY <2>1, <3>2, OperationEnds DEF Operation
      <4>2. opened \in [Tids -> BOOLEAN] /\ ~opened[t]
        BY <4>1, ThreadFacts DEF Control, TypeOK
      <4> QED
        BY <1>1, <4>1, <4>2, OpEndsControl
    <3> QED
      BY <3>1, <3>2
  <2> QED
    BY <1>2, <2>1, SetupControl, PassBarrierControl, DoAnotherFileControl,
       CleanSubdirControl, FinishThreadControl DEF ThreadStep
<1> QED
  BY <1>1, <1>2, PhaseControl DEF SmallfileNext, Hung, SmallfileFinished

-----------------------------------------------------------------------------
(* The files of a run without faults. *)

LEMMA Covered ==
  ASSUME Control, Tracked, ~RunOver
  PROVE  /\ Op # "swift-put" /\ opt.faults = "none" /\ ph \in Nat /\ ph >= 1
         /\ ~Stonewall \/ FinishAll
         /\ opt.suite =>
              /\ ph <= 7
              /\ Op = "cleanup" <=> ph \in {1, 7}
              /\ Op = "create" <=> ph = 2
              /\ Op = "read" <=> ph = 3
              /\ Op = "append" <=> ph = 4
              /\ Op = "rename" <=> ph = 5
              /\ Op = "delete-renamed" <=> ph = 6
              /\ Op \in {"cleanup", "create", "read", "append", "rename", "delete-renamed"}
         /\ ~opt.suite =>
              /\ ph <= 15 /\ Alone
              /\ Op = "cleanup" <=> ph = 1
              /\ Op = "create" <=> ph = 2
              /\ Op = "overwrite" <=> ph = 3
              /\ Op = "stat" <=> ph = 4
              /\ Op = "chmod" <=> ph = 5
              /\ Op = "setxattr" <=> ph = 6
              /\ Op = "getxattr" <=> ph = 7
              /\ Op = "readdir" <=> ph = 8
              /\ Op = "ls-l" <=> ph = 9
              /\ Op = "symlink" <=> ph = 10
              /\ Op = "mkdir" <=> ph = 11
              /\ Op = "rmdir" <=> ph = 12
              /\ Op = "await-create" <=> ph = 13
              /\ Op = "swift-get" <=> ph = 14
              /\ Op = "delete" <=> ph = 15
              /\ Op \in {"cleanup", "create", "overwrite", "stat", "chmod", "setxattr",
                         "getxattr", "readdir", "ls-l", "symlink", "mkdir", "rmdir",
                         "await-create", "swift-get", "delete"}
<1>1. opt \in Options /\ ph \in 1..Len(opt.plan) /\ Op = opt.plan[ph]
  BY OpFacts DEF Control, TypeOK, Op
<1>2. opt.faults = "none" /\ (~opt.suite => Alone /\ ph <= 15)
  BY DEF Tracked, Alone
<1>3. CASE opt.suite
  <2>1. Len(opt.plan) = 7 /\ ph \in 1..7
    BY <1>1, <1>3, PlanFacts
  <2>2. ph \in {1, 2, 3, 4, 5, 6, 7}
    BY <2>1
  <2>3. ~Stonewall
    BY <1>3 DEF Stonewall
  <2>4. /\ (ph = 1 => Op = "cleanup") /\ (ph = 2 => Op = "create")
        /\ (ph = 3 => Op = "read") /\ (ph = 4 => Op = "append")
        /\ (ph = 5 => Op = "rename") /\ (ph = 6 => Op = "delete-renamed")
        /\ (ph = 7 => Op = "cleanup")
    BY <1>1, <1>3, PlanFacts
  <2>5. /\ Op = "cleanup" <=> ph \in {1, 7}
        /\ Op = "create" <=> ph = 2
        /\ Op = "read" <=> ph = 3
        /\ Op = "append" <=> ph = 4
    BY <2>2, <2>4
  <2>6. /\ Op = "rename" <=> ph = 5
        /\ Op = "delete-renamed" <=> ph = 6
        /\ Op \in {"cleanup", "create", "read", "append", "rename", "delete-renamed"}
    BY <2>2, <2>4
  <2> QED
    BY <1>2, <1>3, <2>1, <2>3, <2>5, <2>6
<1>4. CASE ~opt.suite
  <2>1. Alone /\ ph \in 1..15
    BY <1>1, <1>2, <1>4, PlanFacts
  <2>2. ph \in {1, 2, 3, 4, 5, 6, 7, 8, 9, 10, 11, 12, 13, 14, 15}
    BY <2>1
  <2>3. ~Stonewall \/ FinishAll
    BY <2>1 DEF Alone, Stonewall, FinishAll
  <2>4. /\ (ph = 1 => Op = "cleanup") /\ (ph = 2 => Op = "create")
        /\ (ph = 3 => Op = "overwrite")
        /\ (ph = 4 => Op = "stat") /\ (ph = 5 => Op = "chmod") /\ (ph = 6 => Op = "setxattr")
        /\ (ph = 7 => Op = "getxattr") /\ (ph = 8 => Op = "readdir")
        /\ (ph = 9 => Op = "ls-l")
        /\ (ph = 10 => Op = "symlink") /\ (ph = 11 => Op = "mkdir")
        /\ (ph = 12 => Op = "rmdir")
        /\ (ph = 13 => Op = "await-create") /\ (ph = 14 => Op = "swift-get")
        /\ (ph = 15 => Op = "delete")
    BY <1>1, <2>1, PlanFacts
  <2> QED
    <3>1. Op # "swift-put"
      BY <2>2, <2>4
    <3>2. /\ Op = "cleanup" <=> ph = 1
          /\ Op = "create" <=> ph = 2
          /\ Op = "overwrite" <=> ph = 3
          /\ Op = "stat" <=> ph = 4
          /\ Op = "chmod" <=> ph = 5
      BY <2>2, <2>4
    <3>3. /\ Op = "setxattr" <=> ph = 6
          /\ Op = "getxattr" <=> ph = 7
          /\ Op = "readdir" <=> ph = 8
          /\ Op = "ls-l" <=> ph = 9
          /\ Op = "symlink" <=> ph = 10
      BY <2>2, <2>4
    <3>4. /\ Op = "mkdir" <=> ph = 11
          /\ Op = "rmdir" <=> ph = 12
          /\ Op = "await-create" <=> ph = 13
          /\ Op = "swift-get" <=> ph = 14
          /\ Op = "delete" <=> ph = 15
      BY <2>2, <2>4
    <3>5. Op \in {"cleanup", "create", "overwrite", "stat", "chmod", "setxattr", "getxattr",
                 "readdir", "ls-l", "symlink", "mkdir", "rmdir", "await-create",
                 "swift-get", "delete"}
      BY <2>2, <2>4
    <3> QED
      BY <1>2, <1>4, <2>1, <2>3, <3>1, <3>2, <3>3, <3>4, <3>5
<1> QED
  BY <1>3, <1>4

\* a thread that has ended its phase has processed all of its files
LEMMA AllProcessed ==
  ASSUME Control, Tracked, ~RunOver, NEW t \in Tids, status[t] = "ok",
         pc[t] \in {"tidy", "over", "done"}
  PROVE  processed[t] = Iterations
BY Covered, ThreadFacts DEF Placed

\* what a step of one thread leaves of the files of the others
OthersKept(t) ==
  /\ \A u \in Tids : \A n \in FileNums : u # t => NamesOf(u, n)' = NamesOf(u, n)
  /\ \A u \in Tids : \A n \in FileNums : \A k \in Kinds :
       u # t /\ <<SrcName(u, n), k>> \in attrs => <<SrcName(u, n), k>> \in attrs'
  /\ Op # "cleanup" => dirs \subseteq dirs'
  /\ Op = "cleanup" => dirs' \subseteq dirs
  /\ arrived' \subseteq arrived \cup {t}

LEMMA TracksFrame ==
  ASSUME SmallfileInv, ~RunOver, NEW t \in Tids, UNCHANGED <<opt, ph>>, OthersStay(t),
         Tracked => /\ OthersKept(t)
                    /\ FilesTracked(t)' /\ DirsTracked(t)' /\ AttrsTracked(t)'
  PROVE  Tracks'
<1>1. /\ Tracked' = Tracked /\ LastUse' = LastUse /\ Op' = Op
      /\ \A p, u, n : Made(p, u, n)' = Made(p, u, n)
      /\ \A u : LeavesDirsTo0(u)' = LeavesDirsTo0(u) /\ Subdirs(u)' = Subdirs(u)
  BY DEF Tracked, Alone, LastUse, Op, Made, LeavesDirsTo0, Subdirs
<1>2. CASE ~Tracked
  BY <1>1, <1>2 DEF Tracks, FilesTracked, DirsTracked, AttrsTracked
<1>3. CASE Tracked
  <2>0. OthersKept(t)
    BY <1>3
  <2> SUFFICES ASSUME NEW u \in Tids, u # t
               PROVE  FilesTracked(u)' /\ DirsTracked(u)' /\ AttrsTracked(u)'
    BY <1>3 DEF Tracks
  <2>1. FilesTracked(u) /\ DirsTracked(u) /\ AttrsTracked(u)
    BY DEF SmallfileInv, Tracks
  <2>2. /\ pc'[u] = pc[u] /\ status'[u] = status[u] /\ processed'[u] = processed[u]
        /\ left'[u] = left[u]
    BY DEF OthersStay
  <2>3. FilesTracked(u)'
    <3>1. status[u] = "ok"
      BY <1>3, <2>1 DEF FilesTracked
    <3>2. ASSUME NEW n \in FileNums
          PROVE  /\ n <= processed'[u] => NamesOf(u, n)' = Made(ph, u, n)
                 /\ n > processed'[u] /\ ph > 1 => NamesOf(u, n)' = Made(ph - 1, u, n)
      <4>1. NamesOf(u, n)' = NamesOf(u, n)
        BY <2>0 DEF OthersKept
      <4> QED
        BY <4>1, <1>3, <2>1, <2>2 DEF FilesTracked
    <3> QED
      BY <3>1, <3>2, <1>1, <2>2 DEF FilesTracked
  <2>4. DirsTracked(u)'
    <3>1. /\ ph \in Nat /\ (opt.suite => ph <= 7)
          /\ ph \in 3..LastUse \/ ph = 2 => Op # "cleanup"
          /\ opt.suite /\ ph = 7 => Op = "cleanup"
      BY <1>3, Covered DEF SmallfileInv, LastUse
    <3>2. /\ Op # "cleanup" => dirs \subseteq dirs'
          /\ Op = "cleanup" => dirs' \subseteq dirs
          /\ u \in arrived' => u \in arrived
      BY <2>0 DEF OthersKept
    <3> QED
      BY <1>1, <1>3, <2>1, <2>2, <3>1, <3>2 DEF DirsTracked
  <2>5. AttrsTracked(u)'
    <3>1. \A n \in FileNums : \A k \in {"user", "ctime"} :
            <<SrcName(u, n), k>> \in attrs => <<SrcName(u, n), k>> \in attrs'
      BY <2>0 DEF OthersKept, Kinds
    <3> QED
      BY <1>1, <1>3, <2>1, <2>2, <3>1 DEF AttrsTracked, SrcName
  <2> QED
    BY <2>3, <2>4, <2>5
<1> QED
  BY <1>2, <1>3

\* a step of thread t that applies no operation to a file
LEMMA IdleTracks ==
  ASSUME SmallfileInv, ~RunOver, NEW t \in Tids, OthersStay(t),
         UNCHANGED <<opt, ph, names, attrs, processed>>,
         Tracked => /\ status' = status /\ DirsTracked(t)'
                    /\ Op # "cleanup" => dirs \subseteq dirs'
                    /\ Op = "cleanup" => dirs' \subseteq dirs
                    /\ arrived' \subseteq arrived \cup {t}
  PROVE  Tracks'
<1>1. OthersKept(t) \/ ~Tracked
  BY DEF OthersKept, NamesOf
<1>2. /\ Tracked' = Tracked
      /\ \A p, u, n : Made(p, u, n)' = Made(p, u, n) /\ NamesOf(u, n)' = NamesOf(u, n)
  BY DEF Tracked, Alone, Made, NamesOf
<1>3. FilesTracked(t) /\ AttrsTracked(t)
  BY DEF SmallfileInv, Tracks
<1>4. Tracked => FilesTracked(t)' /\ AttrsTracked(t)'
  BY <1>2, <1>3 DEF FilesTracked, AttrsTracked, SrcName
<1> QED
  BY <1>1, <1>4, TracksFrame

\* only thread 0 makes and removes the directories that all share
LEMMA SharedDirs ==
  ASSUME NEW t \in Tids, \A u \in Tids : ~LeavesDirsTo0(u) => Subdirs(u) \subseteq dirs
  PROVE  Subdirs(t) \subseteq dirs
<1>1. 0 \in Tids /\ 1 \in Nat
  BY TidFacts
<1>2. ~LeavesDirsTo0(0) /\ (LeavesDirsTo0(t) => Subdirs(t) = Subdirs(0))
  BY DEF LeavesDirsTo0, Subdirs
<1> QED
  BY <1>1, <1>2

LEMMA SetupTracks ==
  ASSUME SmallfileInv, ~RunOver, NEW t \in Tids, Setup(t)
  PROVE  Tracks'
<1>1. OthersStay(t)
  BY DEF Setup, Arrive, Goto, OthersStay, SmallfileInv, Control, TypeOK
<1>2. /\ UNCHANGED <<opt, ph, names, attrs, processed, left>> /\ dirs \subseteq dirs'
      /\ Op \notin {"create", "mkdir", "swift-put"} => dirs' = dirs
      /\ arrived' \subseteq arrived \cup {t}
  BY DEF Setup, Arrive
<1>3. ASSUME Tracked
      PROVE  /\ status' = status /\ pc'[t] = "wait"
             /\ Op = "create" /\ ~LeavesDirsTo0(t) => Subdirs(t) \subseteq dirs'
  <2>1. opt.faults = "none"
    BY <1>3 DEF Tracked, Alone
  <2> QED
    BY <2>1 DEF Setup, Arrive, Goto, SmallfileInv, Control, TypeOK
<1>4. ASSUME Tracked
      PROVE  DirsTracked(t)'
  <2>1. DirsTracked(t)
    BY DEF SmallfileInv, Tracks
  <2>2. /\ LastUse' = LastUse /\ Subdirs(t)' = Subdirs(t)
        /\ LeavesDirsTo0(t)' = LeavesDirsTo0(t)
    BY <1>2 DEF LastUse, Subdirs, LeavesDirsTo0
  <2>3. (ph = 2 => Op = "create") /\ (opt.suite => ph # 8)
    BY <1>4, Covered DEF SmallfileInv
  <2> QED
    BY <1>2, <1>3, <1>4, <2>1, <2>2, <2>3 DEF DirsTracked
<1>5. Op = "cleanup" => dirs' = dirs
  BY <1>2
<1> QED
  BY <1>1, <1>2, <1>3, <1>4, <1>5, IdleTracks

LEMMA LoopTracks ==
  ASSUME SmallfileInv, Control', ~RunOver, NEW t \in Tids,
         PassBarrier(t) \/ DoAnotherFile(t) \/ FinishThread(t)
  PROVE  Tracks'
<1>1. UNCHANGED <<opt, ph, status, arrived, dirs, names, attrs, processed>>
  BY DEF PassBarrier, DoAnotherFile, FinishThread, workload, system
<1>2. OthersStay(t)
  <2>1. \A u \in Tids : u # t => ended'[u] = ended[u] /\ files'[u] = files[u]
    BY DEF PassBarrier, DoAnotherFile, FinishThread, EndTest, workload, SmallfileInv,
           Control, TypeOK
  <2>2. \A u \in Tids : u # t => pc'[u] = pc[u] /\ filenum'[u] = filenum[u]
                                 /\ left'[u] = left[u]
    <3>0. /\ pc \in [Tids -> {"pre", "wait", "next", "op", "close", "advise", "tidy",
                              "over", "done"}]
          /\ filenum \in [Tids -> 0..Iterations]
          /\ left \in [Tids -> SUBSET Directories]
      BY DEF SmallfileInv, Control, TypeOK
    <3>1. CASE PassBarrier(t) \/ FinishThread(t)
      BY <3>0, <3>1 DEF PassBarrier, FinishThread, Goto, workload
    <3>2. CASE DoAnotherFile(t)
      <4>1. CASE (~FinishAll /\ ended'[t]) \/ filenum[t] >= Iterations
        <5>1. LeaveLoop(t) /\ filenum' = filenum
          BY <3>2, <4>1 DEF DoAnotherFile
        <5> QED
          BY <3>0, <5>1 DEF LeaveLoop, Goto
      <4>2. CASE ~((~FinishAll /\ ended'[t]) \/ filenum[t] >= Iterations)
        <5>1. /\ filenum' = [filenum EXCEPT ![t] = @ + 1] /\ Goto(t, "op")
              /\ left' = left
          BY <3>2, <4>2 DEF DoAnotherFile
        <5> QED
          BY <3>0, <5>1 DEF Goto
      <4> QED
        BY <4>1, <4>2
    <3> QED
      BY <3>1, <3>2
  <2>3. opened' = opened
    BY DEF PassBarrier, DoAnotherFile, FinishThread
  <2> QED
    BY <1>1, <2>1, <2>2, <2>3 DEF OthersStay
<1>3. ASSUME Tracked
      PROVE  DirsTracked(t)'
  <2>1. DirsTracked(t)
    BY DEF SmallfileInv, Tracks
  <2>2. /\ LastUse' = LastUse /\ Subdirs(t)' = Subdirs(t)
        /\ LeavesDirsTo0(t)' = LeavesDirsTo0(t)
    BY <1>1 DEF LastUse, Subdirs, LeavesDirsTo0
  <2>3. ph # 8 \/ ~opt.suite
    BY <1>3, Covered DEF SmallfileInv
  <2>4. CASE ~(opt.suite /\ ~opt.shared /\ ph = 7)
    BY <1>1, <1>3, <2>1, <2>2, <2>3, <2>4 DEF DirsTracked
  <2>5. CASE opt.suite /\ ~opt.shared /\ ph = 7
    <3>1. Op = "cleanup" /\ ~LeavesDirsTo0(t)
      BY <1>3, <2>5, Covered DEF SmallfileInv, LeavesDirsTo0
    <3>2. \/ pc'[t] \notin {"tidy", "over", "done"}
          \/ pc'[t] = "tidy" /\ left'[t] = Subdirs(t)
          \/ pc'[t] = "done" /\ pc[t] = "over"
      BY <3>1 DEF PassBarrier, DoAnotherFile, FinishThread, LeaveLoop, Goto,
                  SmallfileInv, Control, TypeOK
    <3> QED
      BY <1>1, <1>3, <2>1, <2>2, <2>5, <3>2 DEF DirsTracked, LastUse
  <2> QED
    BY <2>4, <2>5
<1> QED
  BY <1>1, <1>2, <1>3, IdleTracks

LEMMA CleanTracks ==
  ASSUME SmallfileInv, ~RunOver, NEW t \in Tids, CleanSubdir(t) \/ CleanedSubdirs(t)
  PROVE  Tracks'
<1>1. OthersStay(t)
  BY DEF CleanSubdir, CleanedSubdirs, OthersStay, Goto, workload, SmallfileInv, Control,
         TypeOK
<1>2. /\ UNCHANGED <<opt, ph, arrived, names, attrs, processed>>
      /\ pc[t] = "tidy" /\ Op = "cleanup" /\ dirs' \subseteq dirs
  <2>1. pc[t] = "tidy"
    BY DEF CleanSubdir, CleanedSubdirs
  <2> QED
    BY <2>1, ThreadFacts DEF CleanSubdir, CleanedSubdirs, workload, system, Placed,
                             SmallfileInv
<1>3. ASSUME Tracked
      PROVE  status' = status /\ DirsTracked(t)'
  <2>1. FilesTracked(t) /\ DirsTracked(t) /\ opt.faults = "none"
    BY <1>3 DEF SmallfileInv, Tracks, Tracked, Alone
  <2>2. \/ CleanedSubdirs(t)
        \/ \E d \in left[t] :
             /\ left' = [left EXCEPT ![t] = @ \ {d}]
             /\ dirs' = IF \E x \in names : DirOf(x) = d THEN dirs ELSE dirs \ {d}
             /\ UNCHANGED <<pc, status>>
    BY <2>1 DEF CleanSubdir
  <2>3. /\ LastUse' = LastUse /\ Subdirs(t)' = Subdirs(t)
        /\ LeavesDirsTo0(t)' = LeavesDirsTo0(t)
    BY <1>2 DEF LastUse, Subdirs, LeavesDirsTo0
  <2>4. ph \notin 2..LastUse /\ (opt.suite => ph # 8) /\ ph \in Nat /\ ph # 2
    BY <1>2, <1>3, Covered DEF SmallfileInv, LastUse
  <2>5. CASE CleanedSubdirs(t)
    <3>1. left[t] = {} /\ pc'[t] = "over" /\ UNCHANGED <<left, dirs, status>>
      BY <2>5 DEF CleanedSubdirs, Goto, system, workload, SmallfileInv, Control, TypeOK
    <3> QED
      BY <1>2, <1>3, <2>1, <2>3, <2>4, <3>1 DEF DirsTracked
  <2>6. ASSUME NEW d \in left[t], left' = [left EXCEPT ![t] = @ \ {d}],
               dirs' = IF \E x \in names : DirOf(x) = d THEN dirs ELSE dirs \ {d},
               UNCHANGED <<pc, status>>
        PROVE  status' = status /\ DirsTracked(t)'
    <3>1. left'[t] = left[t] \ {d}
      BY <2>6 DEF SmallfileInv, Control, TypeOK
    <3>2. ASSUME opt.suite, ~opt.shared, ph = 7
          PROVE  dirs' \cap Subdirs(t) \subseteq left'[t]
      <4>1. dirs \cap Subdirs(t) \subseteq left[t]
        BY <1>2, <1>3, <2>1, <3>2 DEF DirsTracked
      <4>2. CASE d \notin Subdirs(t)
        BY <1>2, <3>1, <4>1, <4>2
      <4>3. CASE d \in Subdirs(t)
        <5>1. \A x \in names : DirOf(x) # d
          <6> SUFFICES ASSUME NEW x \in names, DirOf(x) = d
                       PROVE  FALSE
            OBVIOUS
          <6>1. d[2] = t
            BY <3>2, <4>3 DEF Subdirs
          <6>2. x[2] = t
            BY <3>2, <6>1 DEF DirOf
          <6>3. x[3] \in FileNums
            BY DEF SmallfileInv, Control, TypeOK, Names
          <6>4. x \in NamesOf(t, x[3])
            BY <6>2 DEF NamesOf
          <6>5. processed[t] = Iterations
            BY <1>2, <1>3, <2>1, AllProcessed DEF FilesTracked, SmallfileInv
          <6>6. NamesOf(t, x[3]) = Made(7, t, x[3])
            BY <1>3, <2>1, <3>2, <6>3, <6>5, TidFacts DEF FilesTracked
          <6> QED
            BY <3>2, <6>4, <6>6 DEF Made
        <5> QED
          BY <2>6, <3>1, <4>1, <5>1
      <4> QED
        BY <4>2, <4>3
    <3> QED
      BY <1>2, <1>3, <2>1, <2>3, <2>4, <2>6, <3>2 DEF DirsTracked
  <2> QED
    BY <2>2, <2>5, <2>6
<1> QED
  BY <1>1, <1>2, <1>3, IdleTracks

-----------------------------------------------------------------------------
(* An operation on a file of a run without faults. *)

\* the names a file of a thread can have
FileNames(t, n) == {SrcName(t, n), DstName(t, n), DotDName(t, n), LinkName(t, n)}

LEMMA FileNamesFacts ==
  ASSUME NEW t, NEW n, NEW x \in FileNames(t, n)
  PROVE  x[2] = t /\ x[3] = n
<1>1. /\ SrcName(t, n)[2] = t /\ SrcName(t, n)[3] = n
      /\ DstName(t, n)[2] = t /\ DstName(t, n)[3] = n
      /\ DotDName(t, n)[2] = t /\ DotDName(t, n)[3] = n
      /\ LinkName(t, n)[2] = t /\ LinkName(t, n)[3] = n
  BY DEF SrcName, DstName, DotDName, LinkName
<1> QED
  BY <1>1 DEF FileNames

\* the names of a file are among its four
LEMMA NamesOfFile ==
  ASSUME Control, NEW t \in Tids, NEW n \in FileNums
  PROVE  NamesOf(t, n) = names \cap FileNames(t, n)
<1>1. names \subseteq Names
  BY DEF Control, TypeOK
<1>2. \A x \in Names : x[2] = t /\ x[3] = n => x \in FileNames(t, n)
  <2> SUFFICES ASSUME NEW x \in Names, x[2] = t, x[3] = n
               PROVE  x \in FileNames(t, n)
    OBVIOUS
  <2>1. PICK tr \in Trees : x \in {tr} \X Tids \X FileNums \X Suffixes(tr)
    BY DEF Names
  <2>2. x = <<tr, t, n, x[4]>> /\ x[4] \in Suffixes(tr)
    BY <2>1
  <2> QED
    BY <2>2 DEF Trees, Suffixes, FileNames, SrcName, DstName, DotDName, LinkName
<1>3. \A x \in FileNames(t, n) : x[2] = t /\ x[3] = n
  BY FileNamesFacts
<1> QED
  BY <1>1, <1>2, <1>3 DEF NamesOf

\* a successful operation takes the names gone, makes the names new and adds
\* the attributes more
Applied(t, gone, new, more) ==
  /\ names' = (names \ gone) \cup new
  /\ attrs' = {a \in attrs \cup more : a[1] \in names'}
  /\ Succeed(t)
  /\ UNCHANGED <<opt, ph, filenum, ended, files, left, opened, arrived, dirs>>

LEMMA AppliedNames ==
  ASSUME NEW t, NEW n, NEW gone \in SUBSET FileNames(t, n),
         NEW new \in SUBSET FileNames(t, n), names' = (names \ gone) \cup new
  PROVE  /\ NamesOf(t, n)' = (NamesOf(t, n) \ gone) \cup new
         /\ \A u, m : u # t \/ m # n => NamesOf(u, m)' = NamesOf(u, m)
         /\ \A u, m : (u # t \/ m # n) /\ SrcName(u, m) \in names => SrcName(u, m) \in names'
<1>1. \A x \in gone \cup new : x[2] = t /\ x[3] = n
  BY FileNamesFacts
<1>2. NamesOf(t, n)' = (NamesOf(t, n) \ gone) \cup new
  BY <1>1 DEF NamesOf
<1>3. \A u, m : u # t \/ m # n => NamesOf(u, m)' = NamesOf(u, m)
  BY <1>1 DEF NamesOf
<1>4. \A u, m : (u # t \/ m # n) /\ SrcName(u, m) \in names => SrcName(u, m) \in names'
  <2>1. \A u, m : SrcName(u, m)[2] = u /\ SrcName(u, m)[3] = m
    BY DEF SrcName
  <2> QED
    BY <1>1, <2>1
<1> QED
  BY <1>2, <1>3, <1>4

\* the source of a file is there while its attributes count
LEMMA SourceMade ==
  ASSUME NEW p \in 2..14, NEW t, NEW n, ~opt.suite
  PROVE  SrcName(t, n) \in Made(p, t, n)
BY DEF Made

LEMMA FileStep ==
  ASSUME SmallfileInv, Tracked, ~RunOver, NEW t \in Tids, pc[t] = "op",
         NEW gone \in SUBSET FileNames(t, filenum[t]),
         NEW new \in SUBSET FileNames(t, filenum[t]), NEW more,
         Applied(t, gone, new, more),
         (NamesOf(t, filenum[t]) \ gone) \cup new = Made(ph, t, filenum[t]),
         ~opt.suite /\ ph = 2 => <<SrcName(t, filenum[t]), "ctime">> \in more,
         ~opt.suite /\ ph = 6 => <<SrcName(t, filenum[t]), "user">> \in more
  PROVE  Tracks'
<1>0. PICK n \in FileNums : n = filenum[t]
  BY CurrentFile DEF SmallfileInv
<1>1. processed[t] \in Nat /\ processed[t] + 1 = n
  BY <1>0, CurrentFile DEF SmallfileInv
<1>2. /\ pc' = [pc EXCEPT ![t] = "next"] /\ status' = status
      /\ processed' = [processed EXCEPT ![t] = @ + 1]
      /\ UNCHANGED <<opt, ph, filenum, ended, files, left, opened, arrived, dirs>>
      /\ names' = (names \ gone) \cup new
      /\ attrs' = {a \in attrs \cup more : a[1] \in names'}
  BY DEF Applied, Succeed, Goto
<1>3. OthersStay(t) /\ pc'[t] = "next" /\ processed'[t] = n
  BY <1>1, <1>2 DEF OthersStay, SmallfileInv, Control, TypeOK
<1>4. /\ NamesOf(t, n)' = Made(ph, t, n)
      /\ \A u, m : u # t \/ m # n => NamesOf(u, m)' = NamesOf(u, m)
      /\ \A u, m : (u # t \/ m # n) /\ SrcName(u, m) \in names => SrcName(u, m) \in names'
  <2>1. gone \in SUBSET FileNames(t, n) /\ new \in SUBSET FileNames(t, n)
    BY <1>0
  <2>2. (NamesOf(t, n) \ gone) \cup new = Made(ph, t, n)
    BY <1>0
  <2>3. names' = (names \ gone) \cup new
    BY <1>2
  <2>4. /\ NamesOf(t, n)' = (NamesOf(t, n) \ gone) \cup new
        /\ \A u, m : u # t \/ m # n => NamesOf(u, m)' = NamesOf(u, m)
        /\ \A u, m : (u # t \/ m # n) /\ SrcName(u, m) \in names
                      => SrcName(u, m) \in names'
    BY <2>1, <2>3, AppliedNames
  <2> QED
    BY <2>2, <2>4
<1>5. \A u, m, k : (u # t \/ m # n) /\ <<SrcName(u, m), k>> \in attrs
                     => <<SrcName(u, m), k>> \in attrs'
  <2> SUFFICES ASSUME NEW u, NEW m, NEW k, u # t \/ m # n, <<SrcName(u, m), k>> \in attrs
               PROVE  <<SrcName(u, m), k>> \in attrs'
    OBVIOUS
  <2>1. SrcName(u, m) \in names
    BY DEF SmallfileInv, Control, TypeOK
  <2>2. SrcName(u, m) \in names'
    BY <1>4, <2>1
  <2> QED
    BY <1>2, <2>2
<1>6. OthersKept(t)
  BY <1>2, <1>4, <1>5 DEF OthersKept
<1>7. /\ FilesTracked(t) /\ DirsTracked(t) /\ AttrsTracked(t)
      /\ Tracked' = Tracked /\ LastUse' = LastUse /\ Subdirs(t)' = Subdirs(t)
      /\ LeavesDirsTo0(t)' = LeavesDirsTo0(t)
      /\ \A p, u, m : Made(p, u, m)' = Made(p, u, m)
  BY <1>2 DEF SmallfileInv, Tracks, Tracked, Alone, LastUse, Subdirs, LeavesDirsTo0, Made
<1>8. FilesTracked(t)'
  <2>1. ASSUME NEW m \in FileNums
        PROVE  /\ m <= n => NamesOf(t, m)' = Made(ph, t, m)
               /\ m > n /\ ph > 1 => NamesOf(t, m)' = Made(ph - 1, t, m)
    <3>1. m \in Nat /\ n \in Nat
      BY <1>1, TidFacts
    <3>2. CASE m = n
      BY <1>4, <3>1, <3>2
    <3>3. CASE m # n
      <4>1. NamesOf(t, m)' = NamesOf(t, m)
        BY <1>4, <3>3
      <4>2. /\ m <= n => m <= processed[t]
            /\ m > n => m > processed[t]
        BY <1>1, <3>1, <3>3
      <4> QED
        BY <1>7, <4>1, <4>2 DEF FilesTracked
    <3> QED
      BY <3>2, <3>3
  <2>2. status'[t] = "ok"
    BY <1>2, <1>7 DEF FilesTracked
  <2> QED
    BY <1>2, <1>3, <1>7, <2>1, <2>2 DEF FilesTracked
<1>9. DirsTracked(t)'
  <2>1. opt.suite => ph # 8
    BY Covered DEF SmallfileInv
  <2> QED
    BY <1>2, <1>3, <1>7, <2>1 DEF DirsTracked
<1>10. AttrsTracked(t)'
  <2> SUFFICES ASSUME ~opt.suite, NEW m \in FileNums
               PROVE  /\ ph \in 3..14 \/ (ph = 2 /\ m <= n) =>
                           <<SrcName(t, m), "ctime">> \in attrs'
                      /\ ph \in 7..14 \/ (ph = 6 /\ m <= n) =>
                           <<SrcName(t, m), "user">> \in attrs'
    BY <1>2, <1>3, <1>7 DEF AttrsTracked, SrcName
  <2>0. m \in Nat /\ n \in Nat /\ ph \in Nat
    BY <1>1, TidFacts, Covered DEF SmallfileInv
  <2>1. CASE m = n
    <3>1. ph \in 2..14 => SrcName(t, n) \in names'
      <4>1. NamesOf(t, n)' \subseteq names'
        BY DEF NamesOf
      <4> QED
        BY <1>4, <4>1, SourceMade
    <3>2. /\ ph \in 2..14 => <<SrcName(t, n), "ctime">> \in attrs \cup more
          /\ ph \in 6..14 => <<SrcName(t, n), "user">> \in attrs \cup more
      BY <1>0, <1>1, <1>7, <2>0 DEF AttrsTracked
    <3> QED
      BY <1>2, <2>0, <2>1, <3>1, <3>2
  <2>2. CASE m # n
    <3>1. m <= n => m <= processed[t]
      BY <1>1, <2>0, <2>2
    <3>2. /\ <<SrcName(t, m), "ctime">> \in attrs => <<SrcName(t, m), "ctime">> \in attrs'
          /\ <<SrcName(t, m), "user">> \in attrs => <<SrcName(t, m), "user">> \in attrs'
      BY <1>5, <2>2
    <3> QED
      BY <1>7, <3>1, <3>2 DEF AttrsTracked
  <2> QED
    BY <2>1, <2>2
<1> QED
  BY <1>2, <1>3, <1>6, <1>8, <1>9, <1>10, TracksFrame

\* the directories of a thread are there while it uses them
LEMMA DirsReady ==
  ASSUME SmallfileInv, Tracked, ~RunOver, NEW t \in Tids, pc[t] = "op", ph \in 2..LastUse
  PROVE  Subdirs(t) \subseteq dirs
<1>1. \A u \in Tids : DirsTracked(u)
  BY DEF SmallfileInv, Tracks
<1>2. arrived = Tids
  BY ThreadFacts DEF SmallfileInv, GatheredAt
<1>3. CASE ph = 2
  <2>1. \A u \in Tids : ~LeavesDirsTo0(u) => Subdirs(u) \subseteq dirs
    BY <1>1, <1>2, <1>3 DEF DirsTracked
  <2> QED
    BY <2>1, SharedDirs
<1>4. CASE ph # 2
  <2>1. ph \in 3..LastUse
    BY <1>4 DEF LastUse
  <2> QED
    BY <1>1, <2>1 DEF DirsTracked
<1> QED
  BY <1>3, <1>4

\* the file that a thread is at, in a phase that has what it needs
LEMMA FileBefore ==
  ASSUME SmallfileInv, Tracked, ~RunOver, NEW t \in Tids, pc[t] = "op", NEW n,
         n = filenum[t]
  PROVE  /\ n \in FileNums /\ opt.faults = "none"
         /\ Src(t) = SrcName(t, n) /\ Dst(t) = DstName(t, n)
         /\ Suffixed(Src(t), ".d") = DotDName(t, n)
         /\ Suffixed(Dst(t), ".s") = LinkName(t, n)
         /\ ph > 1 => NamesOf(t, n) = Made(ph - 1, t, n)
         /\ \A x \in FileNames(t, n) : x \in names <=> x \in NamesOf(t, n)
         /\ \A x \in FileNames(t, n) : ph \in 2..LastUse => DirOf(x) \in dirs
         /\ Stamp(Src(t)) = IF opt.ctime THEN {<<SrcName(t, n), "ctime">>} ELSE {}
         /\ ~opt.suite => opt.ctime
<1>1. /\ n \in FileNums /\ processed[t] \in Nat /\ processed[t] + 1 = n
      /\ Src(t) = SrcName(t, n) /\ Dst(t) = DstName(t, n)
      /\ Suffixed(Src(t), ".d") = DotDName(t, n)
      /\ Suffixed(Dst(t), ".s") = LinkName(t, n)
  BY CurrentFile DEF SmallfileInv
<1>2. FilesTracked(t) /\ opt.faults = "none" /\ (~opt.suite => opt.ctime)
  BY DEF SmallfileInv, Tracks, Tracked, Alone
<1>3. ph > 1 => NamesOf(t, n) = Made(ph - 1, t, n)
  <2>1. n > processed[t]
    BY <1>1
  <2> QED
    BY <1>1, <1>2, <2>1 DEF FilesTracked
<1>4. \A x \in FileNames(t, n) : x \in names <=> x \in NamesOf(t, n)
  BY <1>1, NamesOfFile DEF SmallfileInv
<1>5. \A x \in FileNames(t, n) : ph \in 2..LastUse => DirOf(x) \in dirs
  <2> SUFFICES ASSUME NEW x \in FileNames(t, n), ph \in 2..LastUse
               PROVE  DirOf(x) \in dirs
    OBVIOUS
  <2>1. x[1] \in Trees
    <3>1. /\ SrcName(t, n)[1] = "src" /\ DstName(t, n)[1] = "dst"
          /\ DotDName(t, n)[1] = "src" /\ LinkName(t, n)[1] = "dst"
      BY DEF SrcName, DstName, DotDName, LinkName
    <3> QED
      BY <3>1 DEF FileNames, Trees
  <2>2. DirOf(x) \in Subdirs(t)
    BY <1>1, <2>1, FileNamesFacts, SubdirFacts
  <2> QED
    BY <2>2, DirsReady
<1> QED
  BY <1>1, <1>2, <1>3, <1>4, <1>5 DEF Stamp

LEMMA FourNames ==
  ASSUME NEW t, NEW n
  PROVE  /\ SrcName(t, n) # DstName(t, n) /\ SrcName(t, n) # DotDName(t, n)
         /\ SrcName(t, n) # LinkName(t, n) /\ DstName(t, n) # DotDName(t, n)
         /\ DstName(t, n) # LinkName(t, n) /\ DotDName(t, n) # LinkName(t, n)
BY DEF SrcName, DstName, DotDName, LinkName

LEMMA MakeTracks ==
  ASSUME SmallfileInv, Tracked, ~RunOver, NEW t \in Tids, pc[t] = "op",
         DoCreate(t) \/ DoRename(t) \/ DoDeleteRenamed(t) \/ DoSymlink(t) \/ DoCleanup(t)
  PROVE  Tracks'
<1>0. PICK n \in FileNums : n = filenum[t]
  BY CurrentFile DEF SmallfileInv
<1>1. /\ opt.faults = "none"
      /\ Src(t) = SrcName(t, n) /\ Dst(t) = DstName(t, n)
      /\ Suffixed(Src(t), ".d") = DotDName(t, n)
      /\ Suffixed(Dst(t), ".s") = LinkName(t, n)
      /\ ph > 1 => NamesOf(t, n) = Made(ph - 1, t, n)
      /\ \A x \in FileNames(t, n) : x \in names <=> x \in NamesOf(t, n)
      /\ \A x \in FileNames(t, n) : ph \in 2..LastUse => DirOf(x) \in dirs
      /\ Stamp(Src(t)) = IF opt.ctime THEN {<<SrcName(t, n), "ctime">>} ELSE {}
      /\ ~opt.suite => opt.ctime
  BY <1>0, FileBefore
<1>2. /\ SrcName(t, n) \in FileNames(t, n) /\ DstName(t, n) \in FileNames(t, n)
      /\ DotDName(t, n) \in FileNames(t, n) /\ LinkName(t, n) \in FileNames(t, n)
      /\ NamesOf(t, n) \subseteq FileNames(t, n)
  BY NamesOfFile DEF FileNames, SmallfileInv
<1>3. CASE DoCreate(t)
  <2>1. ph = 2
    BY <1>3, Covered DEF DoCreate, At, SmallfileInv
  <2>2. NamesOf(t, n) = {} /\ Made(ph, t, n) = {SrcName(t, n)}
    BY <1>1, <2>1 DEF Made
  <2>3. CanAdd(Src(t))
    BY <1>1, <1>2, <2>1, <2>2 DEF CanAdd, LastUse
  <2>4. Applied(t, {}, {SrcName(t, n)}, Stamp(Src(t)))
    BY <1>1, <1>3, <2>3 DEF DoCreate, Apply, Applied
  <2>5. /\ (NamesOf(t, n) \ {}) \cup {SrcName(t, n)} = Made(ph, t, n)
        /\ ~opt.suite => <<SrcName(t, n), "ctime">> \in Stamp(Src(t))
    BY <1>1, <2>2
  <2> QED
    BY <1>0, <1>2, <2>1, <2>4, <2>5, FileStep
<1>4. CASE DoRename(t)
  <2>1. ph = 5 /\ opt.suite
    BY <1>4, Covered DEF DoRename, At, SmallfileInv
  <2>2. NamesOf(t, n) = {SrcName(t, n)} /\ Made(ph, t, n) = {DstName(t, n)}
    BY <1>1, <2>1 DEF Made
  <2>3. Src(t) \in names /\ DirOf(Dst(t)) \in dirs
    BY <1>1, <1>2, <2>1, <2>2 DEF LastUse
  <2>4. Applied(t, {SrcName(t, n)}, {DstName(t, n)}, {})
    BY <1>1, <1>4, <2>3 DEF DoRename, Apply, Applied
  <2> QED
    BY <1>0, <1>2, <2>1, <2>2, <2>4, FileStep
<1>5. CASE DoDeleteRenamed(t)
  <2>1. ph = 6 /\ opt.suite
    BY <1>5, Covered DEF DoDeleteRenamed, At, SmallfileInv
  <2>2. NamesOf(t, n) = {DstName(t, n)} /\ Made(ph, t, n) = {}
    BY <1>1, <2>1 DEF Made
  <2>3. Dst(t) \in names
    BY <1>1, <1>2, <2>2
  <2>4. Applied(t, {DstName(t, n)}, {}, {})
    BY <1>1, <1>5, <2>3 DEF DoDeleteRenamed, Apply, Applied
  <2> QED
    BY <1>0, <1>2, <2>1, <2>2, <2>4, FileStep
<1>6. CASE DoSymlink(t)
  <2>1. ph = 10 /\ ~opt.suite
    BY <1>6, Covered DEF DoSymlink, At, SmallfileInv
  <2>2. /\ NamesOf(t, n) = {SrcName(t, n)}
        /\ Made(ph, t, n) = {SrcName(t, n), LinkName(t, n)}
    BY <1>1, <2>1 DEF Made
  <2>3. CanAdd(LinkName(t, n))
    BY <1>1, <1>2, <2>1, <2>2, FourNames DEF CanAdd, LastUse
  <2>4. Applied(t, {}, {LinkName(t, n)}, {})
    BY <1>1, <1>6, <2>3 DEF DoSymlink, Apply, Applied
  <2> QED
    BY <1>0, <1>2, <2>1, <2>2, <2>4, FileStep
<1>7. CASE DoCleanup(t)
  <2>1. ph \in {1, 7} /\ (~opt.suite => ph = 1)
    BY <1>7, Covered DEF DoCleanup, At, SmallfileInv
  <2>2. Made(ph, t, n) = {}
    BY <2>1 DEF Made
  <2>3. Applied(t, FileNames(t, n), {}, {})
    BY <1>1, <1>7 DEF DoCleanup, Apply, Applied, FileNames
  <2>4. (NamesOf(t, n) \ FileNames(t, n)) \cup {} = Made(ph, t, n)
    BY <1>2, <2>2
  <2>5. ph # 2 /\ (~opt.suite => ph # 6)
    BY <2>1
  <2> QED
    BY <1>0, <2>3, <2>4, <2>5, FileStep
<1> QED
  BY <1>3, <1>4, <1>5, <1>6, <1>7

LEMMA UseTracks ==
  ASSUME SmallfileInv, Tracked, ~RunOver, NEW t \in Tids, pc[t] = "op",
         \/ DoRead(t) \/ DoWrite(t) \/ DoSetxattr(t) \/ DoGetxattr(t) \/ DoSwiftGet(t)
         \/ DoAwaitCreate(t)
  PROVE  Tracks'
<1>0. PICK n \in FileNums : n = filenum[t]
  BY CurrentFile DEF SmallfileInv
<1>1. /\ opt.faults = "none" /\ Src(t) = SrcName(t, n)
      /\ ph > 1 => NamesOf(t, n) = Made(ph - 1, t, n)
      /\ \A x \in FileNames(t, n) : x \in names <=> x \in NamesOf(t, n)
      /\ Stamp(Src(t)) = IF opt.ctime THEN {<<SrcName(t, n), "ctime">>} ELSE {}
  BY <1>0, FileBefore
<1>2. SrcName(t, n) \in FileNames(t, n) /\ {} \subseteq FileNames(t, n)
  BY DEF FileNames
<1>3. AttrsTracked(t)
  BY DEF SmallfileInv, Tracks
<1>4. /\ DoRead(t) => ph = 3 /\ opt.suite
      /\ DoWrite(t) => (ph = 4 /\ opt.suite) \/ (ph = 3 /\ ~opt.suite)
      /\ DoSetxattr(t) => ph = 6 /\ ~opt.suite
      /\ DoGetxattr(t) => ph = 7 /\ ~opt.suite
      /\ DoSwiftGet(t) => ph = 14 /\ ~opt.suite
      /\ DoAwaitCreate(t) => ph = 13 /\ ~opt.suite
  BY Covered DEF DoRead, DoWrite, DoSetxattr, DoGetxattr, DoSwiftGet, DoAwaitCreate, At,
                 SmallfileInv
<1>5. /\ NamesOf(t, n) = Made(ph, t, n) /\ SrcName(t, n) \in NamesOf(t, n)
      /\ ph # 2 /\ (~opt.suite /\ ph = 6 => DoSetxattr(t))
  BY <1>1, <1>4 DEF Made
<1>6. SrcName(t, n) \in names
  BY <1>1, <1>2, <1>5
<1>7. \E more : /\ Applied(t, {}, {}, more)
                /\ DoSetxattr(t) => more = {<<SrcName(t, n), "user">>}
  <2>1. CASE DoRead(t)
    <3>1. Applied(t, {}, {}, {})
      BY <1>1, <1>6, <2>1 DEF DoRead, Apply, Applied
    <3> QED
      BY <1>4, <2>1, <3>1
  <2>2. CASE DoWrite(t)
    <3>1. Applied(t, {}, {}, Stamp(Src(t)))
      BY <1>1, <1>6, <2>2 DEF DoWrite, Apply, Applied
    <3> QED
      BY <1>4, <2>2, <3>1
  <2>3. CASE DoSetxattr(t)
    <3>1. Applied(t, {}, {}, {<<SrcName(t, n), "user">>})
      BY <1>1, <1>6, <2>3 DEF DoSetxattr, Apply, Applied
    <3> QED
      BY <3>1
  <2>4. CASE DoGetxattr(t)
    <3>1. <<Src(t), "user">> \in attrs
      <4>1. ph = 7 /\ ~opt.suite
        BY <1>4, <2>4
      <4>2. ph \in 7..14
        BY <4>1
      <4>3. <<SrcName(t, n), "user">> \in attrs
        BY <1>0, <1>3, <4>1, <4>2 DEF AttrsTracked
      <4> QED
        BY <1>1, <4>3
    <3>2. Applied(t, {}, {}, {})
      BY <1>1, <2>4, <3>1 DEF DoGetxattr, Apply, Applied
    <3> QED
      BY <1>4, <2>4, <3>2
  <2>5. CASE DoSwiftGet(t)
    <3>1. Applied(t, {}, {}, {})
      BY <1>1, <1>6, <2>5 DEF DoSwiftGet, Apply, Applied
    <3> QED
      BY <1>4, <2>5, <3>1
  <2>6. CASE DoAwaitCreate(t)
    <3>1. <<Src(t), "ctime">> \in attrs
      <4>1. ph = 13 /\ ~opt.suite
        BY <1>4, <2>6
      <4>2. ph \in 3..14
        BY <4>1
      <4>3. <<SrcName(t, n), "ctime">> \in attrs
        BY <1>0, <1>3, <4>1, <4>2 DEF AttrsTracked
      <4> QED
        BY <1>1, <4>3
    <3>2. Applied(t, {}, {}, {})
      BY <1>1, <2>6, <3>1 DEF DoAwaitCreate, Apply, Applied
    <3> QED
      BY <1>4, <2>6, <3>2
  <2> QED
    BY <2>1, <2>2, <2>3, <2>4, <2>5, <2>6
<1>8. PICK more : /\ Applied(t, {}, {}, more)
                  /\ DoSetxattr(t) => more = {<<SrcName(t, n), "user">>}
  BY <1>7
<1>9. (NamesOf(t, n) \ {}) \cup {} = Made(ph, t, n)
  BY <1>5
<1> QED
  BY <1>0, <1>2, <1>5, <1>8, <1>9, FileStep

LEMMA SimpleTracks ==
  ASSUME SmallfileInv, Tracked, ~RunOver, NEW t \in Tids, pc[t] = "op", DoSimple(t)
  PROVE  Tracks'
<1>0. PICK n \in FileNums : n = filenum[t]
  BY CurrentFile DEF SmallfileInv
<1>1. /\ opt.faults = "none"
      /\ Src(t) = SrcName(t, n) /\ Suffixed(Src(t), ".d") = DotDName(t, n)
      /\ ph > 1 => NamesOf(t, n) = Made(ph - 1, t, n)
      /\ \A x \in FileNames(t, n) : x \in names <=> x \in NamesOf(t, n)
      /\ \A x \in FileNames(t, n) : ph \in 2..LastUse => DirOf(x) \in dirs
  BY <1>0, FileBefore
<1>2. SrcName(t, n) \in FileNames(t, n) /\ DotDName(t, n) \in FileNames(t, n)
  BY DEF FileNames
<1>3. ~opt.suite /\ ph \in {4, 5, 11, 12, 15}
      /\ (Op \in {"stat", "chmod"} <=> ph \in {4, 5}) /\ (Op = "mkdir" <=> ph = 11)
      /\ (Op = "rmdir" <=> ph = 12) /\ (Op = "delete" <=> ph = 15)
  BY Covered DEF DoSimple, At, SmallfileInv
<1>4. CASE ph \in {4, 5}
  <2>1. NamesOf(t, n) = {SrcName(t, n)} /\ Made(ph, t, n) = {SrcName(t, n)}
    BY <1>1, <1>3, <1>4 DEF Made
  <2>2. Src(t) \in names
    BY <1>1, <1>2, <2>1
  <2>3. Applied(t, {}, {}, {})
    BY <1>1, <1>3, <1>4, <2>2 DEF DoSimple, Apply, Applied
  <2>4. (NamesOf(t, n) \ {}) \cup {} = Made(ph, t, n)
    BY <2>1
  <2>5. ph # 2 /\ ph # 6
    BY <1>4
  <2> QED
    BY <1>0, <2>3, <2>4, <2>5, FileStep
<1>5. CASE ph = 11
  <2>1. /\ NamesOf(t, n) = {SrcName(t, n), LinkName(t, n)}
        /\ Made(ph, t, n) = {SrcName(t, n), LinkName(t, n), DotDName(t, n)}
    BY <1>1, <1>3, <1>5 DEF Made
  <2>2. CanAdd(DotDName(t, n))
    BY <1>1, <1>2, <1>3, <1>5, <2>1, FourNames DEF CanAdd, LastUse
  <2>3. Applied(t, {}, {DotDName(t, n)}, {})
    BY <1>1, <1>3, <1>5, <2>2 DEF DoSimple, Apply, Applied
  <2>4. (NamesOf(t, n) \ {}) \cup {DotDName(t, n)} = Made(ph, t, n)
    BY <2>1
  <2> QED
    BY <1>0, <1>2, <1>5, <2>3, <2>4, FileStep
<1>6. CASE ph = 12
  <2>1. /\ NamesOf(t, n) = {SrcName(t, n), LinkName(t, n), DotDName(t, n)}
        /\ Made(ph, t, n) = {SrcName(t, n), LinkName(t, n)}
    BY <1>1, <1>3, <1>6 DEF Made
  <2>2. DotDName(t, n) \in names
    BY <1>1, <1>2, <2>1
  <2>3. Applied(t, {DotDName(t, n)}, {}, {})
    BY <1>1, <1>3, <1>6, <2>2 DEF DoSimple, Apply, Applied
  <2>4. (NamesOf(t, n) \ {DotDName(t, n)}) \cup {} = Made(ph, t, n)
    BY <2>1, FourNames
  <2> QED
    BY <1>0, <1>2, <1>6, <2>3, <2>4, FileStep
<1>7. CASE ph = 15
  <2>1. /\ NamesOf(t, n) = {SrcName(t, n), LinkName(t, n)}
        /\ Made(ph, t, n) = {LinkName(t, n)}
    BY <1>1, <1>3, <1>7 DEF Made
  <2>2. Src(t) \in names
    BY <1>1, <1>2, <2>1
  <2>3. Applied(t, {SrcName(t, n)}, {}, {})
    BY <1>1, <1>3, <1>7, <2>2 DEF DoSimple, Apply, Applied
  <2>4. (NamesOf(t, n) \ {SrcName(t, n)}) \cup {} = Made(ph, t, n)
    BY <2>1, FourNames
  <2> QED
    BY <1>0, <1>2, <1>7, <2>3, <2>4, FileStep
<1> QED
  BY <1>3, <1>4, <1>5, <1>6, <1>7

\* files of a thread in the directory of file m, for readdir
Listed(t, m) == {x \in names : DirOf(x) = DirOf(<<"src", t, m, "">>)}
Met(m) == {j \in 1..m : DirNum(j) = DirNum(m)}

\* when the next file is in another directory, the thread has met all files of
\* the directory it leaves
LEMMA AllMet ==
  ASSUME Control, ~opt.shared, NEW t \in Tids, NEW m \in Nat, m >= 1, m + 1 <= Iterations,
         DirNum(m + 1) # DirNum(m),
         \A n \in FileNums : NamesOf(t, n) = {SrcName(t, n)}
  PROVE  Cardinality(Listed(t, m)) = Cardinality(Met(m))
<1> DEFINE f == [j \in Met(m) |-> SrcName(t, j)]
<1>0. \A j \in Nat : DirNum(j) \in Nat
  BY DirNumFacts
<1>1. \A j \in FileNums : DirNum(j) = DirNum(m) => j <= m
  <2> SUFFICES ASSUME NEW j \in FileNums, j > m
               PROVE  DirNum(j) # DirNum(m)
    BY TidFacts
  <2>1. j \in Nat /\ m + 1 \in Nat /\ m + 1 <= j /\ m <= m + 1
    BY TidFacts
  <2>2. DirNum(m + 1) <= DirNum(j)
    BY <2>1, DirNumFacts
  <2>3. DirNum(m) <= DirNum(m + 1)
    BY <2>1, DirNumFacts
  <2> QED
    BY <1>0, <2>1, <2>2, <2>3
<1>2. Met(m) = {j \in FileNums : DirNum(j) = DirNum(m)}
  BY <1>1, TidFacts DEF Met, FileNums
<1>3. \A x \in names : DirOf(x) = DirOf(<<"src", t, m, "">>)
                         <=> x[1] = "src" /\ x[2] = t /\ DirNum(x[3]) = DirNum(m)
  BY DEF DirOf
<1>4. \A x \in names : x[2] = t => x[3] \in FileNums /\ x = SrcName(t, x[3])
  <2> SUFFICES ASSUME NEW x \in names, x[2] = t
               PROVE  x[3] \in FileNums /\ x = SrcName(t, x[3])
    OBVIOUS
  <2>1. x[3] \in FileNums
    BY DEF Control, TypeOK, Names
  <2>2. x \in NamesOf(t, x[3])
    BY DEF NamesOf
  <2> QED
    BY <2>1, <2>2
<1>5. \A j \in FileNums : SrcName(t, j) \in names
  BY DEF NamesOf
<1>6. \A j : SrcName(t, j)[1] = "src" /\ SrcName(t, j)[2] = t /\ SrcName(t, j)[3] = j
  BY DEF SrcName
<1>7. Listed(t, m) = {SrcName(t, j) : j \in Met(m)}
  <2>1. ASSUME NEW x \in Listed(t, m)
        PROVE  \E j \in Met(m) : x = SrcName(t, j)
    BY <1>2, <1>3, <1>4 DEF Listed
  <2>2. ASSUME NEW j \in Met(m)
        PROVE  SrcName(t, j) \in Listed(t, m)
    <3>1. j \in FileNums /\ DirNum(j) = DirNum(m)
      BY <1>2
    <3> QED
      BY <1>3, <1>5, <1>6, <3>1 DEF Listed
  <2> QED
    BY <2>1, <2>2
<1>8. f \in Bijection(Met(m), Listed(t, m))
  <2>1. f \in [Met(m) -> Listed(t, m)]
    BY <1>7
  <2>2. \A i, j \in Met(m) : f[i] = f[j] => i = j
    BY <1>6
  <2>3. \A x \in Listed(t, m) : \E j \in Met(m) : f[j] = x
    BY <1>7
  <2> HIDE DEF f
  <2> QED
    BY <2>1, <2>2, <2>3, Fun_IsBij
<1>9. ExistsBijection(Met(m), Listed(t, m))
  BY <1>8 DEF ExistsBijection
<1>10. IsFiniteSet(Met(m))
  <2>1. IsFiniteSet(1..m)
    BY FS_Interval
  <2>2. Met(m) \in SUBSET (1..m)
    BY DEF Met
  <2> QED
    BY <2>1, <2>2, FS_Subset
<1> QED
  BY <1>9, <1>10, FS_Bijection

LEMMA ReaddirTracks ==
  ASSUME SmallfileInv, Tracked, ~RunOver, NEW t \in Tids, pc[t] = "op", DoReaddir(t)
  PROVE  Tracks'
<1>0. PICK n \in FileNums : n = filenum[t]
  BY CurrentFile DEF SmallfileInv
<1>1. /\ opt.faults = "none" /\ Src(t) = SrcName(t, n)
      /\ ph > 1 => NamesOf(t, n) = Made(ph - 1, t, n)
      /\ \A x \in FileNames(t, n) : x \in names <=> x \in NamesOf(t, n)
  BY <1>0, FileBefore
<1>2. SrcName(t, n) \in FileNames(t, n)
  BY DEF FileNames
<1>3. ~opt.suite /\ ~opt.shared /\ ph \in {8, 9}
  BY Covered DEF DoReaddir, At, SmallfileInv, Alone
<1>4. \A m \in FileNums : NamesOf(t, m) = {SrcName(t, m)}
  <2> SUFFICES ASSUME NEW m \in FileNums
               PROVE  NamesOf(t, m) = {SrcName(t, m)}
    OBVIOUS
  <2>1. Made(ph, t, m) = {SrcName(t, m)} /\ Made(ph - 1, t, m) = {SrcName(t, m)}
    BY <1>3 DEF Made
  <2>2. m <= processed[t] \/ m > processed[t]
    <3>1. m \in Nat /\ processed[t] \in Nat
      BY TidFacts, CurrentFile DEF SmallfileInv
    <3> QED
      BY <3>1
  <2>3. FilesTracked(t)
    BY DEF SmallfileInv, Tracks
  <2> QED
    BY <1>3, <2>1, <2>2, <2>3 DEF FilesTracked
<1>5. n > 1 /\ DirNum(n - 1) # DirNum(n)
        => Cardinality(Listed(t, n - 1)) = Cardinality(Met(n - 1))
  <2> SUFFICES ASSUME n > 1, DirNum(n - 1) # DirNum(n)
               PROVE  Cardinality(Listed(t, n - 1)) = Cardinality(Met(n - 1))
    OBVIOUS
  <2>1. PICK m \in Nat : m = n - 1
    BY TidFacts
  <2>2. m >= 1 /\ m + 1 = n /\ m + 1 <= Iterations
    BY <2>1, TidFacts
  <2>3. DirNum(m + 1) # DirNum(m)
    BY <2>1, <2>2
  <2> QED
    BY <1>3, <1>4, <2>1, <2>2, <2>3, AllMet DEF SmallfileInv
<1>6. Src(t) \in names
  BY <1>0, <1>1, <1>2, <1>4
<1>7. Applied(t, {}, {}, {})
  <2>1. LET k == filenum[t]
            Listing(m) == {x \in names : DirOf(x) = DirOf(<<"src", t, m, "">>)}
            MetIn(m) == {j \in 1..m : DirNum(j) = DirNum(m)}
        IN  k > 1 /\ DirNum(k - 1) # DirNum(k) =>
              Cardinality(Listing(k - 1)) = Cardinality(MetIn(k - 1))
    BY <1>0, <1>5 DEF Listed, Met
  <2> QED
    BY <1>1, <1>6, <2>1 DEF DoReaddir, Apply, Applied
<1>8. (NamesOf(t, n) \ {}) \cup {} = Made(ph, t, n)
  BY <1>0, <1>3, <1>4 DEF Made
<1>9. ph # 2 /\ ph # 6
  BY <1>3
<1> QED
  BY <1>0, <1>7, <1>8, <1>9, FileStep

LEMMA Untracked ==
  ASSUME ~Tracked, UNCHANGED <<opt, ph>>
  PROVE  Tracks'
<1>1. ~Tracked'
  BY DEF Tracked, Alone
<1> QED
  BY <1>1 DEF Tracks, FilesTracked, DirsTracked, AttrsTracked

LEMMA OperationTracks ==
  ASSUME SmallfileInv, ~RunOver, NEW t \in Tids, Operation(t)
  PROVE  Tracks'
<1>1. CASE ~Tracked
  <2>1. CASE SwiftPutOpen(t) \/ SwiftPutClose(t) \/ SwiftPutAdvise(t)
    <3>1. UNCHANGED <<opt, ph>>
      BY <2>1 DEF SwiftPutOpen, SwiftPutClose, SwiftPutAdvise
    <3> QED
      BY <1>1, <3>1, Untracked
  <2>2. CASE ~(SwiftPutOpen(t) \/ SwiftPutClose(t) \/ SwiftPutAdvise(t))
    <3>1. OpEnds(t) \/ UNCHANGED smallfileVars
      BY <2>2, OperationEnds DEF Operation, SmallfileInv
    <3>2. UNCHANGED <<opt, ph>>
      BY <3>1 DEF OpEnds, smallfileVars
    <3> QED
      BY <1>1, <3>2, Untracked
  <2> QED
    BY <2>1, <2>2
<1>2. CASE Tracked
  <2>1. Op # "swift-put"
    BY <1>2, Covered DEF SmallfileInv
  <2>2. pc[t] \notin {"close", "advise"}
    BY <2>1, ThreadFacts DEF Placed, SmallfileInv
  <2>3. ~(SwiftPutOpen(t) \/ SwiftPutClose(t) \/ SwiftPutAdvise(t))
    BY <2>1, <2>2 DEF SwiftPutOpen, SwiftPutClose, SwiftPutAdvise, At
  <2>4. pc[t] = "op"
    BY <2>3, OperationEnds DEF Operation, SmallfileInv
  <2> QED
    BY <1>2, <2>3, <2>4, MakeTracks, UseTracks, SimpleTracks, ReaddirTracks DEF Operation
<1> QED
  BY <1>1, <1>2

\* the next phase finds what the last one has left
LEMMA PhaseTracks ==
  ASSUME SmallfileInv, EndPhase
  PROVE  Tracks'
<1>1. /\ ~RunOver /\ opt' = opt /\ ph' = ph + 1 /\ dirs' = dirs /\ names' = names
      /\ attrs' = attrs /\ \A t \in Tids : pc[t] = "done"
  BY DEF EndPhase, PhaseOver, system
<1>2. AllFresh'
  BY PhaseControl DEF SmallfileInv
<1>3. CASE ~Tracked'
  BY <1>3 DEF Tracks, FilesTracked, DirsTracked, AttrsTracked
<1>4. CASE Tracked'
  <2>1. ph \in Nat /\ ph >= 1
    BY <1>1, OpFacts, PlanFacts DEF SmallfileInv, Control, TypeOK
  <2>2. Tracked
    BY <1>1, <1>4, <2>1 DEF Tracked, Alone
  <2>3. \A t \in Tids : FilesTracked(t) /\ DirsTracked(t) /\ AttrsTracked(t)
    BY DEF SmallfileInv, Tracks
  <2>4. /\ LastUse' = LastUse
        /\ \A t : LeavesDirsTo0(t)' = LeavesDirsTo0(t) /\ Subdirs(t)' = Subdirs(t)
        /\ \A p, t, n : Made(p, t, n)' = Made(p, t, n) /\ NamesOf(t, n)' = NamesOf(t, n)
    BY <1>1 DEF LastUse, LeavesDirsTo0, Subdirs, Made, NamesOf
  <2>5. \A t \in Tids : status[t] = "ok" /\ processed[t] = Iterations
    BY <1>1, <2>2, <2>3, AllProcessed DEF FilesTracked, SmallfileInv
  <2>6. ph = 2 => \A t \in Tids : Subdirs(t) \subseteq dirs
    <3> SUFFICES ASSUME ph = 2, NEW t \in Tids
                 PROVE  Subdirs(t) \subseteq dirs
      OBVIOUS
    <3>1. arrived = Tids
      BY <1>1, <2>5 DEF SmallfileInv, Control, Gathered
    <3>2. \A u \in Tids : ~LeavesDirsTo0(u) => Subdirs(u) \subseteq dirs
      BY <2>2, <2>3, <3>1 DEF DirsTracked
    <3> QED
      BY <3>2, SharedDirs
  <2> SUFFICES ASSUME NEW t \in Tids
               PROVE  FilesTracked(t)' /\ DirsTracked(t)' /\ AttrsTracked(t)'
    BY DEF Tracks
  <2>7. /\ pc'[t] = "pre" /\ processed'[t] = 0 /\ status'[t] = "ok" /\ arrived' = {}
    BY <1>2 DEF AllFresh, EndPhase, FreshThreads
  <2>8. FilesTracked(t)'
    <3>1. ASSUME NEW n \in FileNums
          PROVE  /\ ~(n <= processed'[t])
                 /\ NamesOf(t, n)' = Made(ph - 1, t, n)'
      <4>1. n \in Nat /\ n >= 1 /\ n <= processed[t]
        BY <2>5, TidFacts
      <4>2. NamesOf(t, n) = Made(ph, t, n)
        BY <2>2, <2>3, <4>1 DEF FilesTracked
      <4>3. ph' - 1 = ph
        BY <1>1, <2>1
      <4>4. Made(ph - 1, t, n)' = Made(ph, t, n)
        BY <1>1, <4>3 DEF Made
      <4> QED
        BY <2>4, <2>7, <4>1, <4>2, <4>4
    <3> QED
      BY <2>7, <3>1 DEF FilesTracked
  <2>9. DirsTracked(t)'
    <3>1. ph' \in 3..LastUse => ph = 2 \/ ph \in 3..LastUse
      BY <1>1, <2>1 DEF LastUse
    <3>2. ph' = 8 => ph = 7
      BY <1>1, <2>1
    <3> QED
      BY <1>1, <2>2, <2>3, <2>4, <2>6, <2>7, <3>1, <3>2 DEF DirsTracked
  <2>10. AttrsTracked(t)'
    <3>1. ASSUME ~opt.suite, NEW n \in FileNums
          PROVE  /\ ph' \in 3..14 => <<SrcName(t, n), "ctime">> \in attrs
                 /\ ph' \in 7..14 => <<SrcName(t, n), "user">> \in attrs
                 /\ ~(n <= processed'[t])
      <4>1. n \in Nat /\ n >= 1 /\ n <= processed[t]
        BY <2>5, TidFacts
      <4>2. /\ ph' \in 3..14 => ph \in 3..14 \/ ph = 2
            /\ ph' \in 7..14 => ph \in 7..14 \/ ph = 6
        BY <1>1, <2>1
      <4> QED
        BY <2>2, <2>3, <2>7, <3>1, <4>1, <4>2 DEF AttrsTracked
    <3> QED
      BY <1>1, <3>1 DEF AttrsTracked, SrcName
  <2> QED
    BY <2>8, <2>9, <2>10
<1> QED
  BY <1>3, <1>4

LEMMA InitTracks ==
  ASSUME SmallfileInit
  PROVE  Tracks
<1>1. ph = 1 /\ \A t \in Tids : status[t] = "ok" /\ processed[t] = 0 /\ pc[t] = "pre"
  BY DEF SmallfileInit
<1>2. \A n \in FileNums : ~(n <= 0)
  BY TidFacts
<1> QED
  BY <1>1, <1>2 DEF Tracks, FilesTracked, DirsTracked, AttrsTracked, LastUse

LEMMA TracksStep ==
  ASSUME SmallfileInv, Control', [SmallfileNext]_smallfileVars
  PROVE  Tracks'
<1>1. ASSUME UNCHANGED smallfileVars
      PROVE  Tracks'
  <2>1. UNCHANGED <<opt, ph, pc, status, left, arrived, dirs, names, attrs, processed>>
    BY <1>1 DEF smallfileVars
  <2>2. /\ Tracked' = Tracked /\ LastUse' = LastUse
        /\ \A t, n : Made(ph, t, n)' = Made(ph, t, n) /\ NamesOf(t, n)' = NamesOf(t, n)
        /\ \A t, n : Made(ph - 1, t, n)' = Made(ph - 1, t, n)
        /\ \A t : LeavesDirsTo0(t)' = LeavesDirsTo0(t) /\ Subdirs(t)' = Subdirs(t)
    BY <2>1 DEF Tracked, Alone, LastUse, Made, NamesOf, LeavesDirsTo0, Subdirs
  <2> SUFFICES ASSUME NEW t \in Tids
               PROVE  FilesTracked(t)' /\ DirsTracked(t)' /\ AttrsTracked(t)'
    BY DEF Tracks
  <2>3. FilesTracked(t) /\ DirsTracked(t) /\ AttrsTracked(t)
    BY DEF SmallfileInv, Tracks
  <2>4. FilesTracked(t)'
    BY <2>1, <2>2, <2>3 DEF FilesTracked
  <2>5. DirsTracked(t)'
    BY <2>1, <2>2, <2>3 DEF DirsTracked
  <2>6. AttrsTracked(t)'
    BY <2>1, <2>2, <2>3 DEF AttrsTracked, SrcName
  <2> QED
    BY <2>4, <2>5, <2>6
<1>2. ASSUME NEW t \in Tids, ThreadStep(t)
      PROVE  Tracks'
  BY <1>2, SetupTracks, LoopTracks, OperationTracks, CleanTracks DEF ThreadStep
<1>3. ASSUME AbortRun
      PROVE  Tracks'
  <2>1. ~Tracked'
    BY <1>3 DEF AbortRun, Tracked, Alone
  <2> QED
    BY <2>1 DEF Tracks, FilesTracked, DirsTracked, AttrsTracked
<1> QED
  BY <1>1, <1>2, <1>3, PhaseTracks DEF SmallfileNext, Hung, SmallfileFinished

-----------------------------------------------------------------------------
(* The theorems. *)

\* SmallfileInv is inductive.  It describes the loops of run_phase and the
\* directories, names and attributes that every phase finds and leaves.
THEOREM SmallfileInvariance == SmallfileSpec => []SmallfileInv
<1>1. SmallfileInit => SmallfileInv
  BY InitControl, InitTracks DEF SmallfileInv
<1>2. SmallfileInv /\ [SmallfileNext]_smallfileVars => SmallfileInv'
  <2> SUFFICES ASSUME SmallfileInv, [SmallfileNext]_smallfileVars
               PROVE  SmallfileInv'
    OBVIOUS
  <2>1. Control'
    BY ControlStep DEF SmallfileInv
  <2> QED
    BY <2>1, TracksStep DEF SmallfileInv
<1> QED
  BY <1>1, <1>2, PTL DEF SmallfileSpec

\* Every variable of run, run_phase and Workload keeps its type.
THEOREM SmallfileTypes == SmallfileSpec => []TypeOK
<1>1. SmallfileInv => TypeOK
  BY DEF SmallfileInv, Control
<1> QED
  BY <1>1, SmallfileInvariance, PTL

\* The figures of a thread of run_phase are those of its files, and a
\* measurement is cut short only by a thread that has gone through all of its own.
THEOREM CutShortByFinisher == SmallfileSpec => []CutByFinisher
<1>1. SmallfileInv => CutByFinisher
  <2> SUFFICES ASSUME Control, NEW t \in Tids, ~RunOver, pc[t] = "done",
                      status[t] = "ok", Op # "swift-put"
               PROVE  /\ FinishAll \/ files[t] = processed[t]
                      /\ files[t] <= processed[t]
                      /\ FinishAll \/ ~Stonewall => processed[t] = Iterations
                      /\ files[t] < Iterations =>
                           \E u \in Tids : u # t /\ ended[u] /\ filenum[u] = Iterations
    BY DEF CutByFinisher, FilesReported, SmallfileInv
  <2>1. /\ processed[t] = filenum[t] /\ ended[t]
        /\ filenum[t] = Iterations \/ (~FinishAll /\ Stonewall)
    BY ThreadFacts DEF Placed
  <2>2. /\ files[t] <= filenum[t] /\ (FinishAll \/ files[t] = filenum[t])
        /\ files[t] < Iterations => flag
    BY <2>1, ThreadFacts DEF Figured
  <2>3. ASSUME files[t] < Iterations
        PROVE  \E u \in Tids : u # t /\ ended[u] /\ filenum[u] = Iterations
    <3>1. PICK u \in Tids : ended[u] /\ files[u] = Iterations /\ filenum[u] = Iterations
      BY <2>2, <2>3 DEF Control, Raised
    <3>2. u # t
      BY <2>3, <3>1, ThreadFacts, TidFacts
    <3> QED
      BY <3>1, <3>2
  <2> QED
    BY <2>1, <2>2, <2>3
<1> QED
  BY <1>1, SmallfileInvariance, PTL

\* Without faults every phase of the default suite succeeds, in every
\* interleaving of the threads and whatever an earlier run has left, and its last
\* cleanup leaves no name and, with private directories, no directory; and the
\* other operations of do_op succeed on the files that the ones before have left.
THEOREM EveryOperationPasses == SmallfileSpec => []OperationsPass
<1>1. SmallfileInv => OperationsPass
  <2> SUFFICES ASSUME SmallfileInv
               PROVE  OperationsPass
    OBVIOUS
  <2>1. \A t \in Tids : FilesTracked(t) /\ DirsTracked(t)
    BY DEF SmallfileInv, Tracks
  <2>2. ASSUME opt.suite, opt.faults = "none"
        PROVE  /\ \A t \in Tids : status[t] = "ok"
               /\ RunOver =>
                    /\ names = {}
                    /\ ~opt.shared => \A t \in Tids : dirs \cap Subdirs(t) = {}
    <3>1. Tracked
      BY <2>2 DEF Tracked
    <3>0. RunOver => ph = 8
      <4>1. ph \in 1..Len(opt.plan) + 1 /\ opt \in Options
        BY DEF SmallfileInv, Control, TypeOK
      <4>2. Len(opt.plan) = 7
        BY <2>2, <4>1, PlanFacts
      <4> QED
        BY <4>1, <4>2 DEF RunOver
    <3>2. ASSUME RunOver
          PROVE  names = {}
      <4>1. ph = 8
        BY <2>2, <3>0, <3>2
      <4>2. ASSUME NEW x \in names
            PROVE  FALSE
        <5>1. x[2] \in Tids /\ x[3] \in FileNums
          BY DEF SmallfileInv, Control, TypeOK, Names
        <5>2. x \in NamesOf(x[2], x[3])
          BY DEF NamesOf
        <5>3. Made(7, x[2], x[3]) = {} /\ Made(8, x[2], x[3]) = {}
          BY <2>2 DEF Made
        <5>4. x[3] <= processed[x[2]] \/ x[3] > processed[x[2]]
          <6>1. x[3] \in Nat /\ processed[x[2]] \in Nat
            BY <5>1, TidFacts, ThreadFacts DEF SmallfileInv
          <6> QED
            BY <6>1
        <5> QED
          BY <2>1, <3>1, <4>1, <5>1, <5>2, <5>3, <5>4 DEF FilesTracked
      <4> QED
        BY <4>2
    <3>3. ASSUME RunOver, ~opt.shared, NEW t \in Tids
          PROVE  dirs \cap Subdirs(t) = {}
      <4>1. ph = 8
        BY <2>2, <3>0, <3>3
      <4> QED
        BY <2>1, <2>2, <3>1, <3>3, <4>1 DEF DirsTracked
    <3> QED
      BY <2>1, <3>1, <3>2, <3>3 DEF FilesTracked
  <2>3. ASSUME ~RunOver, Alone, Op # "swift-put", NEW t \in Tids
        PROVE  status[t] = "ok"
    <3>1. ph \in 1..16 /\ opt.plan[16] = "swift-put"
      BY <2>3, OpFacts, PlanFacts DEF SmallfileInv, Control, TypeOK
    <3>2. Tracked
      BY <2>3, <3>1 DEF Tracked, Op
    <3> QED
      BY <2>1, <3>2 DEF FilesTracked
  <2> QED
    BY <2>2, <2>3 DEF OperationsPass, SuitePasses
<1> QED
  BY <1>1, SmallfileInvariance, PTL
=============================================================================
