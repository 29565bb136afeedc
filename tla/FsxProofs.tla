----------------------------- MODULE FsxProofs ------------------------------
(***************************************************************************)
(* Proofs about fsx, for every page size, every set of command lines and   *)
(* every sequence of operations.  An operation is a function from images   *)
(* (the shadow and the file) to images; what the helpers do to an image is *)
(* stated once, and the operations are put together from these facts.      *)
(***************************************************************************)
EXTENDS Fsx, Integers, TLAPS

Verdicts == {"none", "data", "size", "call", "panic"}

\* the command line and the number of calls, which no image holds
Setting == a \in OptionType /\ calls \in Nat

\* an image: the record of Now with values of the right types
Image(st) ==
  /\ st = [good |-> st.good, size |-> st.size, disk |-> st.disk, len |-> st.len,
           verdict |-> st.verdict]
  /\ st.good \in [0..Buf-1 -> Nat]
  /\ st.size \in Nat /\ st.len \in Nat
  /\ st.disk \in [0..Up(st.len)-1 -> Nat]
  /\ st.verdict \in Verdicts

-----------------------------------------------------------------------------
(* Numbers. *)

LEMMA DownFacts ==
  ASSUME NEW x \in Nat, NEW b \in Nat
  PROVE  Down(x, b) \in Nat /\ Down(x, b) <= x
<1> DEFINE c == IF b = 0 THEN 1 ELSE b
<1>1. c \in Nat /\ c > 0
  OBVIOUS
<1>2. x % c \in Nat /\ x % c <= x
  <2> HIDE DEF c
  <2> QED
    BY <1>1
<1> QED
  BY <1>2 DEF Down

LEMMA UpFacts ==
  ASSUME NEW x \in Nat
  PROVE  Up(x) \in Nat /\ x <= Up(x)
<1>1. Page \in Nat /\ Page > 0
  BY FsxAssumption
<1> DEFINE y == x + Page - 1
<1>2. y \in Nat /\ y % Page \in 0..Page-1 /\ y % Page <= y
  BY <1>1
<1> QED
  BY <1>1, <1>2 DEF Up, Down

LEMMA OptionFacts ==
  ASSUME a \in OptionType
  PROVE  /\ a.flen \in Nat \ {0} /\ a.oplen \in Nat /\ a.numops \in Nat
         /\ a.readbdy \in Nat /\ a.writebdy \in Nat /\ a.truncbdy \in Nat
         /\ a.existing \in Nat /\ a.begin \in Nat
         /\ MaxFileLen \in Nat \ {0} /\ a.flen <= MaxFileLen
         /\ Buf \in Nat /\ MaxFileLen <= Buf
         /\ Page \in Nat \ {0} /\ Slack \in Nat
<1>1. /\ a.flen \in Nat \ {0} /\ a.oplen \in Nat /\ a.numops \in Nat
      /\ a.readbdy \in Nat /\ a.writebdy \in Nat /\ a.truncbdy \in Nat
      /\ a.existing \in Nat /\ a.begin \in Nat
  BY DEF OptionType
<1>2. MaxFileLen \in Nat \ {0} /\ a.flen <= MaxFileLen
  BY <1>1 DEF MaxFileLen
<1>3. Page \in Nat \ {0} /\ Slack \in Nat
  BY FsxAssumption
<1> QED
  BY <1>1, <1>2, <1>3 DEF Buf

LEMMA PatternType ==
  ASSUME Setting, NEW k \in Nat
  PROVE  Pattern(k) \in Nat
<1>1. a.numops \in Nat /\ calls \in Nat
  BY OptionFacts DEF Setting
<1>2. (a.numops + 1) * k \in Nat
  BY <1>1
<1> QED
  BY <1>1, <1>2 DEF Pattern

\* trim_off_len: a range ends inside its limit
LEMMA RangeFacts ==
  ASSUME Setting, NEW limit \in Nat, NEW x \in Ranges(limit)
  PROVE  x.off \in Nat /\ x.n \in Nat /\ x.off + x.n <= limit
<1>1. PICK o \in Offsets(limit), n \in Lengths :
        x = [off |-> o, n |-> TrimLen(o, n, limit)]
  BY DEF Ranges
<1>2. o \in Nat /\ o <= limit
  BY DEF Offsets
<1>3. n \in Nat
  BY OptionFacts DEF Lengths, Setting
<1>4. TrimLen(o, n, limit) \in Nat /\ o + TrimLen(o, n, limit) <= limit
  BY <1>2, <1>3 DEF TrimLen
<1> QED
  BY <1>1, <1>2, <1>4

-----------------------------------------------------------------------------
(* What the helpers do to an image. *)

LEMMA FailedFacts ==
  ASSUME NEW st, Image(st), NEW v \in Verdicts \ {"none"}
  PROVE  /\ Image(Failed(st, v))
         /\ Failed(st, v).size = st.size /\ Failed(st, v).len = st.len
         /\ Failed(st, v).good = st.good /\ Failed(st, v).disk = st.disk
         /\ Failed(st, v).verdict = IF st.verdict = "none" THEN v ELSE st.verdict
BY DEF Image, Failed

\* r is st with the cells v of S in the shadow
Shadowed(st, S, v, r) ==
  /\ Image(r)
  /\ r.size = st.size /\ r.len = st.len /\ r.disk = st.disk
  /\ r.verdict = st.verdict
  /\ \A k \in 0..Buf-1 : r.good[k] = IF k \in S THEN v[k] ELSE st.good[k]

LEMMA ShadowedFacts ==
  ASSUME NEW st, Image(st), NEW S, NEW v \in [S -> Nat], S \subseteq 0..Buf-1
  PROVE  Shadowed(st, S, v, Shadow(st, v))
<1>1. DOMAIN v = S /\ DOMAIN st.good = 0..Buf-1
  BY DEF Image
<1> DEFINE w == Over(st.good, v)
<1>2. Shadow(st, v) = [st EXCEPT !.good = w]
  BY <1>1 DEF Shadow
<1>3. /\ w \in [0..Buf-1 -> Nat]
      /\ \A k \in 0..Buf-1 : w[k] = IF k \in S THEN v[k] ELSE st.good[k]
  <2>1. st.good \in [0..Buf-1 -> Nat]
    BY DEF Image
  <2> QED
    BY <2>1 DEF Over
<1> HIDE DEF w
<1> QED
  BY <1>2, <1>3 DEF Image, Shadowed

LEMMA ShadowFacts ==
  ASSUME NEW st, Image(st), NEW S, NEW v \in [S -> Nat]
  PROVE  LET r == Shadow(st, v) IN
         /\ Image(r)
         /\ r.size = st.size /\ r.len = st.len /\ r.disk = st.disk
         /\ S \subseteq 0..Buf-1 =>
              /\ r.verdict = st.verdict
              /\ \A k \in 0..Buf-1 : r.good[k] = IF k \in S THEN v[k] ELSE st.good[k]
         /\ ~(S \subseteq 0..Buf-1) => r.verdict # "none"
<1>1. DOMAIN v = S /\ DOMAIN st.good = 0..Buf-1
  BY DEF Image
<1>2. CASE S \subseteq 0..Buf-1
  <2>1. Shadowed(st, S, v, Shadow(st, v))
    BY <1>2, ShadowedFacts
  <2> QED
    BY <1>2, <2>1 DEF Shadowed
<1>3. CASE ~(S \subseteq 0..Buf-1)
  <2>1. Shadow(st, v) = Failed(st, "panic")
    BY <1>1, <1>3 DEF Shadow
  <2> QED
    BY <1>3, <2>1, FailedFacts DEF Verdicts
<1> QED
  BY <1>2, <1>3

LEMMA ZerosType ==
  ASSUME NEW from, NEW n
  PROVE  Zeros(from, n) \in [Cells(from, n) -> Nat]
BY DEF Zeros

\* r is st with the new size off + n, and zeros between the old end and off
Updated(st, off, n, r) ==
  /\ Image(r)
  /\ r.size = off + n /\ r.len = st.len /\ r.disk = st.disk
  /\ off <= Buf \/ off <= st.size =>
       /\ r.verdict = st.verdict
       /\ \A k \in 0..Buf-1 :
            r.good[k] = IF st.size <= k /\ k < off THEN 0 ELSE st.good[k]
  /\ st.size < off /\ off > Buf => r.verdict # "none"

LEMMA UpdateFacts ==
  ASSUME Setting, NEW st, Image(st), NEW off \in Nat, NEW n \in Nat
  PROVE  Updated(st, off, n, UpdateFileSize(st, off, n))
<1> DEFINE v == Zeros(st.size, off - st.size)
           S == Cells(st.size, off - st.size)
<1>a. st.size \in Nat
  BY DEF Image
<1>0. st.size \in Nat /\ Buf \in Nat /\ off + n \in Nat
  BY <1>a, OptionFacts DEF Setting
<1>1. CASE off > st.size
  <2>1. UpdateFileSize(st, off, n) = [Shadow(st, v) EXCEPT !.size = off + n]
    BY <1>1 DEF UpdateFileSize
  <2>2. v \in [S -> Nat]
    BY ZerosType
  <2>3. \A k \in 0..Buf-1 : k \in S <=> st.size <= k /\ k < off
    BY <1>0, <1>1 DEF Cells
  <2>4. off <= Buf => S \subseteq 0..Buf-1
    BY <1>0, <1>1 DEF Cells
  <2>5. off > Buf => ~(S \subseteq 0..Buf-1)
    <3>1. off - 1 \in S
      BY <1>0, <1>1 DEF Cells
    <3> QED
      BY <1>0, <3>1
  <2>6. \A k \in S : v[k] = 0
    BY DEF Zeros
  <2> HIDE DEF v, S
  <2>7. Image(Shadow(st, v))
    BY <2>2, ShadowFacts
  <2>8. Image([Shadow(st, v) EXCEPT !.size = off + n])
    BY <1>0, <2>7, SMTT(40) DEF Image
  <2>9. LET s == Shadow(st, v)
            r == [s EXCEPT !.size = off + n]
        IN  /\ r.size = off + n /\ r.len = s.len /\ r.disk = s.disk
            /\ r.verdict = s.verdict /\ r.good = s.good
    BY <2>7 DEF Image
  <2> QED
    BY <1>0, <1>1, <2>1, <2>2, <2>3, <2>4, <2>5, <2>6, <2>8, <2>9, ShadowFacts DEF Updated
<1>2. CASE ~(off > st.size)
  <2>1. UpdateFileSize(st, off, n) = [st EXCEPT !.size = off + n]
    BY <1>2 DEF UpdateFileSize
  <2> QED
    BY <1>0, <1>2, <2>1 DEF Image, Updated
<1> QED
  BY <1>1, <1>2

LEMMA GrowFacts ==
  ASSUME Setting, NEW st, Image(st), NEW off \in Nat, NEW n \in Nat,
         off + n <= Buf
  PROVE  LET r == Grow(st, off, n) IN
         /\ Image(r)
         /\ r.size = IF off + n > st.size THEN off + n ELSE st.size
         /\ r.len = st.len /\ r.disk = st.disk /\ r.verdict = st.verdict
         /\ \A k \in 0..Buf-1 :
              r.good[k] = IF st.size <= k /\ k < off THEN 0 ELSE st.good[k]
<1>0. Buf \in Nat
  BY OptionFacts DEF Setting
<1>a. st.size \in Nat
  BY DEF Image
<1>1. CASE off + n > st.size
  <2>1. Grow(st, off, n) = UpdateFileSize(st, off, n)
    BY <1>1 DEF Grow
  <2>2. off <= Buf
    BY <1>0
  <2>3. LET r == UpdateFileSize(st, off, n) IN
         /\ Image(r)
         /\ r.size = off + n /\ r.len = st.len /\ r.disk = st.disk
         /\ r.verdict = st.verdict
         /\ \A k \in 0..Buf-1 :
              r.good[k] = IF st.size <= k /\ k < off THEN 0 ELSE st.good[k]
    <3>1. Updated(st, off, n, UpdateFileSize(st, off, n))
      BY UpdateFacts
    <3> QED
      BY <2>2, <3>1 DEF Updated
  <2> QED
    BY <1>1, <2>1, <2>3
<1>2. CASE ~(off + n > st.size)
  <2>1. Grow(st, off, n) = st
    BY <1>2 DEF Grow
  <2>2. \A k \in 0..Buf-1 : ~(st.size <= k /\ k < off)
    BY <1>0, <1>a, <1>2
  <2> QED
    BY <1>2, <2>1, <2>2
<1> QED
  BY <1>1, <1>2

LEMMA AtType ==
  ASSUME NEW D, NEW d \in [D -> Nat], NEW k
  PROVE  /\ At(d, k) \in Nat
         /\ k \in D => At(d, k) = d[k]
BY DEF At

\* the file gets another length and other cells
Resized(st, n, new) == [st EXCEPT !.len = n, !.disk = new]

LEMMA ResizedFacts ==
  ASSUME NEW st, Image(st), NEW n \in Nat, NEW new \in [0..Up(n)-1 -> Nat]
  PROVE  LET r == Resized(st, n, new) IN
         Image(r) /\ r.size = st.size /\ r.len = n /\ r.good = st.good
           /\ r.verdict = st.verdict /\ r.disk = new
<1> DEFINE s == [st EXCEPT !.len = n]
<1>1. s = [good |-> st.good, size |-> st.size, disk |-> st.disk, len |-> n,
           verdict |-> st.verdict]
  BY DEF Image
<1>a. Resized(st, n, new) = [s EXCEPT !.disk = new]
  BY DEF Resized
<1> HIDE DEF s
<1>2. Resized(st, n, new) = [good |-> st.good, size |-> st.size, disk |-> new,
                             len |-> n, verdict |-> st.verdict]
  BY <1>1, <1>a
<1>3. LET r == Resized(st, n, new) IN
      /\ r.size = st.size /\ r.len = n /\ r.good = st.good
      /\ r.verdict = st.verdict /\ r.disk = new
  BY <1>2
<1>4. Image(Resized(st, n, new))
  BY <1>2, <1>3 DEF Image
<1> QED
  BY <1>3, <1>4

\* ftruncate
LEMMA SetLenFacts ==
  ASSUME NEW st, Image(st), NEW n \in Nat
  PROVE  LET r == SetLen(st, n) IN
         /\ Image(r)
         /\ r.size = st.size /\ r.len = n /\ r.good = st.good
         /\ r.verdict = st.verdict
         /\ \A k \in 0..n-1 : k < st.len => r.disk[k] = st.disk[k]
         /\ a.fs # "leaky" => \A k \in 0..n-1 : k >= st.len => r.disk[k] = 0
<1> DEFINE new == [k \in 0..Up(n)-1 |->
                     IF a.fs = "leaky" \/ (k < st.len /\ k < n) THEN At(st.disk, k) ELSE 0]
<1>0. /\ Up(n) \in Nat /\ n <= Up(n) /\ st.len \in Nat
      /\ Up(st.len) \in Nat /\ st.len <= Up(st.len)
  BY UpFacts DEF Image
<1>1. SetLen(st, n) = Resized(st, n, new)
  BY DEF SetLen, Resized
<1>2. /\ st.disk \in [0..Up(st.len)-1 -> Nat]
      /\ \A k \in 0..n-1 : k < st.len => k \in 0..Up(st.len)-1
      /\ \A k \in 0..n-1 : k \in 0..Up(n)-1
  BY <1>0 DEF Image
<1>3. \A k : /\ At(st.disk, k) \in Nat
             /\ k \in 0..Up(st.len)-1 => At(st.disk, k) = st.disk[k]
  BY <1>2, AtType
<1>4. new \in [0..Up(n)-1 -> Nat]
  BY <1>3
<1>5. \A k \in 0..n-1 : k < st.len => new[k] = st.disk[k]
  BY <1>0, <1>2, <1>3
<1>6. a.fs # "leaky" => \A k \in 0..n-1 : k >= st.len => new[k] = 0
  BY <1>0, <1>2
<1> HIDE DEF new
<1>7. LET r == Resized(st, n, new) IN
      Image(r) /\ r.size = st.size /\ r.len = n /\ r.good = st.good
        /\ r.verdict = st.verdict /\ r.disk = new
  BY <1>4, ResizedFacts
<1> QED
  BY <1>1, <1>5, <1>6, <1>7

LEMMA ReachFacts ==
  ASSUME NEW st, Image(st), NEW n \in Nat
  PROVE  LET r == Reach(st, n) IN
         /\ Image(r)
         /\ r.size = st.size /\ r.good = st.good /\ r.verdict = st.verdict
         /\ r.len = IF n > st.len THEN n ELSE st.len
         /\ \A k \in 0..st.len-1 : r.disk[k] = st.disk[k]
         /\ a.fs # "leaky" => \A k \in 0..n-1 : k >= st.len => r.disk[k] = 0
<1>0. st.len \in Nat
  BY DEF Image
<1>1. CASE n > st.len
  <2>1. Reach(st, n) = SetLen(st, n)
    BY <1>1 DEF Reach
  <2>2. \A k \in 0..st.len-1 : k \in 0..n-1 /\ k < st.len
    BY <1>0, <1>1
  <2> DEFINE r == SetLen(st, n)
  <2>3. /\ Image(r)
        /\ r.size = st.size /\ r.len = n /\ r.good = st.good
        /\ r.verdict = st.verdict
        /\ \A k \in 0..n-1 : k < st.len => r.disk[k] = st.disk[k]
        /\ a.fs # "leaky" => \A k \in 0..n-1 : k >= st.len => r.disk[k] = 0
    BY SetLenFacts
  <2> HIDE DEF r
  <2>4. \A k \in 0..st.len-1 : r.disk[k] = st.disk[k]
    BY <2>2, <2>3, Zenon
  <2>5. Reach(st, n) = r
    BY <2>1 DEF r
  <2>6. r.len = IF n > st.len THEN n ELSE st.len
    BY <1>1, <2>3
  <2> QED
    BY <2>3, <2>4, <2>5, <2>6, Zenon
<1>2. CASE ~(n > st.len)
  <2>1. Reach(st, n) = st
    BY <1>2 DEF Reach
  <2>2. \A k \in 0..n-1 : ~(k >= st.len)
    BY <1>0, <1>2
  <2> QED
    BY <1>2, <2>1, <2>2
<1> QED
  BY <1>1, <1>2

\* pwrite, and writes through a mapping
LEMMA PutFacts ==
  ASSUME NEW st, Image(st), NEW S, NEW v \in [S -> Nat]
  PROVE  LET r == Put(st, v) IN
         /\ Image(r)
         /\ r.size = st.size /\ r.len = st.len /\ r.good = st.good
         /\ r.verdict = st.verdict
         /\ \A k \in 0..st.len-1 : r.disk[k] = IF k \in S THEN v[k] ELSE st.disk[k]
<1>0. /\ st.disk \in [0..Up(st.len)-1 -> Nat]
      /\ st.len \in Nat
  BY DEF Image
<1>1. Up(st.len) \in Nat /\ st.len <= Up(st.len)
  BY <1>0, UpFacts
<1>2. Put(st, v) = [st EXCEPT !.disk = Over(st.disk, v)]
  BY DEF Put
<1>3. /\ Over(st.disk, v) \in [0..Up(st.len)-1 -> Nat]
      /\ \A k \in 0..Up(st.len)-1 : Over(st.disk, v)[k] = IF k \in S THEN v[k] ELSE st.disk[k]
  BY <1>0 DEF Over
<1>4. \A k \in 0..st.len-1 : k \in 0..Up(st.len)-1
  BY <1>0, <1>1
<1>5. LET r == [st EXCEPT !.disk = Over(st.disk, v)] IN
      Image(r) /\ r.size = st.size /\ r.len = st.len /\ r.good = st.good
        /\ r.verdict = st.verdict /\ r.disk = Over(st.disk, v)
  BY <1>3 DEF Image
<1> QED
  BY <1>2, <1>3, <1>4, <1>5

\* r is st with the cells v of S in the file
Placed(st, S, v, r) ==
  /\ Image(r)
  /\ r.size = st.size /\ r.len = st.len /\ r.good = st.good
  /\ r.verdict = st.verdict
  /\ \A k \in 0..st.len-1 : r.disk[k] = IF k \in S THEN v[k] ELSE st.disk[k]

LEMMA PlacedFacts ==
  ASSUME NEW st, Image(st), NEW S, NEW v \in [S -> Nat]
  PROVE  Placed(st, S, v, Put(st, v))
BY PutFacts DEF Placed

\* fallocate with COLLAPSE_RANGE or INSERT_RANGE
LEMMA RemapFacts ==
  ASSUME NEW st, Image(st), NEW n \in Nat, NEW D, NEW v \in [D -> Nat]
  PROVE  LET r == Remap(st, n, v) IN
         /\ Image(r)
         /\ r.size = st.size /\ r.len = n /\ r.good = st.good
         /\ r.verdict = st.verdict
         /\ \A k \in 0..n-1 : k \in D => r.disk[k] = v[k]
<1> DEFINE new == [k \in 0..Up(n)-1 |->
                     IF k < n \/ a.fs = "leaky" THEN At(v, k) ELSE 0]
<1>0. Up(n) \in Nat /\ n <= Up(n)
  BY UpFacts
<1>1. Remap(st, n, v) = Resized(st, n, new)
  BY DEF Remap, Resized
<1>2. \A k : At(v, k) \in Nat /\ (k \in D => At(v, k) = v[k])
  BY AtType
<1>3. new \in [0..Up(n)-1 -> Nat]
  BY <1>2
<1>4. \A k \in 0..n-1 : k \in D => new[k] = v[k]
  BY <1>0, <1>2
<1> HIDE DEF new
<1>5. LET r == Resized(st, n, new) IN
      Image(r) /\ r.size = st.size /\ r.len = n /\ r.good = st.good
        /\ r.verdict = st.verdict /\ r.disk = new
  BY <1>3, ResizedFacts
<1> QED
  BY <1>1, <1>4, <1>5

\* r comes of comparing n cells of st: it fails only if the cells differ, or are
\* not there
Compared(st, from, n, r) ==
  /\ Image(r)
  /\ r.size = st.size /\ r.len = st.len /\ r.good = st.good
  /\ r.disk = st.disk
  /\ st.verdict # "none" => r.verdict = st.verdict
  /\ from + n <= st.len /\ from + n <= Buf =>
       /\ r.verdict # "panic" \/ st.verdict = "panic"
       /\ (\A k \in from..from+n-1 : st.disk[k] = st.good[k]) =>
            r.verdict = st.verdict

\* pread and the comparison, also through a mapping
LEMMA CompareFacts ==
  ASSUME Setting, NEW st, Image(st), NEW from \in Nat, NEW n \in Nat
  PROVE  /\ Compared(st, from, n, Compare(st, from, n))
         /\ Compared(st, from, n, CompareMapped(st, from, n))
<1> SUFFICES ASSUME NEW r \in {Compare(st, from, n), CompareMapped(st, from, n)}
             PROVE  Compared(st, from, n, r)
  OBVIOUS
<1>0. st.len \in Nat
  BY DEF Image
<1>1. Up(st.len) \in Nat /\ st.len <= Up(st.len)
  BY <1>0, UpFacts
<1>2. r \in {st, Failed(st, "data"), Failed(st, "panic")}
  BY DEF Compare, CompareMapped
<1>3. /\ Image(r)
      /\ r.size = st.size /\ r.len = st.len /\ r.good = st.good
      /\ r.disk = st.disk
      /\ st.verdict # "none" => r.verdict = st.verdict
  BY <1>2, FailedFacts, SMTT(40) DEF Verdicts
<1>4. ASSUME from + n <= st.len, from + n <= Buf
      PROVE  /\ r.verdict # "panic" \/ st.verdict = "panic"
             /\ (\A k \in from..from+n-1 : st.disk[k] = st.good[k]) =>
                  r.verdict = st.verdict
  <2>1. ~(from + n > st.len) /\ ~(from + n > Up(st.len)) /\ ~(from + n > Buf)
    <3>1. Buf \in Nat
      BY OptionFacts DEF Setting
    <3> QED
      BY <1>0, <1>1, <1>4, <3>1
  <2>2. /\ r \in {st, Failed(st, "data")}
        /\ (\A k \in from..from+n-1 : st.disk[k] = st.good[k]) => r = st
    BY <2>1 DEF Compare, CompareMapped
  <2> QED
    BY <2>2, FailedFacts DEF Verdicts
<1> QED
  BY <1>3, <1>4 DEF Compared

\* a comparison that passes has compared every cell
LEMMA ComparePasses ==
  ASSUME NEW st, NEW from, NEW n, st.verdict = "none",
         Image(st), Compare(st, from, n).verdict = "none"
  PROVE  \A k \in from..from+n-1 : st.disk[k] = st.good[k]
<1>1. \A v \in Verdicts \ {"none"} : Failed(st, v).verdict # "none"
  BY FailedFacts
<1> QED
  BY <1>1 DEF Compare, Verdicts

\* pollute_eofpage writes behind the end only
LEMMA PolluteFacts ==
  ASSUME Setting, NEW st, Image(st)
  PROVE  LET r == PolluteEofPage(st) IN
         /\ Image(r)
         /\ r.size = st.size /\ r.len = st.len /\ r.good = st.good
         /\ st.verdict # "none" => r.verdict = st.verdict
         /\ st.size = st.len => r.verdict = st.verdict
         /\ \A k \in 0..st.len-1 : k < st.size => r.disk[k] = st.disk[k]
<1> DEFINE n == Lesser(Page - (st.size % Page), Monus(MaxFileLen, st.size))
           junk == [k \in Cells(st.size, n) |-> Pattern(k % Page)]
<1>0. st.size \in Nat /\ st.len \in Nat
  BY DEF Image
<1>a. Page \in Nat \ {0} /\ MaxFileLen \in Nat
  BY OptionFacts DEF Setting
<1>1. n \in Nat
  <2>1. st.size % Page \in 0..Page-1
    BY <1>0, <1>a
  <2> QED
    BY <1>0, <1>a, <2>1 DEF Lesser, Monus
<1>2. Up(st.len) \in Nat /\ st.len <= Up(st.len)
  BY <1>0, UpFacts
<1>3. \A k \in Cells(st.size, n) : Pattern(k % Page) \in Nat
  <2>1. \A k \in Cells(st.size, n) : k \in Nat
    BY <1>0, <1>1 DEF Cells
  <2>2. \A k \in Nat : k % Page \in Nat
    BY <1>a
  <2> QED
    BY <2>1, <2>2, PatternType
<1>4. junk \in [Cells(st.size, n) -> Nat]
  BY <1>3
<1>5. \A k \in 0..st.len-1 : k < st.size => k \notin Cells(st.size, n)
  BY <1>0, <1>1 DEF Cells
<1>6. PolluteEofPage(st) \in {st, Failed(st, "panic"), Put(st, junk)}
      /\ (st.size = st.len => PolluteEofPage(st) # Failed(st, "panic") \/ PolluteEofPage(st) \in {st, Put(st, junk)})
  <2>1. st.size = st.len => ~(st.size > Up(st.len))
    BY <1>0, <1>2
  <2> QED
    BY <2>1 DEF PolluteEofPage
<1> HIDE DEF junk, n
<1>7. /\ Image(Failed(st, "panic")) /\ Image(Put(st, junk))
      /\ Put(st, junk).verdict = st.verdict
      /\ Put(st, junk).size = st.size /\ Put(st, junk).len = st.len
      /\ Put(st, junk).good = st.good
      /\ \A k \in 0..st.len-1 : k < st.size => Put(st, junk).disk[k] = st.disk[k]
  BY <1>4, <1>5, FailedFacts, PutFacts DEF Verdicts
<1> QED
  BY <1>6, <1>7, FailedFacts DEF Verdicts

-----------------------------------------------------------------------------
(* What an operation promises of the image it leaves. *)

Level(st) == st.size = st.len /\ st.size <= Buf
Agree(st) == \A k \in 0..st.size-1 : st.disk[k] = st.good[k]
Faithful(st) == Fine(st) => Level(st) /\ (a.fs = "healthy" => Agree(st))

\* FALLOC_FL_UNSHARE_RANGE is not met with a refusal
Shares == a.unshare \/ "fallocate" \in Disabled

Quiet(st) ==
  Tame => /\ st.verdict # "panic"
          /\ a.fs = "healthy" /\ Shares => Fine(st)

\* before an operation
Ready == Plain /\ Fine(Now) /\ Faithful(Now)

\* after it
Sound(st) == Image(st) /\ (Ready => Faithful(st) /\ Quiet(st))

LEMMA NowFields ==
  /\ Now.good = good /\ Now.size = size /\ Now.disk = disk /\ Now.len = len
  /\ Now.verdict = verdict
BY DEF Now

LEMMA ReadyFacts ==
  ASSUME Ready
  PROVE  /\ verdict = "none" /\ size = len /\ size <= Buf
         /\ a.fs = "healthy" => \A k \in 0..size-1 : disk[k] = good[k]
BY NowFields DEF Ready, Fine, Faithful, Level, Agree

LEMMA NowSound ==
  ASSUME Image(Now)
  PROVE  Sound(Now)
BY DEF Sound, Ready, Quiet, Fine

LEMMA NowTypes ==
  ASSUME Setting, Image(Now)
  PROVE  /\ size \in Nat /\ len \in Nat /\ Buf \in Nat /\ MaxFileLen \in Nat
         /\ MaxFileLen <= Buf
         /\ good \in [0..Buf-1 -> Nat] /\ disk \in [0..Up(len)-1 -> Nat]
         /\ Up(len) \in Nat /\ len <= Up(len)
<1>1. size \in Nat /\ len \in Nat
  BY NowFields DEF Image
<1>2. good \in [0..Buf-1 -> Nat] /\ disk \in [0..Up(len)-1 -> Nat]
  BY NowFields DEF Image
<1>3. Buf \in Nat /\ MaxFileLen \in Nat /\ MaxFileLen <= Buf
  BY OptionFacts DEF Setting
<1> QED
  BY <1>1, <1>2, <1>3, UpFacts

LEMMA ReadSound ==
  ASSUME Setting, Image(Now), NEW x \in Ranges(size)
  PROVE  Sound(Read(x)) /\ Sound(MapRead(x))
<1> DEFINE off == Down(x.off, a.readbdy)
<1>1. size \in Nat /\ len \in Nat /\ Buf \in Nat
  BY NowTypes
<1>2. x.off \in Nat /\ x.n \in Nat
  BY <1>1, RangeFacts
<1>3. off \in Nat
  BY <1>2, DownFacts, OptionFacts DEF Setting
<1> HIDE DEF off
<1>4. ASSUME off + x.n <= size, NEW r \in {Compare(Now, off, x.n), CompareMapped(Now, off, x.n)}
      PROVE  Sound(r)
  <2>a. Compared(Now, off, x.n, r)
    BY <1>2, <1>3, <1>4, CompareFacts
  <2>0. /\ Image(r)
        /\ r.size = Now.size /\ r.len = Now.len /\ r.good = Now.good
        /\ r.disk = Now.disk
        /\ off + x.n <= Now.len /\ off + x.n <= Buf =>
             /\ r.verdict # "panic" \/ Now.verdict = "panic"
             /\ (\A k \in off..off+x.n-1 : Now.disk[k] = Now.good[k]) =>
                  r.verdict = Now.verdict
    BY <2>a DEF Compared
  <2>1. /\ Image(r)
        /\ r.size = size /\ r.len = len /\ r.good = good /\ r.disk = disk
    BY <2>0, NowFields
  <2>2. ASSUME Ready PROVE Faithful(r) /\ Quiet(r)
    <3>1. /\ verdict = "none" /\ size = len /\ size <= Buf
          /\ a.fs = "healthy" => \A k \in 0..size-1 : disk[k] = good[k]
      BY <2>2, ReadyFacts
    <3>2. off + x.n <= len /\ off + x.n <= Buf
      BY <1>1, <1>2, <1>3, <1>4, <3>1
    <3>3. /\ r.verdict # "panic"
          /\ (\A k \in off..off+x.n-1 : disk[k] = good[k]) => r.verdict = "none"
      BY <2>0, <3>1, <3>2, NowFields
    <3>4. \A k \in off..off+x.n-1 : k \in 0..size-1
      BY <1>1, <1>2, <1>3, <1>4
    <3>5. a.fs = "healthy" => r.verdict = "none"
      BY <3>1, <3>3, <3>4
    <3> QED
      BY <2>1, <3>1, <3>3, <3>5 DEF Faithful, Quiet, Fine, Level, Agree
  <2> QED
    BY <2>1, <2>2 DEF Sound
<1>5. \/ Read(x) = Now
      \/ off + x.n <= size /\ Read(x) = Compare(Now, off, x.n)
  BY <1>1, <1>2, <1>3 DEF Read, off
<1>6. \/ MapRead(x) = Now
      \/ off + x.n <= size /\ MapRead(x) = CompareMapped(Now, off, x.n)
  BY <1>1, <1>2, <1>3 DEF MapRead, off
<1> QED
  BY <1>4, <1>5, <1>6, NowSound

\* the shadow of a write
LEMMA WrittenFacts ==
  ASSUME Setting, Image(Now), NEW off \in Nat, NEW n \in Nat, off + n <= Buf
  PROVE  LET g == Written(off, n) IN
         /\ Image(g)
         /\ g.size = IF off + n > size THEN off + n ELSE size
         /\ g.len = len /\ g.disk = disk /\ g.verdict = verdict
         /\ \A k \in 0..Buf-1 : k < off =>
              g.good[k] = IF size <= k THEN 0 ELSE good[k]
         /\ \A k \in 0..Buf-1 : k >= off + n => g.good[k] = good[k]
<1> DEFINE S == Cells(off, n)
           v == [k \in S |-> Pattern(k)]
           s == Shadow(Now, v)
<1>1. size \in Nat /\ Buf \in Nat
  BY NowTypes
<1>2. \A k \in S : k \in Nat /\ k \in 0..Buf-1
  BY <1>1 DEF Cells
<1>3. v \in [S -> Nat]
  BY <1>2, PatternType
<1>4. \A k \in 0..Buf-1 : k < off \/ k >= off + n => k \notin S
  BY <1>1 DEF Cells
<1>5. Written(off, n) = Grow(s, off, n)
  BY DEF Written
<1> HIDE DEF S, v
<1>6. /\ Image(s) /\ s.size = size /\ s.len = len /\ s.disk = disk
      /\ s.verdict = verdict
      /\ \A k \in 0..Buf-1 : s.good[k] = IF k \in S THEN v[k] ELSE good[k]
  BY <1>2, <1>3, ShadowFacts, NowFields
<1> HIDE DEF s
<1>7. LET g == Grow(s, off, n) IN
      /\ Image(g)
      /\ g.size = IF off + n > s.size THEN off + n ELSE s.size
      /\ g.len = s.len /\ g.disk = s.disk /\ g.verdict = s.verdict
      /\ \A k \in 0..Buf-1 :
           g.good[k] = IF s.size <= k /\ k < off THEN 0 ELSE s.good[k]
  BY <1>6, GrowFacts
<1>8. \A k \in 0..Buf-1 : k >= off + n => ~(k < off)
  BY <1>1
<1> QED
  BY <1>4, <1>5, <1>6, <1>7, <1>8

\* the cells of a write reach the file after they reached the shadow
LEMMA WriteEffect ==
  ASSUME Setting, Image(Now), NEW off \in Nat, NEW n \in Nat, off + n <= Buf
  PROVE  LET g == Written(off, n)
             data == [k \in Cells(off, n) |-> g.good[k]]
         IN  /\ Image(g) /\ g.verdict = verdict
             /\ data \in [Cells(off, n) -> Nat]
             /\ Sound(Put(Reach(g, off + n), data))
<1> DEFINE g == Written(off, n)
           S == Cells(off, n)
           data == [k \in S |-> g.good[k]]
           e == Reach(g, off + n)
           r == Put(e, data)
<1>1. size \in Nat /\ len \in Nat /\ Buf \in Nat
  BY NowTypes
<1>2. /\ Image(g)
      /\ g.size = IF off + n > size THEN off + n ELSE size
      /\ g.len = len /\ g.disk = disk /\ g.verdict = verdict
      /\ \A k \in 0..Buf-1 : k < off => g.good[k] = IF size <= k THEN 0 ELSE good[k]
      /\ \A k \in 0..Buf-1 : k >= off + n => g.good[k] = good[k]
  BY WrittenFacts
<1> HIDE DEF g
<1>3. \A k \in S : k \in 0..Buf-1
  BY <1>1 DEF Cells
<1>4. g.good \in [0..Buf-1 -> Nat]
  BY <1>2 DEF Image
<1>5. data \in [S -> Nat] /\ \A k \in S : data[k] = g.good[k]
  BY <1>3, <1>4
<1>6. \A k \in Int : k \in S <=> off <= k /\ k < off + n
  BY DEF Cells
<1> HIDE DEF data, S
<1>a. off + n \in Nat
  OBVIOUS
<1>7. /\ Image(e)
      /\ e.size = g.size /\ e.good = g.good /\ e.verdict = g.verdict
      /\ e.len = IF off + n > g.len THEN off + n ELSE g.len
      /\ \A k \in 0..g.len-1 : e.disk[k] = g.disk[k]
      /\ a.fs # "leaky" => \A k \in 0..off+n-1 : k >= g.len => e.disk[k] = 0
  <2> DEFINE m == off + n
  <2> HIDE DEF m
  <2>1. m \in Nat
    BY <1>a DEF m
  <2>2. LET q == Reach(g, m) IN
        /\ Image(q)
        /\ q.size = g.size /\ q.good = g.good /\ q.verdict = g.verdict
        /\ q.len = IF m > g.len THEN m ELSE g.len
        /\ \A k \in 0..g.len-1 : q.disk[k] = g.disk[k]
        /\ a.fs # "leaky" => \A k \in 0..m-1 : k >= g.len => q.disk[k] = 0
    BY <1>2, <2>1, ReachFacts, SMTT(40)
  <2> QED
    BY <2>2 DEF m
<1> HIDE DEF e
<1>8. /\ Image(r)
      /\ r.size = e.size /\ r.len = e.len /\ r.good = e.good
      /\ r.verdict = e.verdict
      /\ \A k \in 0..e.len-1 : r.disk[k] = IF k \in S THEN data[k] ELSE e.disk[k]
  BY <1>5, <1>7, PutFacts
<1> HIDE DEF r
<1>9. ASSUME Ready PROVE Faithful(r) /\ Quiet(r)
  <2>1. /\ verdict = "none" /\ size = len /\ size <= Buf
        /\ a.fs = "healthy" => \A k \in 0..size-1 : disk[k] = good[k]
    BY <1>9, ReadyFacts
  <2>2. r.verdict = "none"
    BY <1>2, <1>7, <1>8, <2>1
  <2>3. r.size = r.len /\ r.size <= Buf
    BY <1>1, <1>2, <1>7, <1>8, <2>1
  <2>4. ASSUME a.fs = "healthy", NEW k \in 0..r.size-1
        PROVE  r.disk[k] = r.good[k]
    <3>1. k \in 0..e.len-1 /\ k \in 0..Buf-1 /\ k \in Int
      BY <1>1, <1>8, <2>3, <1>2, <1>7
    <3>2. CASE k \in S
      BY <1>5, <1>7, <1>8, <3>1, <3>2
    <3>3. CASE k \notin S /\ k < size
      <4>1. e.disk[k] = disk[k] /\ disk[k] = good[k]
        BY <1>1, <1>2, <1>7, <2>1, <2>4, <3>3
      <4>2. g.good[k] = good[k]
        BY <1>1, <1>2, <1>6, <3>1, <3>3
      <4> QED
        BY <1>7, <1>8, <3>1, <3>3, <4>1, <4>2
    <3>4. CASE k \notin S /\ ~(k < size)
      <4>1. k < off
        BY <1>1, <1>2, <1>6, <1>7, <1>8, <3>1, <3>4
      <4>2. g.good[k] = 0
        BY <1>1, <1>2, <3>1, <3>4, <4>1
      <4>3. e.disk[k] = 0
        BY <1>1, <1>2, <1>7, <2>1, <2>4, <3>1, <3>4, <4>1
      <4> QED
        BY <1>7, <1>8, <3>1, <3>4, <4>2, <4>3
    <3> QED
      BY <3>2, <3>3, <3>4
  <2> QED
    BY <2>2, <2>3, <2>4 DEF Faithful, Quiet, Fine, Level, Agree
<1>10. Sound(r)
  BY <1>8, <1>9 DEF Sound
<1> QED
  BY <1>2, <1>5, <1>10 DEF r, e, data, S, g

LEMMA WriteSound ==
  ASSUME Setting, Image(Now), NEW x \in Ranges(MaxFileLen)
  PROVE  Sound(Write(x)) /\ Sound(MapWrite(x))
<1> DEFINE off == Down(x.off, a.writebdy)
           g == Written(off, x.n)
           e == IF g.size > size THEN SetLen(g, g.size) ELSE g
           data == [k \in Cells(off, x.n) |-> g.good[k]]
<1>1. /\ size \in Nat /\ len \in Nat /\ Buf \in Nat
      /\ MaxFileLen \in Nat /\ MaxFileLen <= Buf
  BY NowTypes
<1>2. x.off \in Nat /\ x.n \in Nat /\ x.off + x.n <= MaxFileLen
  BY <1>1, RangeFacts
<1>3. off \in Nat /\ off <= x.off
  BY <1>2, DownFacts, OptionFacts DEF Setting
<1>4. off + x.n \in Nat /\ off + x.n <= Buf
  <2> HIDE DEF off
  <2> QED
    BY <1>1, <1>2, <1>3
<1> HIDE DEF off
<1>5. /\ Image(g) /\ g.verdict = verdict
      /\ data \in [Cells(off, x.n) -> Nat]
      /\ Sound(Put(Reach(g, off + x.n), data))
  BY <1>2, <1>3, <1>4, WriteEffect
<1>6. /\ g.size = IF off + x.n > size THEN off + x.n ELSE size
      /\ g.len = len
  BY <1>2, <1>3, <1>4, WrittenFacts
<1>7. Write(x) \in {Now, g, Put(Reach(g, off + x.n), data)}
  BY DEF Write, off
<1>8. ~Fine(g) => Sound(g)
  <2>1. ~Fine(g) => ~Ready
    BY <1>5, NowFields DEF Fine, Ready
  <2> QED
    BY <1>5, <2>1 DEF Sound
<1>9. Write(x) = g /\ Fine(g) => Write(x) = Now \/ Write(x) = Put(Reach(g, off + x.n), data)
  BY DEF Write, off
<1>10. Sound(Write(x))
  BY <1>5, <1>7, <1>8, <1>9, NowSound
<1>11. Sound(MapWrite(x))
  <2> HIDE DEF g, data
  <2>1. Image(e)
    BY <1>5, <1>6, <1>1, <1>4, SetLenFacts
  <2>2. Image(Put(e, data)) /\ Image(Failed(e, "panic"))
    BY <1>5, <2>1, PutFacts, FailedFacts DEF Verdicts
  <2>3. MapWrite(x) = IF x.n = 0 THEN Now
                      ELSE IF ~Fine(g) THEN g
                      ELSE IF off + x.n > Up(e.len) THEN Failed(e, "panic")
                      ELSE Put(e, data)
    BY DEF MapWrite, off, g, data
  <2>4. ASSUME Ready
        PROVE  e = Reach(g, off + x.n) /\ ~(off + x.n > Up(e.len))
    <3>1. size = len
      BY <2>4, ReadyFacts
    <3>2. e = Reach(g, off + x.n)
      BY <1>1, <1>4, <1>6, <3>1 DEF Reach
    <3>a. e.len = IF off + x.n > g.len THEN off + x.n ELSE g.len
      BY <1>4, <1>5, <3>2, ReachFacts
    <3>3. off + x.n <= e.len /\ e.len \in Nat
      BY <1>1, <1>4, <1>6, <3>a
    <3>4. Up(e.len) \in Nat /\ e.len <= Up(e.len)
      BY <3>3, UpFacts
    <3> HIDE DEF e
    <3> QED
      BY <1>4, <3>2, <3>3, <3>4
  <2> HIDE DEF e
  <2>5. CASE Ready
    BY <1>5, <1>8, <2>3, <2>4, <2>5, NowSound
  <2>6. CASE ~Ready
    BY <1>5, <2>2, <2>3, <2>6 DEF Sound
  <2> QED
    BY <2>5, <2>6
<1> QED
  BY <1>10, <1>11

LEMMA TruncateSound ==
  ASSUME Setting, Image(Now), NEW n \in TruncateSizes
  PROVE  Sound(Truncate(n))
<1> DEFINE m == Down(n, a.truncbdy)
           st == IF m < size THEN PolluteEofPage(Now) ELSE Now
           u == UpdateFileSize(st, m, 0)
           r == SetLen(u, m)
<1>1. /\ size \in Nat /\ len \in Nat /\ Buf \in Nat
      /\ MaxFileLen \in Nat /\ MaxFileLen <= Buf
  BY NowTypes
<1>2. n \in Nat /\ (Tame => n <= MaxFileLen)
  <2>1. a.oplen \in Nat /\ a.flen \in Nat /\ a.flen <= MaxFileLen
    BY OptionFacts DEF Setting
  <2>2. n \in 0..MaxFileLen-1 \/ n \in 0..a.oplen
    BY <2>1 DEF TruncateSizes, Lengths
  <2>3. a.style = 0 => n \in 0..MaxFileLen-1
    BY DEF TruncateSizes
  <2> QED
    BY <1>1, <2>1, <2>2, <2>3 DEF Tame
<1>3. m \in Nat /\ m <= n
  BY <1>2, DownFacts, OptionFacts DEF Setting
<1>4. Truncate(n) = r
  BY DEF Truncate
<1> HIDE DEF m
<1>5. /\ Image(st)
      /\ st.size = size /\ st.len = len /\ st.good = good
      /\ size = len => st.verdict = verdict
      /\ \A k \in 0..len-1 : k < size => st.disk[k] = disk[k]
  BY PolluteFacts, NowFields
<1> HIDE DEF st
<1>6. /\ Image(u)
      /\ u.size = m /\ u.len = len /\ u.disk = st.disk
      /\ m <= Buf \/ m <= size =>
           /\ u.verdict = st.verdict
           /\ \A k \in 0..Buf-1 : u.good[k] = IF size <= k /\ k < m THEN 0 ELSE good[k]
      /\ size < m /\ m > Buf => u.verdict # "none"
  <2>1. Updated(st, m, 0, u)
    BY <1>3, <1>5, UpdateFacts
  <2> HIDE DEF u
  <2>2. m + 0 = m
    BY <1>3
  <2> QED
    BY <1>5, <2>1, <2>2 DEF Updated
<1> HIDE DEF u
<1>7. /\ Image(r)
      /\ r.size = u.size /\ r.len = m /\ r.good = u.good
      /\ r.verdict = u.verdict
      /\ \A k \in 0..m-1 : k < u.len => r.disk[k] = u.disk[k]
      /\ a.fs # "leaky" => \A k \in 0..m-1 : k >= u.len => r.disk[k] = 0
  BY <1>3, <1>6, SetLenFacts
<1> HIDE DEF r
<1>8. ASSUME Ready PROVE Faithful(r) /\ Quiet(r)
  <2>1. /\ verdict = "none" /\ size = len /\ size <= Buf
        /\ a.fs = "healthy" => \A k \in 0..size-1 : disk[k] = good[k]
    BY <1>8, ReadyFacts
  <2>2. CASE m <= Buf \/ m <= size
    <3>1. r.verdict = "none"
      BY <1>5, <1>6, <1>7, <2>1, <2>2
    <3>2. r.size = r.len /\ r.size <= Buf
      BY <1>1, <1>3, <1>6, <1>7, <2>1, <2>2
    <3>3. ASSUME a.fs = "healthy", NEW k \in 0..r.size-1
          PROVE  r.disk[k] = r.good[k]
      <4>1. k \in 0..m-1 /\ k \in 0..Buf-1
        BY <1>1, <1>3, <1>6, <1>7, <3>2
      <4>2. CASE k < size
        BY <1>1, <1>5, <1>6, <1>7, <2>1, <2>2, <3>3, <4>1, <4>2
      <4>3. CASE ~(k < size)
        BY <1>1, <1>3, <1>6, <1>7, <2>1, <2>2, <3>3, <4>1, <4>3
      <4> QED
        BY <4>2, <4>3
    <3> QED
      BY <3>1, <3>2, <3>3 DEF Faithful, Quiet, Fine, Level, Agree
  <2>3. CASE ~(m <= Buf \/ m <= size)
    <3>1. r.verdict # "none"
      BY <1>1, <1>3, <1>6, <1>7, <2>3
    <3>2. ~Tame
      BY <1>1, <1>2, <1>3, <2>3
    <3> QED
      BY <3>1, <3>2 DEF Faithful, Quiet, Fine
  <2> QED
    BY <2>2, <2>3
<1> QED
  BY <1>4, <1>7, <1>8 DEF Sound

LEMMA PreallocateSound ==
  ASSUME Setting, Image(Now), NEW x \in Ranges(MaxFileLen),
         NEW keep \in BOOLEAN, NEW unshare \in BOOLEAN
  PROVE  LET r == Preallocate(x, keep, unshare) IN
         /\ Image(r)
         /\ ~keep /\ a.begin = 0 /\ "fallocate" \notin Disabled => Sound(r)
<1> DEFINE end == x.off + x.n
           S == Cells(size, end - size)
           s == Shadow(Now, Zeros(size, end - size))
           g == IF end > size THEN UpdateFileSize(s, x.off, x.n) ELSE Now
           r == Preallocate(x, keep, unshare)
<1>1. /\ size \in Nat /\ len \in Nat /\ Buf \in Nat
      /\ MaxFileLen \in Nat /\ MaxFileLen <= Buf
  BY NowTypes
<1>2. x.off \in Nat /\ x.n \in Nat /\ end <= MaxFileLen
  BY <1>1, RangeFacts
<1>3. end \in Nat /\ end <= Buf /\ x.off <= Buf
  BY <1>1, <1>2
<1>4. r = IF x.n = 0 THEN Now
          ELSE IF calls + 1 <= a.begin THEN g
          ELSE IF unshare /\ ~a.unshare THEN Failed(g, "call")
          ELSE IF keep THEN g ELSE Reach(g, end)
  BY DEF Preallocate
<1> HIDE DEF r
<1>5. /\ Image(g)
      /\ g.size = IF end > size THEN end ELSE size
      /\ g.len = len /\ g.disk = disk /\ g.verdict = verdict
      /\ \A k \in 0..Buf-1 : g.good[k] = IF size <= k /\ k < end THEN 0 ELSE good[k]
  <2>1. CASE end > size
    <3>1. \A k \in 0..Buf-1 : k \in S <=> size <= k /\ k < end
      BY <1>1, <1>3, <2>1 DEF Cells
    <3>b. \A k \in S : k \in 0..Buf-1
      BY <1>1, <1>3, <2>1 DEF Cells
    <3>2. /\ Zeros(size, end - size) \in [S -> Nat]
          /\ \A k \in S : Zeros(size, end - size)[k] = 0
      BY DEF Zeros
    <3>3. /\ Image(s) /\ s.size = size /\ s.len = len /\ s.disk = disk
          /\ s.verdict = verdict
          /\ \A k \in 0..Buf-1 :
               s.good[k] = IF k \in S THEN Zeros(size, end - size)[k] ELSE good[k]
      <4> DEFINE v == Zeros(size, end - size)
      <4>1. v \in [S -> Nat]
        BY <3>2
      <4> HIDE DEF S, end, v
      <4>2. LET q == Shadow(Now, v) IN
            /\ Image(q) /\ q.size = Now.size /\ q.len = Now.len /\ q.disk = Now.disk
            /\ q.verdict = Now.verdict
            /\ \A k \in 0..Buf-1 : q.good[k] = IF k \in S THEN v[k] ELSE Now.good[k]
        BY <3>b, <4>1, ShadowFacts
      <4> QED
        BY <4>2, NowFields DEF v
    <3> HIDE DEF s
    <3>a. Updated(s, x.off, x.n, UpdateFileSize(s, x.off, x.n))
      BY <1>2, <3>3, UpdateFacts
    <3>4. LET q == UpdateFileSize(s, x.off, x.n) IN
          /\ Image(q)
          /\ q.size = end /\ q.len = s.len /\ q.disk = s.disk
          /\ q.verdict = s.verdict
          /\ \A k \in 0..Buf-1 :
               q.good[k] = IF s.size <= k /\ k < x.off THEN 0 ELSE s.good[k]
      BY <1>3, <3>a DEF Updated
    <3>5. \A k \in 0..Buf-1 : k < x.off => k < end
      BY <1>2
    <3> HIDE DEF end, S
    <3> QED
      BY <1>1, <1>2, <2>1, <3>1, <3>2, <3>3, <3>4, <3>5
  <2>2. CASE ~(end > size)
    <3>1. g = Now
      BY <2>2
    <3>2. \A k \in 0..Buf-1 : ~(size <= k /\ k < end)
      BY <1>1, <1>3, <2>2
    <3> QED
      BY <2>2, <3>1, <3>2, NowFields
  <2> QED
    BY <2>1, <2>2
<1> HIDE DEF g, end
<1>6. /\ Image(Failed(g, "call"))
      /\ g.verdict = "none" => Failed(g, "call").verdict = "call"
  BY <1>5, FailedFacts DEF Verdicts
<1> DEFINE e == Reach(g, end)
<1>7. /\ Image(e)
      /\ e.size = g.size /\ e.good = g.good /\ e.verdict = g.verdict
      /\ e.len = IF end > g.len THEN end ELSE g.len
      /\ \A k \in 0..g.len-1 : e.disk[k] = g.disk[k]
      /\ a.fs # "leaky" => \A k \in 0..end-1 : k >= g.len => e.disk[k] = 0
  BY <1>3, <1>5, ReachFacts
<1> HIDE DEF e
<1>8. Image(r)
  BY <1>4, <1>5, <1>6, <1>7 DEF e
<1>9. ASSUME ~keep, a.begin = 0, "fallocate" \notin Disabled
      PROVE  Sound(r)
  <2>1. r = Now \/ (r = Failed(g, "call") /\ ~a.unshare) \/ r = e
    <3>1. ~(calls + 1 <= a.begin)
      BY <1>9 DEF Setting
    <3> QED
      BY <1>4, <1>9, <3>1 DEF e
  <2>2. ASSUME Ready, r = Failed(g, "call"), ~a.unshare
        PROVE  Faithful(r) /\ Quiet(r)
    <3>1. r.verdict = "call"
      BY <1>5, <1>6, <2>2, ReadyFacts
    <3> QED
      BY <1>9, <2>2, <3>1 DEF Faithful, Quiet, Fine, Shares
  <2>3. ASSUME Ready PROVE Faithful(e) /\ Quiet(e)
    <3>1. /\ verdict = "none" /\ size = len /\ size <= Buf
          /\ a.fs = "healthy" => \A k \in 0..size-1 : disk[k] = good[k]
      BY <2>3, ReadyFacts
    <3>2. e.verdict = "none" /\ e.size = e.len /\ e.size <= Buf
      BY <1>1, <1>3, <1>5, <1>7, <3>1
    <3>3. ASSUME a.fs = "healthy", NEW k \in 0..e.size-1
          PROVE  e.disk[k] = e.good[k]
      <4>1. k \in 0..Buf-1
        BY <1>1, <1>3, <1>5, <1>7, <3>2
      <4>2. CASE k < size
        BY <1>1, <1>5, <1>7, <3>1, <3>3, <4>1, <4>2
      <4>3. CASE ~(k < size)
        BY <1>1, <1>3, <1>5, <1>7, <3>1, <3>3, <4>1, <4>3
      <4> QED
        BY <4>2, <4>3
    <3> QED
      BY <3>2, <3>3 DEF Faithful, Quiet, Fine, Level, Agree
  <2> QED
    BY <1>8, <2>1, <2>2, <2>3, NowSound DEF Sound
<1> QED
  BY <1>8, <1>9 DEF r

\* Sound, except that file and shadow may differ in the cells of S
SoundBut(st, S) ==
  /\ Image(st)
  /\ Ready =>
       /\ Fine(st) =>
            /\ Level(st)
            /\ a.fs = "healthy" =>
                 \A k \in 0..st.size-1 : k \notin S => st.disk[k] = st.good[k]
       /\ Quiet(st)

\* an operation that gives the same cells to the file and to the shadow
LEMMA BothSound ==
  ASSUME Setting, NEW S, S \subseteq 0..Buf-1, NEW g, SoundBut(g, S),
         NEW v \in [S -> Nat], NEW w \in [S -> Nat],
         Ready /\ a.fs = "healthy" => \A k \in S : v[k] = w[k]
  PROVE  Sound(Shadow(Put(g, v), w))
<1> DEFINE c == Put(g, v)
           r == Shadow(c, w)
<1>1. Image(g) /\ g.size \in Nat /\ g.len \in Nat /\ Buf \in Nat
  <2>1. Image(g)
    BY DEF SoundBut
  <2>2. g.size \in Nat /\ g.len \in Nat
    BY <2>1 DEF Image
  <2> QED
    BY <2>1, <2>2, OptionFacts DEF Setting
<1>a. Placed(g, S, v, c)
  BY <1>1, PlacedFacts
<1>2. /\ Image(c)
      /\ c.size = g.size /\ c.len = g.len /\ c.good = g.good
      /\ c.verdict = g.verdict
      /\ \A k \in 0..g.len-1 : c.disk[k] = IF k \in S THEN v[k] ELSE g.disk[k]
  BY <1>a DEF Placed
<1> HIDE DEF c
<1>b. Shadowed(c, S, w, r)
  BY <1>2, ShadowedFacts
<1>3. /\ Image(r)
      /\ r.size = c.size /\ r.len = c.len /\ r.disk = c.disk
      /\ r.verdict = c.verdict
      /\ \A k \in 0..Buf-1 : r.good[k] = IF k \in S THEN w[k] ELSE c.good[k]
  BY <1>b DEF Shadowed
<1> HIDE DEF r
<1>4. ASSUME Ready PROVE Faithful(r) /\ Quiet(r)
  <2>1. Quiet(r)
    BY <1>2, <1>3, <1>4 DEF SoundBut, Quiet, Fine
  <2>2. ASSUME Fine(r) PROVE Level(r) /\ (a.fs = "healthy" => Agree(r))
    <3>1. Fine(g) /\ Level(g)
      BY <1>2, <1>3, <1>4, <2>2 DEF SoundBut, Fine
    <3>2. Level(r)
      BY <1>2, <1>3, <3>1 DEF Level
    <3>3. ASSUME a.fs = "healthy", NEW k \in 0..r.size-1
          PROVE  r.disk[k] = r.good[k]
      <4>1. k \in 0..g.len-1 /\ k \in 0..Buf-1 /\ k \in 0..g.size-1
        BY <1>1, <1>2, <1>3, <3>1 DEF Level
      <4>2. k \notin S => g.disk[k] = g.good[k]
        BY <1>4, <3>1, <3>3, <4>1 DEF SoundBut
      <4> QED
        BY <1>2, <1>3, <1>4, <3>3, <4>1, <4>2
    <3> QED
      BY <3>2, <3>3 DEF Agree
  <2> QED
    BY <2>1, <2>2 DEF Faithful
<1> QED
  BY <1>3, <1>4 DEF Sound, r, c

LEMMA NowSoundBut ==
  ASSUME Image(Now), NEW S
  PROVE  SoundBut(Now, S)
BY NowSound DEF SoundBut, Sound, Faithful, Agree, Level

\* shadow and file are extended to hold n cells from off, before they are set
LEMMA ExtendSound ==
  ASSUME Setting, Image(Now), NEW off \in Nat, NEW n \in Nat, off + n <= Buf
  PROVE  SoundBut(Reach(Grow(Now, off, n), off + n), Cells(off, n))
<1> DEFINE end == off + n
           g == Grow(Now, off, n)
           S == Cells(off, n)
           e == Reach(g, end)
<1>1. size \in Nat /\ len \in Nat /\ Buf \in Nat /\ end \in Nat /\ end <= Buf
  BY NowTypes
<1>2. /\ Image(g)
      /\ g.size = IF end > size THEN end ELSE size
      /\ g.len = len /\ g.disk = disk /\ g.verdict = verdict
      /\ \A k \in 0..Buf-1 : g.good[k] = IF size <= k /\ k < off THEN 0 ELSE good[k]
  BY GrowFacts, NowFields
<1>3. \A k \in Int : k \notin S => k < off \/ k >= end
  BY DEF Cells
<1> HIDE DEF g, end, S
<1>a. Image(g) /\ end \in Nat
  BY <1>1, <1>2
<1>4. /\ Image(e)
      /\ e.size = g.size /\ e.good = g.good /\ e.verdict = g.verdict
      /\ e.len = IF end > g.len THEN end ELSE g.len
      /\ \A k \in 0..g.len-1 : e.disk[k] = g.disk[k]
      /\ a.fs # "leaky" => \A k \in 0..end-1 : k >= g.len => e.disk[k] = 0
  BY <1>a, ReachFacts
<1> HIDE DEF e
<1>5. ASSUME Ready
      PROVE  /\ Level(e) /\ Quiet(e)
             /\ a.fs = "healthy" =>
                  \A k \in 0..e.size-1 : k \notin S => e.disk[k] = e.good[k]
  <2>1. /\ verdict = "none" /\ size = len /\ size <= Buf
        /\ a.fs = "healthy" => \A k \in 0..size-1 : disk[k] = good[k]
    BY <1>5, ReadyFacts
  <2>2. e.verdict = "none" /\ e.size = e.len /\ e.size <= Buf
    BY <1>1, <1>2, <1>4, <2>1
  <2>3. ASSUME a.fs = "healthy", NEW k \in 0..e.size-1, k \notin S
        PROVE  e.disk[k] = e.good[k]
    <3>1. k \in 0..Buf-1 /\ (k < off \/ k >= end)
      BY <1>1, <1>2, <1>3, <1>4, <2>2, <2>3
    <3>2. CASE k < size
      BY <1>1, <1>2, <1>4, <2>1, <2>3, <3>1, <3>2
    <3>3. CASE ~(k < size)
      <4>1. k \in 0..end-1 /\ k < off /\ k >= g.len
        BY <1>1, <1>2, <1>4, <2>1, <3>1, <3>3
      <4> QED
        BY <1>1, <1>2, <1>4, <2>1, <2>3, <3>1, <3>3, <4>1
    <3> QED
      BY <3>2, <3>3
  <2> QED
    BY <2>2, <2>3 DEF Level, Quiet, Fine
<1> QED
  BY <1>4, <1>5 DEF SoundBut, e, g, S, end

\* the cells of an operation lie inside good_buf
LEMMA CellsInside ==
  ASSUME NEW off \in Nat, NEW n \in Nat, NEW limit \in Nat, off + n <= limit
  PROVE  Cells(off, n) \subseteq 0..limit-1
BY DEF Cells

LEMMA ZeroSound ==
  ASSUME Setting, Image(Now)
  PROVE  /\ \A x \in Ranges(size) : Sound(PunchHole(x))
         /\ \A x \in Ranges(MaxFileLen), keep \in BOOLEAN : Sound(ZeroRange(x, keep))
<1>1. /\ size \in Nat /\ Buf \in Nat /\ MaxFileLen \in Nat /\ MaxFileLen <= Buf
  BY NowTypes
<1>2. ASSUME NEW off \in Nat, NEW n \in Nat, off + n <= Buf, NEW g,
             SoundBut(g, Cells(off, n))
      PROVE  Sound(Shadow(Put(g, Zeros(off, n)), Zeros(off, n)))
  <2>1. Cells(off, n) \subseteq 0..Buf-1
    BY <1>1, <1>2, CellsInside
  <2> QED
    BY <1>2, <2>1, ZerosType, BothSound
<1>3. ASSUME NEW x \in Ranges(size)
      PROVE  Sound(PunchHole(x))
  <2>1. x.off \in Nat /\ x.n \in Nat /\ x.off + x.n <= size
    BY <1>1, RangeFacts
  <2>2. CASE size <= Buf
    <3>1. x.off + x.n <= Buf
      BY <1>1, <2>1, <2>2
    <3> QED
      BY <1>2, <2>1, <3>1, NowSound, NowSoundBut DEF PunchHole
  <2>3. CASE ~(size <= Buf)
    <3>1. ~Ready
      BY <2>3, ReadyFacts
    <3>2. Image(PunchHole(x))
      <4> DEFINE z == Zeros(x.off, x.n)
                 S == Cells(x.off, x.n)
      <4>1. z \in [S -> Nat]
        BY ZerosType
      <4>2. PunchHole(x) \in {Now, Shadow(Put(Now, z), z)}
        BY DEF PunchHole
      <4> HIDE DEF z, S
      <4>3. Image(Put(Now, z))
        BY <4>1, PutFacts
      <4> QED
        BY <4>1, <4>2, <4>3, ShadowFacts
    <3> QED
      BY <3>1, <3>2 DEF Sound
  <2> QED
    BY <2>2, <2>3
<1>4. ASSUME NEW x \in Ranges(MaxFileLen), NEW keep \in BOOLEAN
      PROVE  Sound(ZeroRange(x, keep))
  <2>1. x.off \in Nat /\ x.n \in Nat /\ x.off + x.n <= MaxFileLen
    BY <1>1, RangeFacts
  <2>2. x.off + x.n <= Buf
    BY <1>1, <2>1
  <2> DEFINE g == IF keep THEN Now ELSE Reach(Grow(Now, x.off, x.n), x.off + x.n)
  <2>3. SoundBut(g, Cells(x.off, x.n))
    BY <2>1, <2>2, ExtendSound, NowSoundBut
  <2>4. ZeroRange(x, keep) =
          IF x.n = 0 THEN Now ELSE Shadow(Put(g, Zeros(x.off, x.n)), Zeros(x.off, x.n))
    BY DEF ZeroRange
  <2> HIDE DEF g
  <2> QED
    BY <1>2, <2>1, <2>2, <2>3, <2>4, NowSound
<1> QED
  BY <1>3, <1>4

LEMMA CopySound ==
  ASSUME Setting, Image(Now), NEW off \in Nat, NEW n \in Nat, NEW d \in Nat,
         off + n <= size, d + n <= MaxFileLen
  PROVE  Sound(CopyEffect(off, n, d))
<1> DEFINE g == Grow(Now, d, n)
           S == Cells(d, n)
           data == [k \in S |-> g.disk[off + k - d]]
           copy == [k \in S |-> g.good[off + k - d]]
           e == Reach(g, d + n)
           c == Put(e, data)
<1>1. /\ size \in Nat /\ len \in Nat /\ Buf \in Nat
      /\ MaxFileLen \in Nat /\ MaxFileLen <= Buf
      /\ Up(len) \in Nat /\ len <= Up(len)
  BY NowTypes
<1>2. d + n <= Buf /\ d + n \in Nat
  BY <1>1
<1>3. /\ Image(g)
      /\ g.len = len /\ g.disk = disk /\ g.verdict = verdict
      /\ \A k \in 0..Buf-1 : g.good[k] = IF size <= k /\ k < d THEN 0 ELSE good[k]
  BY <1>2, GrowFacts, NowFields
<1>4. CopyEffect(off, n, d) =
        IF off + n > len THEN Failed(g, "call")
        ELSE IF off + n > Buf THEN Failed(c, "panic") ELSE Shadow(c, copy)
  BY DEF CopyEffect
<1>5. SoundBut(e, S)
  BY <1>2, ExtendSound
<1>6. S \subseteq 0..Buf-1 /\ \A k \in S : off + k - d \in 0..off+n-1
  BY <1>1, <1>2 DEF Cells
<1>7. ASSUME off + n <= len
      PROVE  data \in [S -> Nat] /\ \A k \in S : data[k] = disk[off + k - d]
  <2>1. \A k \in S : off + k - d \in 0..Up(len)-1
    BY <1>1, <1>6, <1>7
  <2>2. disk \in [0..Up(len)-1 -> Nat]
    BY NowTypes
  <2> HIDE DEF S, g
  <2> QED
    BY <1>3, <2>1, <2>2
<1>8. ASSUME off + n <= Buf
      PROVE  copy \in [S -> Nat] /\ \A k \in S : copy[k] = good[off + k - d]
  <2>1. \A k \in S : off + k - d \in 0..Buf-1 /\ ~(size <= off + k - d)
    BY <1>1, <1>6, <1>8
  <2>2. good \in [0..Buf-1 -> Nat]
    BY NowTypes
  <2>3. \A k \in S : g.good[off + k - d] = good[off + k - d]
    <3> HIDE DEF S, g
    <3> QED
      BY <1>3, <2>1
  <2> HIDE DEF S, g
  <2> QED
    BY <2>1, <2>2, <2>3
<1> HIDE DEF g, S, data, copy, e
<1>9. Image(e)
  BY <1>5 DEF SoundBut
<1>10. CASE off + n > len
  <2>1. ~Ready
    BY <1>1, <1>10, ReadyFacts
  <2> QED
    BY <1>3, <1>4, <1>10, <2>1, FailedFacts DEF Sound, Verdicts
<1>11. CASE ~(off + n > len) /\ off + n > Buf
  <2>1. ~Ready
    BY <1>1, <1>11, ReadyFacts
  <2>2. Image(c)
    BY <1>1, <1>7, <1>9, <1>11, PutFacts
  <2> QED
    BY <1>4, <1>11, <2>1, <2>2, FailedFacts DEF Sound, Verdicts
<1>12. CASE ~(off + n > len) /\ ~(off + n > Buf)
  <2>1. off + n <= len /\ off + n <= Buf
    BY <1>1, <1>12
  <2>2. ASSUME Ready, a.fs = "healthy", NEW k \in S PROVE data[k] = copy[k]
    <3>1. off + k - d \in 0..size-1
      BY <1>1, <1>6
    <3>2. disk[off + k - d] = good[off + k - d]
      BY <2>2, <3>1, ReadyFacts
    <3> QED
      BY <1>7, <1>8, <2>1, <3>2
  <2>3. Sound(Shadow(c, copy))
    BY <1>5, <1>6, <1>7, <1>8, <2>1, <2>2, BothSound
  <2> QED
    BY <1>4, <1>12, <2>3
<1> QED
  BY <1>10, <1>11, <1>12

\* the last part of collapse and insert range: the file is rearranged, then the
\* shadow, then the size is set
LEMMA MoveImage ==
  ASSUME Setting, NEW st, Image(st), NEW m \in Nat, NEW D, NEW v \in [D -> Nat],
         NEW S, NEW w \in [S -> Nat], S \subseteq 0..Buf-1, NEW z \in Nat
  PROVE  LET r == [Shadow(Remap(st, m, v), w) EXCEPT !.size = z] IN
         /\ Image(r) /\ Image(Remap(st, m, v))
         /\ r.size = z /\ r.len = m /\ r.verdict = st.verdict
         /\ \A k \in 0..m-1 : k \in D => r.disk[k] = v[k]
         /\ \A k \in 0..Buf-1 : r.good[k] = IF k \in S THEN w[k] ELSE st.good[k]
<1> DEFINE q == Remap(st, m, v)
           t == Shadow(q, w)
           r == [t EXCEPT !.size = z]
<1>1. /\ Image(q)
      /\ q.len = m /\ q.good = st.good /\ q.verdict = st.verdict
      /\ \A k \in 0..m-1 : k \in D => q.disk[k] = v[k]
  BY RemapFacts
<1> HIDE DEF q
<1>a. Shadowed(q, S, w, t)
  BY <1>1, ShadowedFacts
<1>2. /\ Image(t)
      /\ t.len = q.len /\ t.disk = q.disk /\ t.verdict = q.verdict
      /\ \A k \in 0..Buf-1 : t.good[k] = IF k \in S THEN w[k] ELSE q.good[k]
  BY <1>a DEF Shadowed
<1> HIDE DEF t
<1>3. /\ Image(r)
      /\ r.size = z /\ r.len = t.len /\ r.disk = t.disk /\ r.verdict = t.verdict
      /\ r.good = t.good
  <2>1. Image(t)
    BY <1>2
  <2>2. r = [good |-> t.good, size |-> z, disk |-> t.disk, len |-> t.len,
             verdict |-> t.verdict]
    BY ONLY <2>1, SMTT(40) DEF Image
  <2> HIDE DEF r
  <2>3. /\ r.size = z /\ r.len = t.len /\ r.disk = t.disk /\ r.verdict = t.verdict
        /\ r.good = t.good
    BY ONLY <2>2
  <2>4. /\ t.good \in [0..Buf-1 -> Nat] /\ t.len \in Nat
        /\ t.disk \in [0..Up(t.len)-1 -> Nat] /\ t.verdict \in Verdicts
    BY ONLY <2>1 DEF Image
  <2>5. Image(r)
    BY ONLY z \in Nat, <2>2, <2>3, <2>4 DEF Image
  <2> QED
    BY <2>3, <2>5
<1> HIDE DEF r
<1>4. /\ Image(r) /\ Image(q)
      /\ r.size = z /\ r.len = m /\ r.verdict = st.verdict
      /\ \A k \in 0..m-1 : k \in D => r.disk[k] = v[k]
      /\ \A k \in 0..Buf-1 : r.good[k] = IF k \in S THEN w[k] ELSE st.good[k]
  BY <1>1, <1>2, <1>3
<1> QED
  BY <1>4 DEF r, t, q

LEMMA CollapseSound ==
  ASSUME Setting, Image(Now), NEW x \in Ranges(Monus(size, 1))
  PROVE  Sound(CollapseRange(x))
<1> DEFINE off == Down(x.off, Page)
           n == Down(x.n, Page)
           st == PolluteEofPage(Now)
           D == DOMAIN st.disk
           kept == [k \in D |-> At(st.disk, IF k < off THEN k ELSE k + n)]
           S == Cells(off, size - n - off)
           moved == [k \in S |-> st.good[k + n]]
           q == Remap(st, len - n, kept)
           r == [Shadow(q, moved) EXCEPT !.size = size - n]
<1>1. /\ size \in Nat /\ len \in Nat /\ Buf \in Nat
      /\ Up(len) \in Nat /\ len <= Up(len)
  BY NowTypes
<1>a. Monus(size, 1) \in Nat
  BY <1>1 DEF Monus
<1>2. x.off \in Nat /\ x.n \in Nat
  BY <1>a, RangeFacts
<1>3. off \in Nat /\ n \in Nat
  BY <1>2, DownFacts, OptionFacts DEF Setting
<1>4. /\ Image(st)
      /\ st.size = size /\ st.len = len /\ st.good = good
      /\ size = len => st.verdict = verdict
      /\ \A k \in 0..len-1 : k < size => st.disk[k] = disk[k]
  BY PolluteFacts, NowFields
<1>5. D = 0..Up(len)-1 /\ st.disk \in [D -> Nat] /\ good \in [0..Buf-1 -> Nat]
  BY <1>4, NowTypes DEF Image
<1>6. CollapseRange(x) =
        IF n = 0 \/ off + n >= size THEN Now
        ELSE IF off + n >= len THEN Failed(st, "call")
        ELSE IF size > Buf THEN Failed(q, "panic")
        ELSE [Shadow(q, moved) EXCEPT !.size = @ - n]
  BY DEF CollapseRange
<1> HIDE DEF off, n, st
<1>7. /\ kept \in [D -> Nat]
      /\ \A k \in D : kept[k] = At(st.disk, IF k < off THEN k ELSE k + n)
      /\ \A k \in D : At(st.disk, k) = st.disk[k]
  <2>1. \A k : At(st.disk, k) \in Nat /\ (k \in D => At(st.disk, k) = st.disk[k])
    BY <1>5, AtType
  <2> QED
    BY <2>1
<1> HIDE DEF kept, D
<1>8. CASE n = 0 \/ off + n >= size
  BY <1>6, <1>8, NowSound
<1>9. CASE ~(n = 0 \/ off + n >= size) /\ off + n >= len
  <2>1. ~Ready
    BY <1>1, <1>3, <1>9, ReadyFacts
  <2> QED
    BY <1>4, <1>6, <1>9, <2>1, FailedFacts DEF Sound, Verdicts
<1>10. ASSUME ~(n = 0 \/ off + n >= size), ~(off + n >= len)
       PROVE  /\ len - n \in Nat /\ size - n \in Nat /\ off + n < size /\ off + n < len
              /\ Image(q) /\ q.size = size
  <2>1. len - n \in Nat /\ size - n \in Nat /\ off + n < size /\ off + n < len
    BY <1>1, <1>3, <1>10
  <2> DEFINE m == len - n
  <2>2. m \in Nat
    BY <2>1
  <2> HIDE DEF m
  <2>3. Image(Remap(st, m, kept)) /\ Remap(st, m, kept).size = st.size
    BY <1>4, <1>7, <2>2, RemapFacts
  <2> QED
    BY <1>4, <2>1, <2>3 DEF m
<1>11. CASE ~(n = 0 \/ off + n >= size) /\ ~(off + n >= len) /\ size > Buf
  <2>1. ~Ready
    BY <1>1, <1>11, ReadyFacts
  <2> QED
    BY <1>6, <1>10, <1>11, <2>1, FailedFacts DEF Sound, Verdicts
<1>12. CASE ~(n = 0 \/ off + n >= size) /\ ~(off + n >= len) /\ ~(size > Buf)
  <2>1. /\ len - n \in Nat /\ size - n \in Nat /\ off + n < size /\ off + n < len
        /\ Image(q) /\ q.size = size /\ size <= Buf
    BY <1>1, <1>10, <1>12
  <2>2. /\ S \subseteq 0..Buf-1
        /\ \A k \in S : k + n \in 0..Buf-1
        /\ \A k \in 0..size-n-1 : k \in S <=> off <= k
    BY <1>1, <1>3, <2>1 DEF Cells
  <2>3. moved \in [S -> Nat] /\ \A k \in S : moved[k] = good[k + n]
    BY <1>4, <1>5, <2>2
  <2> HIDE DEF S, moved
  <2>4. Shadow(q, moved).size = size
    BY <2>1, <2>3, ShadowFacts
  <2>5. CollapseRange(x) = r
    BY <1>6, <1>12, <2>4
  <2>6. /\ Image(r)
        /\ r.size = size - n /\ r.len = len - n /\ r.verdict = st.verdict
        /\ \A k \in 0..(len-n)-1 : k \in D => r.disk[k] = kept[k]
        /\ \A k \in 0..Buf-1 : r.good[k] = IF k \in S THEN moved[k] ELSE st.good[k]
    <3> DEFINE m == len - n
               z == size - n
    <3>1. m \in Nat /\ z \in Nat
      BY <2>1
    <3> HIDE DEF m, z
    <3>2. LET t == [Shadow(Remap(st, m, kept), moved) EXCEPT !.size = z] IN
          /\ Image(t) /\ Image(Remap(st, m, kept))
          /\ t.size = z /\ t.len = m /\ t.verdict = st.verdict
          /\ \A k \in 0..m-1 : k \in D => t.disk[k] = kept[k]
          /\ \A k \in 0..Buf-1 : t.good[k] = IF k \in S THEN moved[k] ELSE st.good[k]
      BY <1>4, <1>7, <2>2, <2>3, <3>1, MoveImage
    <3> QED
      BY <3>2 DEF m, z
  <2> HIDE DEF r
  <2>7. ASSUME Ready PROVE Faithful(r) /\ Quiet(r)
    <3>1. /\ verdict = "none" /\ size = len /\ size <= Buf
          /\ a.fs = "healthy" => \A k \in 0..size-1 : disk[k] = good[k]
      BY <2>7, ReadyFacts
    <3>2. r.verdict = "none" /\ r.size = r.len /\ r.size <= Buf
      BY <1>1, <1>3, <1>4, <2>1, <2>6, <3>1
    <3>3. ASSUME a.fs = "healthy", NEW k \in 0..r.size-1
          PROVE  r.disk[k] = r.good[k]
      <4>1. /\ k \in 0..size-n-1 /\ k \in 0..(len-n)-1 /\ k \in 0..size-1
            /\ k \in 0..Up(len)-1 /\ k + n \in 0..Up(len)-1
            /\ k \in 0..Buf-1 /\ k \in 0..len-1 /\ k < size
            /\ k + n \in 0..size-1 /\ k + n \in 0..len-1 /\ k + n < size
        BY <1>1, <1>3, <2>1, <2>6, <3>1
      <4>2. r.disk[k] = kept[k]
        BY <1>5, <2>6, <4>1
      <4>3. CASE k < off
        <5>1. k \notin S
          BY <1>3, <2>2, <4>1, <4>3
        <5>2. kept[k] = disk[k]
          BY <1>4, <1>5, <1>7, <4>1, <4>3
        <5> QED
          BY <1>4, <2>6, <3>1, <3>3, <4>1, <4>2, <5>1, <5>2
      <4>4. CASE ~(k < off)
        <5>1. k \in S
          BY <1>3, <2>2, <4>1, <4>4
        <5>2. kept[k] = disk[k + n]
          BY <1>4, <1>5, <1>7, <4>1, <4>4
        <5> QED
          BY <2>3, <2>6, <3>1, <3>3, <4>1, <4>2, <5>1, <5>2
      <4> QED
        BY <4>3, <4>4
    <3> QED
      BY <3>2, <3>3 DEF Faithful, Quiet, Fine, Level, Agree
  <2> QED
    BY <2>5, <2>6, <2>7 DEF Sound
<1> QED
  BY <1>8, <1>9, <1>11, <1>12

LEMMA InsertImage ==
  ASSUME Setting, Image(Now), NEW o \in Offsets(size), NEW raw \in Lengths
  PROVE  Image(InsertRange(o, raw))
<1> DEFINE off == Down(o, Page)
           n == Down(Lesser(raw, Monus(MaxFileLen, o)), Page)
           st == PolluteEofPage(Now)
           D == 0..Up(len)+n-1
           kept == [k \in D |->
                      IF k \in Cells(off, n) THEN 0 ELSE At(st.disk, IF k < off THEN k ELSE k - n)]
           S == Cells(off, size - off)
           moved == [k \in S |-> IF k \in Cells(off, n) THEN 0 ELSE st.good[k - n]]
           q == Remap(st, len + n, kept)
<1>1. size \in Nat /\ len \in Nat /\ Buf \in Nat /\ MaxFileLen \in Nat
  BY NowTypes
<1>2. o \in Nat /\ raw \in Nat
  BY <1>1, OptionFacts DEF Offsets, Lengths, Setting
<1>3. off \in Nat
  BY <1>2, DownFacts, OptionFacts DEF Setting
<1>4. n \in Nat
  <2>1. Lesser(raw, Monus(MaxFileLen, o)) \in Nat
    BY <1>1, <1>2 DEF Lesser, Monus
  <2> QED
    BY <2>1, DownFacts, OptionFacts DEF Setting
<1>5. /\ Image(st) /\ st.size = size /\ st.good = good
  BY PolluteFacts, NowFields
<1>6. InsertRange(o, raw) =
        IF n = 0 \/ n > MaxFileLen \/ off >= size THEN Now
        ELSE IF off >= len THEN Failed(st, "call")
        ELSE IF off + n > size \/ off + n > Buf \/ size > Buf THEN Failed(q, "panic")
        ELSE [Shadow(q, moved) EXCEPT !.size = @ + n]
  BY DEF InsertRange
<1>7. st.disk \in [0..Up(st.len)-1 -> Nat] /\ good \in [0..Buf-1 -> Nat]
  BY <1>5, NowTypes DEF Image
<1> HIDE DEF off, n, st
<1>8. kept \in [D -> Nat]
  <2>1. \A k : At(st.disk, k) \in Nat
    BY <1>7, AtType
  <2> QED
    BY <2>1
<1> DEFINE m == len + n
           z == size + n
<1>9. m \in Nat /\ z \in Nat
  BY <1>1, <1>4
<1>10. Image(q) /\ q.size = size
  <2> HIDE DEF m, kept, D
  <2>1. Image(Remap(st, m, kept)) /\ Remap(st, m, kept).size = st.size
    BY <1>5, <1>8, <1>9, RemapFacts
  <2> QED
    BY <1>5, <2>1 DEF m
<1> HIDE DEF kept, D
<1>11. CASE off >= size \/ off + n > size \/ off + n > Buf \/ size > Buf \/ off >= len
            \/ n = 0 \/ n > MaxFileLen
  BY <1>5, <1>6, <1>10, <1>11, FailedFacts DEF Verdicts
<1>12. CASE ~(off >= size \/ off + n > size \/ off + n > Buf \/ size > Buf \/ off >= len
            \/ n = 0 \/ n > MaxFileLen)
  <2>1. /\ S \subseteq 0..Buf-1
        /\ \A k \in S : k \notin Cells(off, n) => k - n \in 0..Buf-1
    BY <1>1, <1>3, <1>4, <1>12 DEF Cells
  <2>2. moved \in [S -> Nat]
    BY <1>5, <1>7, <2>1
  <2> HIDE DEF S, moved
  <2>3. Shadow(q, moved).size = size
    BY <1>10, <2>2, ShadowFacts
  <2>4. InsertRange(o, raw) = [Shadow(q, moved) EXCEPT !.size = z]
    BY <1>6, <1>12, <2>3
  <2> HIDE DEF m, z
  <2>5. LET t == [Shadow(Remap(st, m, kept), moved) EXCEPT !.size = z] IN Image(t)
    BY <1>5, <1>8, <1>9, <2>1, <2>2, MoveImage
  <2> QED
    BY <2>4, <2>5 DEF m
<1> QED
  BY <1>11, <1>12

-----------------------------------------------------------------------------
(* What follows the operation in an iteration. *)

\* what the file system does meanwhile does not make a working one suspect
LEMMA OutcomeSound ==
  ASSUME Setting, NEW st, Sound(st), NEW s \in Outcomes(st)
  PROVE  Sound(s)
<1>1. Image(st)
  BY DEF Sound
<1>2. CASE s = st
  BY <1>2
<1>3. CASE a.fs = "erring" /\ s = Failed(st, "call")
  <2>1. /\ Image(s)
        /\ s.verdict = IF st.verdict = "none" THEN "call" ELSE st.verdict
    BY <1>1, <1>3, FailedFacts DEF Verdicts
  <2> QED
    BY <1>3, <2>1 DEF Sound, Faithful, Quiet, Fine
<1>4. ASSUME a.fs = "rotten", NEW k \in 0..st.len-1, s = [st EXCEPT !.disk[k] = Rot]
      PROVE  Sound(s)
  <2>1. Rot \in Nat
    <3>1. a.numops \in Nat /\ Buf \in Nat
      BY OptionFacts DEF Setting
    <3> QED
      BY <3>1 DEF Rot
  <2>2. st.len \in Nat /\ st.disk \in [0..Up(st.len)-1 -> Nat]
    BY <1>1 DEF Image
  <2>3. k \in 0..Up(st.len)-1
    BY <2>2, UpFacts, SMTT(40)
  <2> DEFINE new == [st.disk EXCEPT ![k] = Rot]
  <2>4. s = [st EXCEPT !.disk = new]
    BY <1>4
  <2>5. new \in [0..Up(st.len)-1 -> Nat]
    BY <2>1, <2>2, <2>3
  <2> HIDE DEF new
  <2>6. /\ Image(s)
        /\ s.verdict = st.verdict /\ s.size = st.size /\ s.len = st.len
    BY <1>1, <2>4, <2>5 DEF Image
  <2> QED
    BY <1>4, <2>6 DEF Sound, Faithful, Quiet, Fine, Level
<1>5. \/ s = st
      \/ a.fs = "erring" /\ s = Failed(st, "call")
      \/ a.fs = "rotten" /\ \E k \in 0..st.len-1 : s = [st EXCEPT !.disk[k] = Rot]
  BY DEF Outcomes
<1> QED
  BY <1>2, <1>3, <1>4, <1>5

\* -X and the comparison of the sizes both passed
Intact(st) == a.contents /\ ~a.noSize /\ Fine(st) => st.size = st.len /\ Agree(st)

LEMMA CheckedSound ==
  ASSUME Setting, NEW st, Sound(st)
  PROVE  Sound(Checked(st)) /\ Intact(Checked(st))
<1>1. Image(st)
  BY DEF Sound
<1>2. st.size \in Nat /\ st.len \in Nat
  BY <1>1 DEF Image
<1>a. Buf \in Nat
  BY OptionFacts DEF Setting
<1>3. CASE ~Fine(st)
  BY <1>3 DEF Checked, Intact
<1>4. CASE Fine(st)
  <2> DEFINE c == CheckContents(st)
             r == CheckSize(c)
  <2>1. Checked(st) = r
    BY <1>4 DEF Checked
  <2>2. Compared(st, 0, st.size, Compare(st, 0, st.size))
    BY <1>1, <1>2, CompareFacts
  <2>3. /\ Image(c)
        /\ c.size = st.size /\ c.len = st.len /\ c.good = st.good
        /\ c.disk = st.disk
    BY <1>1, <2>2 DEF Compared, CheckContents
  <2>4. ASSUME Level(st)
        PROVE  /\ c.verdict # "panic"
               /\ Agree(st) => c.verdict = "none"
    <3>1. 0 + st.size <= st.len /\ 0 + st.size <= Buf
      BY <1>2, <1>a, <2>4 DEF Level
    <3>2. \A k \in 0..0+st.size-1 : k \in 0..st.size-1
      BY <1>2
    <3>3. st.verdict = "none"
      BY <1>4 DEF Fine
    <3>4. LET p == Compare(st, 0, st.size) IN
          /\ p.verdict # "panic" \/ st.verdict = "panic"
          /\ (\A k \in 0..0+st.size-1 : st.disk[k] = st.good[k]) =>
                p.verdict = st.verdict
      BY <2>2, <3>1 DEF Compared
    <3> QED
      BY <3>2, <3>3, <3>4 DEF CheckContents, Agree
  <2>5. a.contents /\ Fine(c) => Agree(st)
    <3>1. CASE st.size = 0
      BY <3>1 DEF Agree
    <3>2. CASE st.size > 0
      <4>1. st.verdict = "none"
        BY <1>4 DEF Fine
      <4>2. a.contents => c = Compare(st, 0, st.size)
        BY <3>2 DEF CheckContents
      <4>3. Compare(st, 0, st.size).verdict = "none" =>
              \A k \in 0..0+st.size-1 : st.disk[k] = st.good[k]
        BY <1>1, <4>1, ComparePasses
      <4>4. \A k \in 0..st.size-1 : k \in 0..0+st.size-1
        BY <1>2
      <4> HIDE DEF c
      <4> QED
        BY <4>2, <4>3, <4>4 DEF Agree, Fine
    <3> QED
      BY <1>2, <3>1, <3>2
  <2> HIDE DEF c
  <2>6. /\ Image(r)
        /\ r.size = c.size /\ r.len = c.len /\ r.good = c.good /\ r.disk = c.disk
        /\ r.verdict = IF ~a.noSize /\ Fine(c) /\ c.size # c.len THEN "size" ELSE c.verdict
    BY <2>3, FailedFacts DEF CheckSize, Verdicts, Fine
  <2> HIDE DEF r
  <2>7. Intact(r)
    BY <2>3, <2>5, <2>6 DEF Intact, Agree, Fine
  <2>8. ASSUME Ready PROVE Faithful(r) /\ Quiet(r)
    <3>1. Level(st) /\ (a.fs = "healthy" => Agree(st))
      BY <1>4, <2>8 DEF Sound, Faithful
    <3>2. r.verdict = c.verdict /\ c.verdict # "panic"
          /\ (a.fs = "healthy" => c.verdict = "none")
      BY <2>3, <2>4, <2>6, <3>1 DEF Level
    <3> QED
      BY <2>3, <2>6, <3>1, <3>2 DEF Faithful, Quiet, Fine, Level, Agree
  <2> QED
    BY <2>1, <2>6, <2>7, <2>8 DEF Sound
<1> QED
  BY <1>3, <1>4

\* an iteration whose operation is sound
LEMMA PerformSound ==
  ASSUME Setting, Image(Now), NEW st, Sound(st), Perform(st)
  PROVE  \E c : /\ Sound(c) /\ Intact(c)
                /\ good' = c.good /\ size' = c.size /\ disk' = c.disk /\ len' = c.len
                /\ verdict' = c.verdict
<1>1. PICK s \in Outcomes(st) :
        LET c == Checked(s) IN
        good' = c.good /\ size' = c.size /\ disk' = c.disk /\ len' = c.len
          /\ verdict' = c.verdict
  BY DEF Perform
<1>2. Sound(Checked(s)) /\ Intact(Checked(s))
  BY OutcomeSound, CheckedSound
<1> QED
  BY <1>1, <1>2

Operations ==
  \/ DoRead \/ DoWrite \/ DoMapRead \/ DoMapWrite \/ DoTruncate \/ DoPreallocate
  \/ DoPunchHole \/ DoZeroRange \/ DoWriteZeroes \/ DoCollapseRange \/ DoInsertRange
  \/ DoCloneRange \/ DoCopyRange

\* every operation is sound, or the invocation is not plain
LEMMA OperationSound ==
  ASSUME Setting, Image(Now), Operations
  PROVE  Running /\ \E st : Sound(st) /\ Perform(st)
<1>1. size \in Nat /\ MaxFileLen \in Nat
  BY NowTypes
<1>2. CASE DoRead
  BY <1>2, ReadSound DEF DoRead, Turn
<1>3. CASE DoMapRead
  BY <1>3, ReadSound DEF DoMapRead, Turn
<1>4. CASE DoWrite
  BY <1>4, WriteSound DEF DoWrite, Turn
<1>5. CASE DoMapWrite
  BY <1>5, WriteSound DEF DoMapWrite, Turn
<1>6. CASE DoTruncate
  BY <1>6, TruncateSound DEF DoTruncate, Turn
<1>7. CASE DoPreallocate
  <2>1. PICK x \in Ranges(MaxFileLen), keep \in BOOLEAN, unshare \in BOOLEAN :
          (keep => ~a.noKeep /\ x.n # 0) /\ Perform(Preallocate(x, keep, unshare))
    BY <1>7 DEF DoPreallocate
  <2>2. Running /\ ~a.lite /\ "fallocate" \notin Disabled
    BY <1>7 DEF DoPreallocate, Turn, LiteOps
  <2>3. Plain => ~keep /\ a.begin = 0
    BY <2>1, <2>2 DEF Plain
  <2>4. Sound(Preallocate(x, keep, unshare))
    <3>1. CASE Plain
      BY <2>2, <2>3, <3>1, PreallocateSound
    <3>2. CASE ~Plain
      BY <3>2, PreallocateSound DEF Sound, Ready
    <3> QED
      BY <3>1, <3>2
  <2> QED
    BY <2>1, <2>2, <2>4
<1>8. CASE DoPunchHole
  BY <1>8, ZeroSound DEF DoPunchHole, Turn
<1>9. CASE DoZeroRange
  BY <1>9, ZeroSound DEF DoZeroRange, Turn
<1>10. CASE DoWriteZeroes
  BY <1>10, ZeroSound DEF DoWriteZeroes, Turn
<1>11. CASE DoCollapseRange
  BY <1>11, CollapseSound DEF DoCollapseRange, Turn
<1>12. CASE DoInsertRange
  <2>1. PICK o \in Offsets(size), raw \in Lengths : Perform(InsertRange(o, raw))
    BY <1>12 DEF DoInsertRange
  <2>2. Running /\ ~Plain
    BY <1>12 DEF DoInsertRange, Turn, LiteOps, Plain
  <2>3. Sound(InsertRange(o, raw))
    BY <2>2, InsertImage DEF Sound, Ready
  <2> QED
    BY <2>1, <2>2, <2>3
<1>13. ASSUME NEW op, CopyOrSkip(op)
       PROVE  Running /\ \E st : Sound(st) /\ Perform(st)
  <2>1. PICK x \in Ranges(size) :
          LET off == Down(x.off, Page)
              n == Down(x.n, Page)
          IN \/ Perform(Now)
             \/ n > 0 /\ \E d \in Dests(off, n) : Perform(CopyEffect(off, n, d))
    BY <1>13 DEF CopyOrSkip
  <2> DEFINE off == Down(x.off, Page)
             n == Down(x.n, Page)
  <2>2. Running
    BY <1>13 DEF CopyOrSkip, Turn
  <2>3. x.off \in Nat /\ x.n \in Nat /\ x.off + x.n <= size
    BY <1>1, RangeFacts
  <2>4. off \in Nat /\ n \in Nat /\ off <= x.off /\ n <= x.n
    BY <2>3, DownFacts, OptionFacts DEF Setting
  <2> HIDE DEF off, n
  <2>5. off + n <= size
    BY <1>1, <2>3, <2>4
  <2>6. \A d \in Dests(off, n) : d \in Nat /\ d + n <= MaxFileLen
    BY <1>1 DEF Dests
  <2>7. \A d \in Dests(off, n) : Sound(CopyEffect(off, n, d))
    BY <2>4, <2>5, <2>6, CopySound
  <2>8. Perform(Now) \/ \E d \in Dests(off, n) : Perform(CopyEffect(off, n, d))
    BY <2>1 DEF off, n
  <2> QED
    BY <2>2, <2>7, <2>8, NowSound
<1> QED
  BY <1>2, <1>3, <1>4, <1>5, <1>6, <1>7, <1>8, <1>9, <1>10, <1>11, <1>12, <1>13
     DEF Operations, DoCloneRange, DoCopyRange

-----------------------------------------------------------------------------
(* The invariant and the theorems. *)

\* the invariant that the operations keep
Inv ==
  /\ a \in OptionType /\ calls \in 0..a.numops
  /\ status \in {"run", "ok", "failed", "died"}
  /\ Image(Now)
  /\ Plain => Faithful(Now) /\ Quiet(Now)
  /\ status = "ok" => verdict = "none"
  /\ (a.lite => calls > 0) => Intact(Now)

LEMMA InitInv == Init => Inv
<1> SUFFICES ASSUME Init PROVE Inv
  OBVIOUS
<1>1. a \in OptionType
  BY FsxAssumption DEF Init
<1>2. /\ a.flen \in Nat \ {0} /\ a.existing \in Nat /\ a.numops \in Nat
      /\ MaxFileLen \in Nat /\ Buf \in Nat /\ MaxFileLen <= Buf
  BY <1>1, OptionFacts
<1>3. size \in Nat /\ len \in Nat
  BY <1>2 DEF Init
<1>4. Up(len) \in Nat /\ len <= Up(len)
  BY <1>3, UpFacts
<1>5. /\ good \in [0..Buf-1 -> Nat] /\ disk \in [0..Up(len)-1 -> Nat]
      /\ verdict = "none" /\ calls = 0 /\ status = "run"
  BY DEF Init
<1>6. Image(Now)
  BY <1>3, <1>5, NowFields DEF Image, Now, Verdicts
<1>7. Plain => size = len /\ size <= Buf
  <2>1. CASE a.lite
    BY <1>2, <2>1 DEF Plain, Init, MaxFileLen
  <2>2. CASE ~a.lite
    BY <1>2, <2>2 DEF Init
  <2> QED
    BY <2>1, <2>2
<1>8. size = len => \A k \in 0..size-1 : disk[k] = good[k]
  <2>1. ASSUME size = len, Plain \/ ~a.lite, NEW k \in 0..size-1 PROVE disk[k] = good[k]
    <3>1. size <= Buf
      BY <1>2, <1>7, <2>1 DEF Init
    <3>2. k \in 0..Up(len)-1 /\ k \in 0..Buf-1
      BY <1>2, <1>3, <1>4, <2>1, <3>1
    <3> QED
      BY <3>2 DEF Init
  <2>2. ASSUME size = len, ~Plain, a.lite PROVE FALSE
    <3>1. ~(a.existing >= a.flen)
      BY <2>2 DEF Plain
    <3> QED
      BY <1>2, <2>2, <3>1 DEF Init, MaxFileLen
  <2> QED
    BY <2>1, <2>2
<1>9. ~a.lite => size = len
  BY DEF Init
<1> QED
  BY <1>1, <1>2, <1>5, <1>6, <1>7, <1>8, <1>9, NowFields
     DEF Inv, Faithful, Quiet, Fine, Level, Agree, Intact

LEMMA NextInv == Inv /\ [Next]_vars => Inv'
<1> SUFFICES ASSUME Inv, [Next]_vars PROVE Inv'
  OBVIOUS
<1>0. Setting /\ Image(Now) /\ a.numops \in Nat
  <2>1. a \in OptionType /\ calls \in 0..a.numops /\ Image(Now)
    BY DEF Inv
  <2>2. a.numops \in Nat
    BY <2>1, OptionFacts
  <2> QED
    BY <2>1, <2>2 DEF Setting
<1>1. CASE Operations
  <2>1. Running
    BY <1>0, <1>1, OperationSound
  <2>2. PICK st : Sound(st) /\ Perform(st)
    BY <1>0, <1>1, OperationSound
  <2>3. a' = a /\ status' = status /\ calls' = calls + 1
    BY <2>2 DEF Perform
  <2>4. PICK c : /\ Sound(c) /\ Intact(c)
                 /\ good' = c.good /\ size' = c.size /\ disk' = c.disk /\ len' = c.len
                 /\ verdict' = c.verdict
    BY <1>0, <2>2, PerformSound
  <2>5. calls' \in 0..a.numops
    BY <1>0, <2>1, <2>3 DEF Running, Setting
  <2>6. Image(c)
    BY <2>4 DEF Sound
  <2>7. Now' = c
    BY <2>4, <2>6 DEF Now, Image
  <2>8. Buf' = Buf /\ Plain' = Plain /\ Tame' = Tame /\ Shares' = Shares
    BY <2>3 DEF Buf, MaxFileLen, Plain, Tame, Shares, Disabled
  <2>9. Image(Now)'
    BY <2>6, <2>7, <2>8 DEF Image
  <2>10. Plain' => Faithful(Now)' /\ Quiet(Now)'
    <3>1. ASSUME Plain PROVE Faithful(c) /\ Quiet(c)
      <4>1. Ready
        BY <2>1, <3>1, NowFields DEF Ready, Inv, Running, Fine
      <4> QED
        BY <2>4, <4>1 DEF Sound
    <3> QED
      BY <2>3, <2>7, <2>8, <3>1 DEF Faithful, Quiet, Fine, Level, Agree
  <2>11. Intact(Now)'
    BY <2>3, <2>4, <2>7 DEF Intact, Fine, Agree
  <2>12. status' # "ok" /\ status' \in {"run", "ok", "failed", "died"}
    BY <2>1, <2>3 DEF Running
  <2> QED
    BY <2>3, <2>5, <2>9, <2>10, <2>11, <2>12 DEF Inv
<1>2. ASSUME UNCHANGED <<a, good, size, disk, len, verdict>>
      PROVE  /\ a' \in OptionType /\ Image(Now)' /\ Intact(Now)' = Intact(Now)
             /\ Plain' => Faithful(Now)' /\ Quiet(Now)'
  <2>1. Now' = Now
    BY <1>2 DEF Now
  <2>2. Buf' = Buf /\ Plain' = Plain /\ Tame' = Tame /\ Shares' = Shares
    BY <1>2 DEF Buf, MaxFileLen, Plain, Tame, Shares, Disabled
  <2>3. Intact(Now)' = Intact(Now)
    BY <1>2, <2>1 DEF Intact, Fine, Agree
  <2>4. Image(Now)'
    BY <1>0, <2>1, <2>2 DEF Image
  <2>5. Plain' => Faithful(Now)' /\ Quiet(Now)'
    BY <1>2, <2>1, <2>2 DEF Inv, Faithful, Quiet, Fine, Level, Agree
  <2> QED
    BY <1>2, <2>3, <2>4, <2>5 DEF Inv
<1>3. CASE SkipDisabled
  <2>1. /\ UNCHANGED <<a, good, size, disk, len, verdict>>
        /\ status' = status /\ calls' = calls + 1 /\ ~a.lite
    BY <1>3 DEF SkipDisabled
  <2>2. calls' \in 0..a.numops
    BY <1>0, <1>3, <2>1 DEF SkipDisabled, Running, Setting
  <2> QED
    BY <1>2, <2>1, <2>2 DEF Inv
<1>4. CASE Report
  <2>1. /\ UNCHANGED <<a, good, size, disk, len, verdict>> /\ calls' = calls
        /\ status' \in {"run", "ok", "failed", "died"}
        /\ status' = "ok" => verdict = "none"
    BY <1>4 DEF Report
  <2> QED
    BY <1>2, <2>1 DEF Inv
<1>5. CASE UNCHANGED vars
  BY <1>2, <1>5 DEF Inv, vars
<1> QED
  BY <1>1, <1>3, <1>4, <1>5 DEF Next, Operations, Finished

\* the invariant holds in every state of a run of fsx
THEOREM FsxInvariance == Spec => []Inv
BY InitInv, NextInv, PTL DEF Spec

\* Shadow and file keep their types for every invocation and every file system:
\* good_buf its length, the file its cells up to the end of its last page.
THEOREM FsxTypes == Spec => []TypeOK
<1>1. Inv => TypeOK
  BY NowFields DEF Inv, Image, TypeOK, Verdicts
<1> QED
  BY <1>1, FsxInvariance, PTL

\* The shadow buffer is the file image after every operation of a plain invocation
\* on a file system that works, whatever the sizes, boundaries and page size.
THEOREM ShadowIsTheImage == Spec => []ShadowIsImage
<1>1. Inv => ShadowIsImage
  BY NowFields DEF Inv, ShadowIsImage, Faithful, Fine, Level, Agree
<1> QED
  BY <1>1, FsxInvariance, PTL

\* A file system that works is never reported, and no index leaves good_buf.
THEOREM NoAlarmIsFalse == Spec => []NoFalseAlarm
<1>1. Inv => NoFalseAlarm
  BY NowFields DEF Inv, NoFalseAlarm, Quiet, Fine, Shares
<1> QED
  BY <1>1, FsxInvariance, PTL

\* A report of ok with -X means that the file is the shadow at the end, for every
\* invocation and every file system.
THEOREM OkMeansIntact == Spec => []OkIsIntact
<1>1. Inv => OkIsIntact
  BY NowFields DEF Inv, OkIsIntact, Intact, Fine, Agree
<1> QED
  BY <1>1, FsxInvariance, PTL
=============================================================================
