--------------------------------- MODULE Fsx ---------------------------------
(***************************************************************************)
(* The fsx suite (src/src/fsx.rs): random operations on one file, each     *)
(* applied to the real file and to a shadow buffer, and compared.          *)
(*                                                                         *)
(* Bytes are numbered cells.  good and size are the shadow (good_buf and   *)
(* file_size); disk and len are the real file up to the end of its last    *)
(* page, so that disk also holds what a mapping shows behind the end.      *)
(* The Linux build is modelled.  The operation log, close and open (only   *)
(* logged by the code), fsync and the injected failure are left out.       *)
(***************************************************************************)
EXTENDS Naturals, FiniteSets

CONSTANTS
  Page,     \* page size, which is also the 4096 of block aligned operations
  Slack,    \* spare cells behind the shadow
  Options   \* the invocations considered: see OptionType

OpNames == {"read", "write", "mapread", "mapwrite", "truncate", "fallocate",
            "punch_hole", "zero_range", "write_zeroes", "collapse_range",
            "insert_range", "clone_range", "copy_range"}
LiteOps == {"read", "write", "mapread", "mapwrite"}

\* flags: operations switched off; unsupported: those the probes find missing;
\* existing: the size of the file that is there; unshare: whether the file system
\* knows FALLOC_FL_UNSHARE_RANGE; fs: how the file system behaves
OptionType ==
  [flen : Nat \ {0}, oplen : Nat, numops : Nat, readbdy : Nat, writebdy : Nat,
   truncbdy : Nat, style : {0, 1}, lite : BOOLEAN, existing : Nat, fixed : BOOLEAN,
   noMapRead : BOOLEAN, noMapWrite : BOOLEAN, flags : SUBSET OpNames,
   unsupported : SUBSET OpNames, noKeep : BOOLEAN, noSize : BOOLEAN,
   contents : BOOLEAN, pollute : BOOLEAN, begin : Nat, timed : BOOLEAN,
   unshare : BOOLEAN, fs : {"healthy", "leaky", "rotten", "erring"}]

ASSUME FsxAssumption ==
  Page \in Nat \ {0} /\ Slack \in Nat /\ Options \subseteq OptionType

VARIABLES
  a,         \* the command line and the file system
  good, size,   \* the shadow
  disk, len,    \* the real file
  verdict,   \* failure: none, data, size, call, or panic if the process dies
  calls,     \* testcalls
  status     \* of the report, once it is made

vars == <<a, good, size, disk, len, verdict, calls, status>>

Lesser(x, y) == IF x < y THEN x ELSE y
Monus(x, y) == IF x > y THEN x - y ELSE 0
Down(x, b) == x - (x % (IF b = 0 THEN 1 ELSE b))
Up(x) == Down(x + Page - 1, Page)

MaxFileLen == IF a.lite /\ a.existing > a.flen THEN a.existing ELSE a.flen
Buf == MaxFileLen + a.writebdy + Slack

\* the operations that are skipped: switched off, or found missing by a probe
Disabled ==
  a.flags \cup a.unsupported
    \cup (IF "zero_range" \in a.flags THEN {"write_zeroes"} ELSE {})

Now == [good |-> good, size |-> size, disk |-> disk, len |-> len, verdict |-> verdict]
Failed(st, v) == [st EXCEPT !.verdict = IF @ = "none" THEN v ELSE @]
Fine(st) == st.verdict = "none"

-----------------------------------------------------------------------------
(* The shadow. *)

Cells(from, n) == from..from+n-1
Zeros(from, n) == [k \in Cells(from, n) |-> 0]

\* gendata: the number of the call, on odd cells with the original fill added
Pattern(k) == calls + 1 + (IF k % 2 = 1 THEN (a.numops + 1) * k ELSE 0)

\* g with the cells of v
Over(g, v) == [k \in DOMAIN g |-> IF k \in DOMAIN v THEN v[k] ELSE g[k]]

\* a slice of good_buf is assigned; an index out of range is a panic
Shadow(st, v) ==
  IF DOMAIN v \subseteq DOMAIN st.good
    THEN [st EXCEPT !.good = Over(@, v)]
    ELSE Failed(st, "panic")

\* mutant: the gap between the old end and the new data is not cleared
UpdateFileSizeNoGap(st, off, n) == [st EXCEPT !.size = off + n]

UpdateFileSize(st, off, n) ==
  LET filled == IF off > st.size THEN Shadow(st, Zeros(st.size, off - st.size)) ELSE st
  IN [filled EXCEPT !.size = off + n]

Grow(st, off, n) == IF off + n > st.size THEN UpdateFileSize(st, off, n) ELSE st

-----------------------------------------------------------------------------
(* The file system, as the code uses it. *)

At(d, k) == IF k \in DOMAIN d THEN d[k] ELSE 0

\* what lies behind the end reads as zeros once the file grows over it; a leaky
\* file system forgets to clear the rest of the last page
SetLen(st, n) ==
  [st EXCEPT !.len = n,
             !.disk = [k \in 0..Up(n)-1 |->
                         IF a.fs = "leaky" \/ (k < st.len /\ k < n) THEN At(@, k) ELSE 0]]
Reach(st, n) == IF n > st.len THEN SetLen(st, n) ELSE st

Put(st, v) == [st EXCEPT !.disk = Over(@, v)]

\* the file gets length n and the cells of v; what v has behind the end is cleared
Remap(st, n, v) ==
  [st EXCEPT !.len = n,
             !.disk = [k \in 0..Up(n)-1 |->
                         IF k < n \/ a.fs = "leaky" THEN At(v, k) ELSE 0]]

\* pread and check_buffers: a short read fails as well
Compare(st, from, n) ==
  IF from + n > st.len THEN Failed(st, "data")
  ELSE IF from + n > Buf THEN Failed(st, "panic")
  ELSE IF \E k \in from..from+n-1 : st.disk[k] # st.good[k] THEN Failed(st, "data")
  ELSE st

\* the same through a mapping, where a page behind the end raises a signal.  The
\* search for non-zero cells behind the end never looks there: the mapping ends
\* with the cells that are read, all of them inside the file.
CompareMapped(st, from, n) ==
  IF from + n > Up(st.len) \/ from + n > Buf THEN Failed(st, "panic")
  ELSE IF \E k \in from..from+n-1 : st.disk[k] # st.good[k] THEN Failed(st, "data")
  ELSE st

\* pollute_eofpage: a mapping writes behind the end of the file; the process dies
\* if the file ends before that page
PolluteEofPage(st) ==
  LET n == Lesser(Page - (st.size % Page), Monus(MaxFileLen, st.size))
      junk == [k \in Cells(st.size, n) |-> Pattern(k % Page)]
  IN IF ~a.pollute \/ calls + 1 <= a.begin \/ st.size % Page = 0 \/ n = 0 THEN st
     ELSE IF st.size > Up(st.len) THEN Failed(st, "panic")
     ELSE Put(st, junk)

-----------------------------------------------------------------------------
(* The loop of run. *)

Running ==
  status = "run" /\ verdict = "none" /\ calls < a.numops

\* the operation is drawn and not disabled
Turn(op) == Running /\ (a.lite => op \in LiteOps) /\ op \notin Disabled

\* trim_off_len of a random offset and length
Offsets(limit) == IF limit = 0 THEN {0} ELSE 0..limit-1
Lengths == IF a.fixed THEN {a.oplen} ELSE 0..a.oplen
TrimLen(off, n, limit) == IF off + n > limit THEN limit - off ELSE n
Ranges(limit) ==
  {[off |-> o, n |-> TrimLen(o, n, limit)] : o \in Offsets(limit), n \in Lengths}

\* mutant: the last cell is not compared
CheckContentsShort(st) ==
  IF a.contents /\ st.size > 0 THEN Compare(st, 0, st.size - 1) ELSE st

CheckContents(st) ==
  IF a.contents /\ st.size > 0 THEN Compare(st, 0, st.size) ELSE st
CheckSize(st) ==
  IF ~a.noSize /\ Fine(st) /\ st.size # st.len THEN Failed(st, "size") ELSE st
Checked(st) == IF Fine(st) THEN CheckSize(CheckContents(st)) ELSE st

\* a cell that no operation writes
Rot == (a.numops + 1) * (Buf + 1)

\* what else the file system does meanwhile: nothing, the loss of a cell, an error
Outcomes(st) ==
  {st} \cup (IF a.fs = "erring" THEN {Failed(st, "call")} ELSE {})
       \cup (IF a.fs = "rotten"
               THEN {[st EXCEPT !.disk[k] = Rot] : k \in 0..st.len-1} ELSE {})

\* one iteration that leaves the shadow and the file as in st
Perform(st) ==
  /\ calls' = calls + 1
  /\ \E s \in Outcomes(st) :
       LET c == Checked(s) IN
       good' = c.good /\ size' = c.size /\ disk' = c.disk /\ len' = c.len
         /\ verdict' = c.verdict
  /\ UNCHANGED <<a, status>>

SkipDisabled ==
  /\ Running
  /\ ~a.lite /\ Disabled # {}
  /\ calls' = calls + 1
  /\ UNCHANGED <<a, good, size, disk, len, verdict, status>>

-----------------------------------------------------------------------------
(* The operations. *)

\* mutant: one cell too many is read
ReadMore(x) ==
  LET off == Down(x.off, a.readbdy)
  IN IF x.n = 0 THEN Now ELSE Compare(Now, off, x.n + 1)

Read(x) ==
  LET off == Down(x.off, a.readbdy)
  IN IF x.n = 0 \/ off + x.n > size THEN Now ELSE Compare(Now, off, x.n)
DoRead == Turn("read") /\ \E x \in Ranges(size) : Perform(Read(x))

MapRead(x) ==
  LET off == Down(x.off, a.readbdy)
  IN IF x.n = 0 \/ off + x.n > size THEN Now ELSE CompareMapped(Now, off, x.n)
DoMapRead ==
  Turn("mapread") /\ ~a.noMapRead /\ \E x \in Ranges(size) : Perform(MapRead(x))

\* the shadow of a write, which comes before the write itself
Written(off, n) == Grow(Shadow(Now, [k \in Cells(off, n) |-> Pattern(k)]), off, n)

Write(x) ==
  LET off == Down(x.off, a.writebdy)
      g == Written(off, x.n)
      data == [k \in Cells(off, x.n) |-> g.good[k]]
  IN IF x.n = 0 THEN Now
     ELSE IF ~Fine(g) THEN g
     ELSE Put(Reach(g, off + x.n), data)
DoWrite == Turn("write") /\ \E x \in Ranges(MaxFileLen) : Perform(Write(x))

\* the file is extended first, then written through a mapping
MapWrite(x) ==
  LET off == Down(x.off, a.writebdy)
      g == Written(off, x.n)
      e == IF g.size > size THEN SetLen(g, g.size) ELSE g
      data == [k \in Cells(off, x.n) |-> g.good[k]]
  IN IF x.n = 0 THEN Now
     ELSE IF ~Fine(g) THEN g
     ELSE IF off + x.n > Up(e.len) THEN Failed(e, "panic")
     ELSE Put(e, data)
DoMapWrite ==
  Turn("mapwrite") /\ ~a.noMapWrite /\ \E x \in Ranges(MaxFileLen) : Perform(MapWrite(x))

TruncateSizes == IF a.style = 0 THEN 0..MaxFileLen-1 ELSE Lengths
Truncate(n) ==
  LET m == Down(n, a.truncbdy)
      st == IF m < size THEN PolluteEofPage(Now) ELSE Now
  IN SetLen(UpdateFileSize(st, m, 0), m)
DoTruncate == Turn("truncate") /\ \E n \in TruncateSizes : Perform(Truncate(n))

\* The shadow grows even if FALLOC_FL_KEEP_SIZE leaves the file as it is, and even
\* if the call is left out because of --begin-op.
Preallocate(x, keep, unshare) ==
  LET end == x.off + x.n
      g == IF end > size
             THEN UpdateFileSize(Shadow(Now, Zeros(size, end - size)), x.off, x.n)
             ELSE Now
  IN IF x.n = 0 THEN Now
     ELSE IF calls + 1 <= a.begin THEN g
     ELSE IF unshare /\ ~a.unshare THEN Failed(g, "call")
     ELSE IF keep THEN g ELSE Reach(g, end)
DoPreallocate ==
  /\ Turn("fallocate")
  /\ \E x \in Ranges(MaxFileLen), keep \in BOOLEAN, unshare \in BOOLEAN :
       (keep => ~a.noKeep /\ x.n # 0) /\ Perform(Preallocate(x, keep, unshare))

PunchHole(x) ==
  IF x.n = 0 THEN Now
  ELSE Shadow(Put(Now, Zeros(x.off, x.n)), Zeros(x.off, x.n))
DoPunchHole == Turn("punch_hole") /\ \E x \in Ranges(size) : Perform(PunchHole(x))

ZeroRange(x, keep) ==
  LET g == IF keep THEN Now ELSE Reach(Grow(Now, x.off, x.n), x.off + x.n)
  IN IF x.n = 0 THEN Now
     ELSE Shadow(Put(g, Zeros(x.off, x.n)), Zeros(x.off, x.n))
DoZeroRange ==
  /\ Turn("zero_range")
  /\ \E x \in Ranges(MaxFileLen), keep \in BOOLEAN :
       (keep => ~a.noKeep /\ x.n # 0) /\ Perform(ZeroRange(x, keep))
DoWriteZeroes ==
  Turn("write_zeroes") /\ \E x \in Ranges(MaxFileLen) : Perform(ZeroRange(x, FALSE))

CollapseRange(x) ==
  LET off == Down(x.off, Page)
      n == Down(x.n, Page)
      st == PolluteEofPage(Now)
      kept == [k \in DOMAIN st.disk |-> At(st.disk, IF k < off THEN k ELSE k + n)]
      moved == [k \in Cells(off, size - n - off) |-> st.good[k + n]]
  IN IF n = 0 \/ off + n >= size THEN Now
     ELSE IF off + n >= len THEN Failed(st, "call")
     ELSE IF size > Buf THEN Failed(Remap(st, len - n, kept), "panic")
     ELSE [Shadow(Remap(st, len - n, kept), moved) EXCEPT !.size = @ - n]
DoCollapseRange ==
  Turn("collapse_range") /\ \E x \in Ranges(Monus(size, 1)) : Perform(CollapseRange(x))

\* The limit is tested with the size the file had at the start, which is 0, and the
\* shadow moves only the cells up to size - n.
InsertRange(o, raw) ==
  LET off == Down(o, Page)
      n == Down(Lesser(raw, Monus(MaxFileLen, o)), Page)
      st == PolluteEofPage(Now)
      kept == [k \in 0..Up(len)+n-1 |->
                 IF k \in Cells(off, n) THEN 0 ELSE At(st.disk, IF k < off THEN k ELSE k - n)]
      moved == [k \in Cells(off, size - off) |->
                  IF k \in Cells(off, n) THEN 0 ELSE st.good[k - n]]
      r == Remap(st, len + n, kept)
  IN IF n = 0 \/ n > MaxFileLen \/ off >= size THEN Now
     ELSE IF off >= len THEN Failed(st, "call")
     ELSE IF off + n > size \/ off + n > Buf \/ size > Buf THEN Failed(r, "panic")
     ELSE [Shadow(r, moved) EXCEPT !.size = @ + n]
DoInsertRange ==
  /\ Turn("insert_range")
  /\ \E o \in Offsets(size), raw \in Lengths : Perform(InsertRange(o, raw))

\* gen_dest_range: a destination that does not overlap, or after 30 tries none
Dests(off, n) ==
  {d \in 0..MaxFileLen-1 : /\ d % Page = 0 /\ d + n <= MaxFileLen
                           /\ Monus(d, off) + Monus(off, d) >= n}

\* do_clone_range and do_copy_range differ in the call only
CopyEffect(off, n, d) ==
  LET g == Grow(Now, d, n)
      data == [k \in Cells(d, n) |-> g.disk[off + k - d]]
      copy == [k \in Cells(d, n) |-> g.good[off + k - d]]
      c == Put(Reach(g, d + n), data)
  IN IF off + n > len THEN Failed(g, "call")
     ELSE IF off + n > Buf THEN Failed(c, "panic") ELSE Shadow(c, copy)
CopyOrSkip(op) ==
  /\ Turn(op)
  /\ \E x \in Ranges(size) :
       LET off == Down(x.off, Page)
           n == Down(x.n, Page)
       IN \/ Perform(Now)
          \/ n > 0 /\ \E d \in Dests(off, n) : Perform(CopyEffect(off, n, d))
DoCloneRange == CopyOrSkip("clone_range")
DoCopyRange == CopyOrSkip("copy_range")

-----------------------------------------------------------------------------
\* In lite mode the file is filled with zeros up to the maximum, whatever its size;
\* otherwise it is truncated.
Init ==
  /\ a \in Options
  /\ size = IF a.lite THEN a.existing ELSE 0
  /\ good = [k \in 0..Buf-1 |-> 0]
  /\ len = IF a.lite THEN MaxFileLen ELSE 0
  /\ disk = [k \in 0..Up(len)-1 |-> 0]
  /\ verdict = "none"
  /\ calls = 0
  /\ status = "run"

\* the loop ends: failure, number of operations, or --duration
Report ==
  /\ status = "run"
  /\ verdict # "none" \/ calls >= a.numops \/ a.timed
  /\ status' = CASE verdict = "none" -> "ok"
                 [] verdict = "panic" -> "died"
                 [] OTHER -> "failed"
  /\ UNCHANGED <<a, good, size, disk, len, verdict, calls>>

Finished == status # "run" /\ UNCHANGED vars

Next ==
  \/ DoRead \/ DoWrite \/ DoMapRead \/ DoMapWrite \/ DoTruncate \/ DoPreallocate
  \/ DoPunchHole \/ DoZeroRange \/ DoWriteZeroes \/ DoCollapseRange \/ DoInsertRange
  \/ DoCloneRange \/ DoCopyRange
  \/ SkipDisabled \/ Report \/ Finished

Spec == Init /\ [][Next]_vars

-----------------------------------------------------------------------------
(* Properties. *)

TypeOK ==
  /\ a \in OptionType
  /\ good \in [0..Buf-1 -> Nat] /\ size \in Nat
  /\ len \in Nat /\ disk \in [0..Up(len)-1 -> Nat]
  /\ verdict \in {"none", "data", "size", "call", "panic"}
  /\ calls \in 0..a.numops
  /\ status \in {"run", "ok", "failed", "died"}

\* invocations without the operations whose shadow is known to be wrong: no
\* fallocate with keep_size, no insert range, no --begin-op, no lite mode on a file
\* that is shorter than the maximum
Plain ==
  IF a.lite
    THEN a.existing >= a.flen
    ELSE /\ "fallocate" \in Disabled \/ (a.noKeep /\ a.begin = 0)
         /\ "insert_range" \in Disabled

\* "A shadow buffer tracks the expected file image": on a file system that works,
\* the shadow up to file_size is the file after every operation, whatever was
\* written, moved, cut or polluted behind the end before.
ShadowIsImage ==
  Plain /\ a.fs = "healthy" /\ verdict = "none" =>
    size = len /\ \A k \in 0..size-1 : disk[k] = good[k]

\* truncates stay below the maximum
Tame == a.style = 0 \/ a.oplen <= a.flen

\* A file system that works is never reported as broken: no read is short, no
\* comparison fails and no call is refused (given that it knows
\* FALLOC_FL_UNSHARE_RANGE, for which there is no probe).  And no index leaves
\* good_buf, whatever the file system does: the process does not panic, as long
\* as insert range is off and truncates stay below the maximum.
NoFalseAlarm ==
  Plain /\ Tame =>
    /\ a.fs = "healthy" /\ (a.unshare \/ "fallocate" \in Disabled) => verdict = "none"
    /\ verdict # "panic"

\* With -X the report is ok only if file and shadow agree, also if the file system
\* lost a cell or let polluted cells reappear on the way, and also where the shadow
\* was wrong for a while; a run in lite mode needs an operation to look at the file.
OkIsIntact ==
  a.contents /\ ~a.noSize /\ status = "ok" /\ (a.lite => calls > 0) =>
    size = len /\ \A k \in 0..size-1 : disk[k] = good[k]

=============================================================================
