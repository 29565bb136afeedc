# TLA+ models of fstest

fstest is one Rust binary with twelve file system test suites as subcommands.
Each suite runs on a mount point and ends with a JSON report and an exit code
that is 0 only if the report says `ok`. A test tool is only worth its verdict, so
the models here ask about the code that produces the verdict: who runs what, in
which order, what happens when a process dies, blocks or is late, and whether
`ok` can be reported for a run that was not ok.

All paths below are relative to the repository; `sqlite.rs` is `src/sqlite.rs`.

## Inventory

| component | state | operations | what is hard |
|---|---|---|---|
| mptest coordinator (`sqlite.rs` 64-1525) | tables `task`, `client`, `counters` in the shared database; per process `G.n_error`, `G.n_test`, `G.i_timeout` | master: `--start`, `--task`, `--wait`, checks, shutdown, Summary; client: claim, run, `--finish`, `--exit`, give up, halt | independent processes, two-statement operations, crashes inside transactions, busy timeouts, flush before halt |
| sqlite runner (`sqlite.rs` 1527-2012) | shared index and result vector, child process, reader threads, work directory | take, spawn, poll, kill, drain, store; tally, cleanup, report | a timeout racing the child's end, processes that keep the pipes, calls that block in the file system |
| git runner (`git.rs`) | the same, and the TAP counts of a script | the same, tier selection, TAP parsing | the same |
| stdfs (`stdfs.rs`) | results by language; in the generated rust program one thread and one channel per test | the languages one after another, go, python and node through the worker pool, rust through a program that is generated, compiled and run; report | detached threads that answer late, a process that cannot end, statuses of several kinds in one comparison |
| smallfile (`smallfile.rs`) | per thread: file number, status, frozen figures; shared: barrier, stonewall flag, directory trees | 21 operations, phases, results | barrier and early return, stonewall race, shared directories, phases that depend on each other |
| mdworkbench (`mdworkbench.rs`) | per rank: position in a FIFO of objects; shared: barrier, wear-out counters | precreate; stat, read, delete and create per object; stonewall; cleanup | ranks that run ahead of each other, agreement on a common stop, errors that leave a spin loop alone |
| mdtest (`mdtest.rs`) | per rank: phase, test directory, position in a tree of items; shared: barrier | build the tree; create, stat, read, rename, remove items; remove the tree | items found by number, items of a neighbour rank, early return before a barrier |
| pjdfstest (`pjdfstest.rs`) | counts of a test file, totals | scratch directory, shell, reader threads, timeout, TAP, plan, report | shell killed but not its children, verdict of a file that was cut off or stopped early, unsigned totals |
| ltp (`ltp.rs`) | result of each command, totals | spawn with three attempts, poll, kill the group, read the pipes, map the exit code, report | pipes that nobody reads while the test runs, timeouts |
| fsx (`fsx.rs`) | shadow buffer and its size, call number | thirteen random operations on one file, comparison of data and size | stale data behind the end, modes that the shadow must follow, slices out of range |
| fsstress (`fsstress.rs`) | per thread: lists of what it has made, next name; shared: the tree, the set of paths to clean up | 32 random operations, duration, cleanup, report | names of threads that collide, paths recomputed from lists, truncate against a mapping |
| fsmark (`fsmark.rs`) | per thread and iteration: names, subdirectory, open file; the loop: counts, status, full | space check, create, write, seven sync methods, unlink, iterations | space promised twice, names that collide, order of syncs, end of the loop |
| fio (`fio.rs`) | none | builds one command, reformats its JSON | none |
| command line (`main.rs`) | none | dispatch, exit code | none |

The components meet in few places: every suite returns a report that `main.rs`
prints; the sqlite runner starts `fstest __sqlite-mptest` as its child, that is
the mptest master, which starts the clients, all of which inherit the pipes that
the runner reads. What Mptest proves live (every client exits) is what Runner
needs of its environment (somebody closes the pipes).

## Modules

| module | what it is |
|---|---|
| `Mptest`, `MCMptest`, `MptestProofs` | the coordinator, its scripts for TLC, its theorems |
| `Batch` | abstract specification of a suite run: final results, then one report that agrees with them |
| `Runner`, `MCRunner`, `RunnerProofs` | the script runner, its instances, its theorems and those of `Stdfs` |
| `Smallfile`, `MCSmallfile` | the smallfile suite and its invocations |
| `Mdworkbench`, `MCMdworkbench`, `MdworkbenchProofs` | the mdworkbench suite, its invocations, its theorems |
| `Mdtest`, `MCMdtest` | the mdtest suite and its invocations |
| `Fsx`, `MCFsx`, `FsxProofs` | the fsx suite, its invocations and the file systems it meets, its theorems |
| `Serial`, `MCSerial`, `SerialProofs` | pjdfstest and ltp, which run their tests one after another; implements `Batch`; their theorems |
| `Stdfs`, `MCStdfs` | the stdfs suite and the program it generates |
| `Fsstress`, `MCFsstress` | the fsstress suite on a tree that all threads share |
| `TreeProofs` | the theorems of `Fsstress` and `Smallfile` |
| `Fsmark`, `MCFsmark`, `FsmarkProofs` | the fsmark suite and its command lines, its theorems |
| `Sums` | sums over finite sets, for the proofs that count |

What makes each component correct, in one line: Mptest, every task is run once
and every count arrives; Runner, one result per script and a verdict that agrees
with them; Smallfile and Mdtest, the names of one phase are those the next one
looks for; Mdworkbench, the FIFO stays exact; Fsx, the shadow is the file; Serial
and Stdfs, the verdict is that of the tests and it always comes; Fsstress, the
lists are right about the tree; Fsmark, a row stands for durable files.

### Mptest

A script is a sequence of commands; a task is named by its position, a process
by the position of the command that spawned it. The three tables are one record
`db`. SQLite itself is external: a write lock, a private copy of the tables for
an open transaction, atomic commit, and rollback of a process that dies. That is
what `BEGIN IMMEDIATE` and hot journals promise, and what the suite tests of the
file system; the model takes it as given and asks what the coordinator makes of
it. A statement that is busy for `DEFAULT_TIMEOUT` is a step of its own, at most
`MaxTimeouts` times in a behaviour; the 30 s without work are `MaxIdle` polls.
`--exit` ends a process with its transaction open; `fatal_error` raises
`wantHalt` for everybody, unless the lock is taken or the process is inside its
own transaction, whose rollback undoes it.

Client actions: `StartScript` (BEGIN and flush), `HaltSeen`, `ClaimTask`,
`GiveUp`, `KeepPolling` and `CommitStart` are the stations of `start_script`;
`RunCheck`, `RunBegin`, `RunCommit`, `RunMisuse`, `RunBusyTimeout` are commands
of `run_script`; `FinishMark`, `FinishDrop` and `ExitDrop` are the two statements
of `finish_script`. Master actions follow `run_script` and `mptest_main` in the
same way; `DrainClients` is the shutdown loop, which never waits (see Deviations).

### Runner and Batch

One worker goes through `Take`, `Prepare`, `Spawn`, `Poll`, `Kill`, `Reap`,
`Drain`, `Store`; the driver through `Join`, `LookForWorkRoot` (the `path.exists()`
before the bounded removal), `Cleanup`, `Emit`. Where a thread of the runner itself
makes a call on the mount (`InCall`: the work directory of sqlite and the spawn in
it, and `path.exists()`) the call may block (`CallBlocks`) and may or may not return
(`CallReturns`); meanwhile the thread takes no step. The script is the environment:
it may leave one process behind, in its process group or outside
it, be stuck in a call of the file system, end with any output. `output` keeps
what the status depends on: whether the closing line (Summary, TAP plan) is
there, whether it counts errors, whether everything was skipped, whether a known
breakage was fixed, and the exit status. `suite` selects the status rules of
`sqlite.rs` or `git.rs`.

`Batch` promises: results appear one by one and never change, the report comes
once, after all of them, and is `ok` exactly if no result is a failing one.
`Runner` implements it with the identity on `slot` and `report`, `Serial` by the
verdict of each result (`Promise == INSTANCE Batch WITH ...`).

### Serial

One test at a time goes through `Prepare`, `Spawn`, `Poll`, `Kill`, `Reap`, `Read`;
`suite` selects what differs. The pipes are the point: `ScriptBlocks` is a test
that has filled its pipe, `Drain` the reader threads of pjdfstest, which run all
the time, and `wait_with_output` of ltp, which comes after the test has ended.
`Kill` ends the shell (pjdfstest) or the process group (ltp). Of the output the
model keeps the numbers of TAP lines, a plan, a bail out, whether a byte is not
UTF-8 (`garbled`: `read_to_string` then gives nothing) and whether the tail of 2000
bytes starts inside a character (`wide`: a panic). `PjdResult` is the arithmetic of
`run_one`, `ResultOf` the exit code table of ltp, `Word` the width of the totals.
`ran` keeps what really happened, to compare the report with.

### Stdfs

`NotFound`, `RunItems`, `NotCompiled`, `StartProgram` and `ReadProgram` are what
`run_go`, `run_python`, `run_node` and `run_rust` return; an item of the first three
is one outcome, because what happens inside `exec_with_timeout` is `Runner`. What may
keep the suite from getting that outcome is `held`, set by `Hold` and reset, if ever,
by `LetGo`: a call on the mount that blocks the main thread, among them the
`path.exists()` of `LookForWorkTree`, a child that is stuck, or a process that keeps
the pipes of a child open. The generated `main` (`stdfs.rs` 1081-1132) is `SkipTest`,
`LaunchTest`, `Receive`, `ExitProgram`; a test thread (`TestMoves`) may pass, panic,
wedge or be stuck in the file system and go on later, also after it was detached.
`KillProgram` and `ProgramGone` are the process around it: it is gone only when no
thread of it is stuck in the kernel.

### Fsstress

The tree maps paths to inodes, a path is a sequence of names, a name is a type and
a number. Every operation that changes names or sizes is an action (`Creat`,
`Make`, `Link`, `Rename`, `Remove`, `Rw`, `Truncate`, `FallocRange`), all others are
`Look`; a mapped write is two steps (`MapOpen`, `MapWrite`) with the others in
between. `DirName` and `FentToName` are the recursion of `fent_to_name`, with its
silent fall back to the base directory. `Sweep` and `Rounds` are the cleanup of
`-c`.

### Fsmark

`Resolve` and `Valid` are what `resolve` makes of a command line. A thread goes
through `Check`, `Create`, `Write`, `Fsync`, and behind its files through the
`Stages` that its sync method asks for, in the order of the code; `Join` is the
rest of an iteration. A name is a directory, a subdirectory and a stamp that
stands for seconds and random letters, so that names may collide; with `-F` they
are taken to be new, otherwise nothing would make the run end. `dirty` are inodes
that a crash would lose, `cause` records collisions, faults, and space that was
promised while another thread was still writing, also while it was in the fsync
before its close. `MaxFiles` bounds the inodes: a thread that finds none waits.

### Smallfile

The file system is a set of directories and a set of names; a name belongs to a
thread and file number and lives in the directory of that number. Data, sizes,
pacing and response times are left out; nested directories are one level; the
xattr operations are those of a run with at least one attribute. An operation on
one file is one step, except swift-put, whose use of a descriptor after closing
it is the point. With `faults = "files"` an operation can fail, with or without
effect; with `"subdirs"` making the directories can fail too.

### Mdworkbench

An object is a rank, a data set and a number. A rank goes through one object in
five steps (`Stat`, `Read`, `Unlink`, `Open`, `Write`), `ReadRank` and `WriteRank`
say whose objects it takes and for whom it makes new ones, and `Lap` is the end of
the loop body with the stonewall: with wear-out it contributes its position
(`Contribute`, an atomic maximum) and spins (`Spin`) until every rank has
contributed or finished. `bad` are objects with the wrong data: written short, or
by an earlier invocation with another seed.

### Mdtest

`Derived` is what `run` makes of the command line (number of directories, items
per directory, test directories), `Plan` the sequence of phases and barriers that
one iteration of `run_rank` goes through. A path is a sequence of labels, so that
the place where `create_remove_items` puts an item (`Walked`) and the place where
`item_path` looks for it (`Looked`, `ItemDir`) are computed independently, as in
the code. A failing item operation only sets `warned`; a failing
`create_remove_tree` ends the rank (`died`).

### Fsx

Cells stand for bytes. `good` and `size` are the shadow, `disk` and `len` the real
file up to the end of its last page, so that what a mapping shows behind the end
of the file is there as well. One action is one iteration of the loop: draw an
operation and its arguments, trim and align them, change shadow and file in the
order of the code, compare. The data of a write is the number of the call, with
the position added on odd cells, as in `gendata`. The file system is external and
of one of four kinds: it works, it forgets to clear the page behind the end
(`leaky`), it loses a cell (`rotten`), or a call fails (`erring`). The effects are
operators on a record of shadow and file; `Failed` keeps the first failure.
`panic` stands for every way in which the process dies without a report. What an
operation does (`Write`, `Truncate`, ...) is apart from drawing its arguments
(`DoWrite`, `DoTruncate`, ...), because the proofs are about the former.

## Runs

| run | bounds | what it shows |
|---|---|---|
| `mptest_safety` | the shape of `crash02.subtest`: two clients, three tasks, a crash inside a transaction, a reused client number; 1 busy timeout, 1 idle poll | claims are exclusive, the columns of a task are filled in order, no commit undoes another, no count is lost or doubled |
| `mptest_live` | the shape of `multiwrite01`: two writers, one leaves a transaction open, one exits, the master leaves by `--exit` | the master ends and every client exits |
| `runner` | 2 scripts, 2 workers, six outputs, both kinds of processes left behind, stuck children, failing waits, calls of the runner's threads on the mount that block, `--keep` or not | the four invariants, refinement of Batch, and the report comes out unless the runner itself is blocked for ever |
| `serial` | 2 tests, 2 lines of output, plan of 2, all exit codes, both kinds of processes left behind, stuck children, failing waits, totals modulo 16 | ok is earned, refinement of Batch, a blocked test does not stay blocked, the report comes out |
| `stdfs` | four values of `--lang`, two items of each language with all outcomes, three rust tests, a suite that is held anywhere | a result belongs to its test, the report agrees with the results, it comes out unless the suite is held for ever |
| `stdfs_rust` | the same | violation: failing rust tests leave the run at ok |
| `smallfile` | 2 threads, 3 files, 2 files per directory, stonewall checked every 2 files; default suite with all option combinations on a clean and on a dirty mount, every operation, stonewalled phases with faults | suite and operations pass, figures are right, only a finisher cuts others short, the run ends |
| `mdworkbench` | 3 ranks, 1 or 2 objects, 2 iterations, every shift, phases that continue an earlier run, more objects than precreated, stonewall with and without wear-out, one fault | nothing is missing in documented use, the FIFO and the counters are exact, cleanup leaves nothing, ok means complete, ranks that stop by wear-out agree, the run ends |
| `mdtest` | 3 ranks, four tree shapes with and without leaf-only, strides 0 to 2, random order, no barriers, items of an earlier run, stonewall, one fault, several test directories | every item is found, removal leaves nothing, renames give every item its place back, the run ends |
| `fsx` | pages of 2 cells, files of 2 or 3 pages, up to 4 operations, alignments, lite mode, all four kinds of file systems, all options on | the shadow is the file, a working file system passes without a panic, `-X` finds every difference |
| `fsstress` | 2 threads with 3 operations, files of 0 or 1 page, an empty base directory or one with a file and a directory | entries below a thread's directories exist, cleanup removes what was made and nothing else, a mapping is behind the end of its file only if another thread cut it short |
| `fsmark` | 1 or 2 threads, 2 or 3 files, all sync methods, `-k`, `-L 2`, `-F` on 1 to 5 units of space, one to three directories, subdirectories by time and by turns, two stamps, one failing call | a row is durable, an ok run has left what it counts, a failure has a cause, the run ends |

Two is enough for the interesting cases: every race here is between two
processes, two workers or two threads, and the third task, file or phase is
there so that something follows the race. With 3 files and 2 files per
directory each thread crosses a directory boundary, and with a check every 2
files the stonewall can be met after the first and after the last file.

Fairness. `Mptest`: strong fairness of each process, because a process retries a
busy database every 10 ms and SQLite gives the lock to one of the processes that
ask for it; busy timeouts are not fair, they need not happen. `Runner`: weak
fairness of each worker, of the driver and of the clock; nothing is assumed of
the scripts, of the processes they leave behind, of the removal of the work
directory or of any other call on the mount: a worker or driver inside a call that
has blocked cannot step, so its fairness says nothing until the call returns.
`Smallfile`, `Mdworkbench`, `Mdtest`: weak fairness of each thread and
of the main thread, which is what the scheduler gives to threads that can run; a
thread at a barrier cannot. `Fsmark` likewise. `Serial`: weak fairness of the
runner, of its reader threads and of the clock. `Stdfs`: weak fairness of the
driver, of the main thread of the program, of the clock of a test and of the end
of a process that nothing holds; the deadline of the whole program is not fair, so
that `SuiteReports` rests on the time of each test alone, and nothing says that the
suite, when held, is let go. `Serial` takes it that the runner's own calls on the
mount return (the scratch directory of pjdfstest). Otherwise nothing is assumed of the
tests or the file system: `Reports` and `SuiteReports` name what the code cannot end
as their conditions. `<>[](blocked = {})` and `<>[](~held)` are such conditions, not
fairness: the runner makes finitely many calls, so they say that each of them
returns. The calls before the first worker starts (`symlink_metadata`,
`create_dir_all`) are not modelled. `Fsx` is one
sequential loop and `Fsstress` a bounded one, whose threads never wait for each
other; they have no liveness property.

The runs of `Mdworkbench` and `Mdtest` do not check for deadlock, because these
programs can really stop (see Deviations); `RunEnds` says that nothing else stops
them. Three ranks are needed there: with two, shifts forwards and backwards are the
same. In `fsx` a file of two pages has a page that is not the last one, and four
operations suffice to write, cut, grow and read again. `Slack` is 0: the eight
spare bytes of the buffer are less than a page, the unit of the operations that
could overrun it. In `serial` two lines are what it takes to fall short of a plan
of two or to fail and bail out, and the second test shows what the first left
behind. In `fsstress` three operations of one thread make a directory, something in
it and remove or rename it, while the other thread does the same under the same
names. In `fsmark` two files are the smallest number for which in order and in
reverse differ, and 12 inodes are more than any command line there needs.

Each module has a type invariant or names its types in the comments of its
variables; all of them but those of Mdworkbench and Mdtest are proved, the runs spend
their properties on the hazards.

## Deviations

`RealFailuresFail` (`stdfs.rs` 1273-1276, run `stdfs_rust`): a language fails the run
only with the status `failed`, which `run_rust` gives to a program that does not
compile; failing and wedged rust tests give `fail` and `timedout`, and the run is ok.

Seen while modelling, without a run of their own; the properties are stated so that
they leave out exactly these cases:

- `sqlite.rs` 1086-1092: a task inserted for a client whose row is deleted at that
  moment is never run, and neither `--wait`, which should "wait until all tasks of
  one client (or all clients) are finished", nor the Summary notices.
- `sqlite.rs` 1423-1431: the shutdown loop tests for `SQLITE_ROW`, which
  `sqlite3_exec` does not return; the Summary is read before the clients have
  flushed, and can be clean although an ended task has reported an error.
- `sqlite.rs` 1727, `git.rs` 545, `stdfs.rs` 212: the reader threads are joined
  without a bound after a child that ended in time, so a process of its group that
  holds the pipes keeps the item open past its timeout (the comment at `git.rs` 487
  says that "a timeout can take the whole tree down").
- `sqlite.rs` 1763, `git.rs` 585, `stdfs.rs` 250: before `remove_dir_all_bounded`
  starts its thread it calls `path.exists()` itself, without a bound, so a wedged mount
  keeps the report from coming out, although "the report must still be emitted"
  (`git.rs` 580-583, `stdfs.rs` 245-248) and of the removal the code says "Never let
  that cost us the report" (`stdfs.rs` 1262-1266). `sqlite.rs` 1828-1829 and the spawn with the work
  directory as the current one block a worker in the same way, `stdfs.rs` 1167-1168
  the main thread. `Reports` and `SuiteReports` hold only if such calls return:
  without these conditions TLC finds the runs in which no report comes out.
- `sqlite.rs` 1828: the work directory is named by the stem of a script; an external
  script with the stem of a vendored one that runs at the same time removes its
  database.
- `mdtest.rs` 212-219 and 855-859: with `--unique-dir` the tree is built in
  `mdtest_tree.R/mdtest_tree.0` and looked for in `mdtest_tree.R.0`; every item
  operation fails, is warned about, and the run is ok. With several test directories
  (`-n` and `-I`) `items_start` (943) keeps all but the first from getting files.
- `fsx.rs` 686-690 and 807-808: `fallocate` with `keep_size` grows the shadow,
  `insert_range` moves too few cells and may panic, so that with the default options
  a file system that works is reported as broken.
- `pjdfstest.rs` 955: a file that timed out without a failed assertion is listed as a
  failure and the run is ok; 870: one byte that is not UTF-8 takes all output of a
  file away, and it passes with no tests; 768: `total_tests - total_failed` underflows
  when a script with no other tests stops early; 892: the shell is killed and not its
  children, and the readers are joined without a bound; 978-981: the search for a
  character boundary starts at 0, so the tail may be cut inside a character (as in
  `ltp.rs` 299), which is a panic.
- `ltp.rs` 268-286: a test that writes more than a pipe holds is blocked until its
  timeout and counted as timed out.
- `stdfs.rs` 1175: the time of a rust test comes from the environment or is 120 s,
  `--rust-test-timeout` is not passed on; 1043-1059: tests left out by `--rust-skip`
  are dropped, not "reported as skipped"; five wedged tests use up the default
  deadline of the whole program.
- `fsstress.rs` 141 and 169: `--loops 0` is "infinite until --duration" and runs once,
  `--duration` is "instead of -n" and `-n` still ends a loop; 1104: `-c` also removes
  files that were there before and that `creat` has opened; 327: two threads that
  fault at the same time may write two reports; 329: the handler calls every SIGBUS a
  "concurrent truncate vs mmap race", also one for a page that the file system could
  not allocate or read (650, a hole on a full disk, an I/O error).
- `fsmark.rs` 457: threads are promised the same space and the run fails with an I/O
  error instead of `fsFull`; 389-411: with a small name space (`-p 1 -r 0`), or with
  files of size 0, `-F` never fills the disk and never ends; 380: the time difference
  underflows when the clock is set back (a panic in a debug build); 221: threads are
  raised to the number of directories, where README.md 57 says that "directories are
  raised to the thread count".
- `smallfile.rs` 1245-1247: a thread that cannot make its directories returns
  before the barrier, and the other threads wait for ever. `RunEnds` of Smallfile
  excuses exactly this.
- `smallfile.rs` 1099-1104: swift-put calls `posix_fadvise` on a descriptor that it
  has closed; `OperationsPass` leaves it out.
- `mdtest.rs` 859-861: a tree that is there already ends rank 0 before the barrier
  and the other ranks wait for ever, what the comment at 477 wants to avoid.
- `mdworkbench.rs` 342: with wear-out a rank that leaves by an error counts neither
  as contributor nor as finished, and the others spin for ever.
- `mdworkbench.rs` 366: with wear-out a rank that reaches its number before its own
  timer passes does not take part in the agreement, and the position contributed by
  the others is one too high on the last object; the counts differ although line 61
  says that all threads perform the same number of iterations.
- `fsx.rs` 691: with `--begin-op` the shadow of a preallocation grows and the call
  is left out; 1116: lite mode fills the file up to the maximum but leaves
  `file_size`, so that a shorter file is a size error at once; 1154: `-N 0` is
  documented as "run until --duration" (139) and ends at once with ok; 548-560: the
  search for data behind the end in `domapread` stops where the data that is read
  stops, so it never looks behind the end; 616: the page behind the end is polluted
  before shrinking only; 1144: the operations of `--replay-ops` are loaded and never
  used; `FALLOC_FL_UNSHARE_RANGE` is drawn without a probe.
- `fsx.rs` 26-56: the ring of the random generator has 34 words where glibc's has
  31. It gives 327067126 as the first number of seed 1, glibc gives 1804289383, so
  operation sequences differ from those of C fsx.

## Proofs

The theorems hold for every value of the constants that the named assumptions
(`MptestAssumption`, `RunnerAssumption`, `SerialAssumption`, `StdfsAssumption`,
`FsxAssumption`, `FsmarkAssumption`, `MdworkbenchAssumption`, `FsstressAssumption`,
`SmallfileAssumption`) admit: every script, any number of clients, workers, tests,
threads, ranks, files and operations, every page size and command line, and whatever
an earlier run has left behind. `SmallfileAssumption` says what the code says of
`suite`: without `--operation` the phases are `DEFAULT_PHASES`.
TLC evaluates the assumptions in the runs. Every inductive invariant below was an
invariant of the run of its module before it was proved, where necessary with a
quantifier over all numbers cut to those that occur.

| module | theorem | states |
|---|---|---|
| `MptestProofs` | `TaskClaimedOnce`, `EndsOnlyClaimed`, `NothingLost`, `CountsAreConserved` | `ClaimedOnce`, `EndedAfterClaim`, `NoLostUpdate`, `CountsConserved` |
| `RunnerProofs` | `ItemsRunOnce`, `KillIsSafe`, `JoinNeverPanics`, `OkMeansPassed`, `RunnerKeepsPromise` | `RunOnce`, `KillsOwnChild`, `NoPanic`, `OkIsEarned`, `KeepsPromise` |
| `RunnerProofs` | `LinesAreAttributed`, `ReportIsTruthful` (Stdfs) | `Attributed`, `ReportAgrees` |
| `SerialProofs` | `OkMeansPassed`, `SerialKeepsPromise` | `OkIsEarned`, `KeepsPromise` |
| `TreeProofs` | `ListsMatchTheTree`, `CleanupRestores`, `OnlyOthersCutMappings` (Fsstress) | `ListsAreExact`, `CleanupIsExact`, `BehindEndIsRace` |
| `TreeProofs` | `EveryOperationPasses`, `CutShortByFinisher` (Smallfile) | `OperationsPass`, `CutByFinisher` |
| `FsxProofs` | `ShadowIsTheImage`, `NoAlarmIsFalse`, `OkMeansIntact` | `ShadowIsImage`, `NoFalseAlarm`, `OkIsIntact` |
| `FsmarkProofs` | `RowsAreDurable`, `OkMeansExact`, `FailuresAreCaused` | `RowIsDurable`, `OkIsExact`, `FailureHasCause` |
| `MdworkbenchProofs` | `FifoIsExact`, `CleanupIsComplete`, `OkMeansComplete`, `WearOutIsAgreed` | `FifoExact`, `CleanupLeavesNothing`, `OkIsComplete`, `WearOutAgrees` |

`TypeCorrect`, `RunnerTypes`, `SerialTypes`, `StdfsTypes`, `FsxTypes` and
`SmallfileTypes` are the type invariants; in Fsmark they are the first layer of the
invariant, in Fsstress a part of it, and in Mdworkbench `Typed` is the part of the
types that the proofs need. `RunnerProofs` and `TreeProofs` are each about two
suites, of which the second one's names therefore carry its own.

*Mptest.* The inductive invariant adds to the type invariant: who holds
the lock is in a transaction (`txn`, `commit`, or a body that opened one); the
view of the holder contains `db`, because nobody else can commit meanwhile; a
task in a holder's claim is not yet started in `db`; and a process that has a
task as current is the one that claimed it. `ClaimedOnce`, `EndedAfterClaim` and
the action property `NoLostUpdate` follow. The argument is the lock: without
`BEGIN IMMEDIATE` the view may be older than `db`, and the mutant of
`StartScript` with a plain `BEGIN` shows that both properties then fail.

`CountsConserved` needs more (`CountInv`): the balance of table, processes and open
transaction as an inequality that is strict only after a rollback; that a
transaction never takes counts away and outside `start_script` adds none, so that
its end changes nothing; that a process which is about to halt has flushed; and that
a command which the master has not reached has spawned nobody, so that a new
process starts with counts of 0. The counts of all processes are one sum, of which
each step changes one term (`SumAfterUpdate`).

*Runner.* `Inv` adds: an index below `next` is with exactly one worker or has its
result; an index from `next` on has been touched by nobody; a worker's control
state determines the state of its child; a result of a finished item is what the
status rules say. Refinement of `Batch` needs in addition that a slot is empty
until its worker stores it and that no worker is left when the report is made.

*Serial.* Tests before `cur` have a result and the others none, and a result follows
from what the test printed and how it ended (`Follows`). The lines of each kind are
at most as many as the lines, without which `PjdResult` could be negative. The status
of pjdfstest is that of a sum of failures over all files; `SumOfNaturals` says that
it is 0 only if every file has none. Refinement of `Batch` is by the verdicts.

*Stdfs.* The generated program goes through its tests in order: those before
`current` have one line each, those behind it no thread yet, and exit code 0 comes
only behind the last. A thread that is late answers on a channel of its own, so a line
never moves to another test. The status of go, python and node is `failed` exactly
if an item of theirs was, and the report follows from the statuses.

*Fsx.* Each operation is a function from image to image (shadow, size, file, length,
verdict). The proof shows of each of them that it is `Sound`: it keeps the image well
formed (`good` has `Buf` cells, `disk` ends with the last page of the file) on every
file system; and if before it the two sizes are equal and within the buffer
(`Level`), and on a file system that works the cells below them too, then so they
are after it, no index leaves `good_buf`, and no call or comparison fails
(`Faithful`, `Quiet`). `Level` is needed on all file systems, `Agree` only where
comparisons must pass: that no panic happens on a broken one rests on the sizes alone.
Cells behind the end are left out of the invariant on purpose: they may hold anything,
and an operation that makes the file grow clears them, which is what a leaky file
system forgets. `ShadowIsImage` and `NoFalseAlarm` follow; `OkIsIntact` is about all
file systems and every option, and rests on the checks at the end of an iteration,
which is why in lite mode at least one operation is needed.

*Fsmark.* The invariant comes in five layers, each of which uses those before it.
(1) Types, and what a thread in each control state has made, opened and returned.
(2) Two paths never lead to one file, and an open file has no name but the one it was
opened under. (3) For each stage of each sync method, which files it has dealt with
so far (`Synced`); none that a thread alone has written is dirty. This needs that
nobody else can have removed the file that a thread is writing (`Own`). (4) Every file
that is left is owed by a thread that has still to remove it or has failed, or else,
if files are kept, there are as many as `written` and the names of this iteration
together; at the end of an iteration the rows account for them (`SumOverPart`).
(5) As long as no names have collided, files that are not yet removed have different
names and exist; as long as no space was promised twice, at most one thread
writes; and then it has room for the files that it has still to make (`Room`). So a
call fails by itself only for a cause.

*Mdworkbench.* The barriers keep the ranks in one phase (`InStep`): all at its gate,
all inside it, or all at the end. Five invariants stand on that.
`Wear`: as many ranks have contributed to a wear-out as `contributors` says, and as
many have finished; a rank that has left the spin loop holds the final maximum, which
nobody can raise any more, since all have contributed or finished by then.
`Pace`: without a timer a rank in the loop has not done its number of objects, and one
that leaves it has. `Complete`: in a run without errors the counts of stat and read
are the objects of the phases that are over plus, for each rank, those of its turns and
of its place in the present one. `Fresh`: an object of a queue is below the position up
to which the one rank that makes objects for this queue has come; so no rank makes an
object that is there, however far ranks are apart, and every create and delete that is
counted changes the number of objects by one (`ObjectsConserved`). It is not enough
that a rank does not repeat itself: `ReadRank` and `WriteRank` must be inverse to each
other in every data set (`Partners`), or two ranks would make objects for one queue.
`Fifo`, for the runs in which the FIFO is to be exact: in a
benchmark phase the objects of a queue are those from the position of the rank that
takes them up to `precreate` above the position of the rank that makes them. The
working set is at least as large as the number of objects of an iteration (`Exact`), so
the one rank cannot overtake the other, whatever their pace: that is why `OldestThere`
holds and no error occurs. Only an object that is being written is incomplete, and it
is behind everything that somebody looks for in this phase. In precreate and cleanup
the objects are those up to, or from, the place in the loops.

*Fsstress.* A path is the value of a recursive function over the directories of a
thread. A directory has a larger number than the one it is in (`Tidy`), so the function
has exactly one value and does not depend on other branches: an entry keeps its path
for as long as it is listed, and entries of one list have different paths
(`PathsDiffer`). The invariant says that what a list claims, everything but files in the
base directory, is there (`Present`), and that no directory is in two lists (`Apart`):
mkdir fails for the second thread, and a path below a directory begins with its name,
so that threads meet only in the base directory. For the cleanup, what is there was
there before or has been noted (`Known`), which every operation that makes a name has
to see to, and the sweep goes from long paths to short ones, so that a directory is
empty when its turn comes (`Swept`). A mapping is inside its file unless `cutter` names
another thread (`Mapped`); this is about the files, not about the SIGBUS, which a file
system that fails can raise anywhere.

*Smallfile.* `Control` holds for every invocation and every fault: nobody passes the
barrier before all have come (`Gathered`), a thread in its loop has processed the files
up to its number (`Placed`), its figures were frozen at that number or all of its files
were done (`Figured`), and the stonewall flag was raised by a thread that has gone
through all of its files (`Raised`). `CutByFinisher` follows. `Tracks` is about runs
without faults: the names of a file are exactly those that the last phase to process
it makes (`Made`), whatever the other threads have done meanwhile, because a name belongs
to one thread; the directories of a thread exist from the barrier of the phase that
makes them on, also where thread 0 makes them for all, which is why the barrier is
needed; attributes stay as long as the name. Each of the operations then finds what it
needs; `readdir` because numbers of files in one directory are consecutive, so that a
thread has met as many names as there are when it goes on to the next (`AllMet`). The
state at the start is arbitrary: the first cleanup makes it known.

*Sums.* No theorem about fstest, but the lemmas on sums over finite sets that the
counts above rest on (`SumOfNaturals`, `SumAfterUpdate`, `SumOverPart`). The library's
induction theorems take an operator as a parameter, which the provers cannot
instantiate. `Sums` argues with the least number instead: were there a subset for
which a claim about its sum is false, there would be a smallest one, and taking one
element out of it gives a smaller one. The least number is that of the library's
`WFMin` on the natural numbers.

Only model-checked: all liveness properties (`MasterEnds`, `EveryClientExits`,
`Reports`, `SuiteReports`, `BlockedEnds`, `RunEnds`), because the prover handles
neither fairness nor `ENABLED`; and `ItemsFound` and `NamesRestored` of Mdtest, whose
items are numbered by powers of the branch factor (`item_path`); they are checked on
trees of two levels.

## Not modelled

The text of mptest scripts (tokenizer, `--if`, `--source`, `strglob`), the test
output parsers of git and stdfs, the rewriting of the rust tests, tier and run file
selection, the pjdfstest helper (one system call per invocation), file contents and
their verification outside fsx, rates and timings in reports, random generators, the
vendored scripts, fio and the command line. They are text handling or a thin layer
over a call; where a suite depends on their outcome, the outcome is an input.

## Plan

1. Mptest, Runner and Batch, Smallfile, Mdworkbench, Mdtest and Fsx with runs and
   mutants; theorems of Mptest and Runner (done).
2. Serial, Stdfs, Fsstress and Fsmark with runs and mutants (done).
3. Theorems of Serial, Stdfs, Fsx, Fsmark and Mdworkbench, the counts of Mptest, and
   sums (done).
4. Theorems of Fsstress and Smallfile (done).
5. Properties that are only model-checked and could be proved: `ItemsFound` and
   `NamesRestored` of Mdtest.
