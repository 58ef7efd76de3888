# Koj in TLA+

Koj is an online judge. A Django API (`api/`) takes submissions, charges the
user some priority points, stores a `Submit` row with result `Q` and starts a
thread that sends the task to RabbitMQ and waits for the answer. Judgers
(`judge/judger.rb`) take tasks, compile them, and run them test by test through
`judged`, a C library (`judge/judged/`) that forks the program under resource
limits and compares its output. `judged` also runs as a daemon that takes tasks over a socket. This directory holds
the TLA+ modules of both paths, from the HTTP request or the connection to the
verdict, the TLC runs, and the TLAPS proofs.

## 1. Inventory

| Part | State | Operations | Interacts by |
|---|---|---|---|
| Submit view (`api/views.py:55-92`) | the `User` object it read, the points column, the `Submit` row | authenticate, charge, create, start a thread | database rows; starts an `MQThread` |
| MQ client (`api/mq.py`, `views.py:94-104`) | connection, `response`, `uid`, `sid`, `corr_id` | connect, publish, poll, callback, close | the queues `koj` and `koj-resp`; rows |
| Users (`api/models.py:4-13, 96-100`, `UserViewSet`) | `priority`, counters, token | register, sign in, update | rows |
| Broker (RabbitMQ, external) | queue of tasks, queue of answers, unacknowledged deliveries | route, push, requeue | AMQP |
| Judger (`judge/judger.rb`) | subscription, deliveries, work directory | subscribe, judge, answer, acknowledge, stop | AMQP; calls `judge_json_ret` through FFI |
| `judge.c` | work directory, result record | compile, run, compare | calls the three below |
| `runner.c` | child process, killer thread, rusage | fork, bind killer, wait, decide | signals, the kernel's limits |
| `comparor.c` | two file positions, `diff` | strict pass, layout pass | files |
| `compiler.c` | the length of the source and CE, in the result record | measure the source, run the compile command under a timeout of 3 s | files |
| `utils.c` | a cursor in the request, the strings of the task | parse a task, initialise and print a result | called by the server |
| `server.c`, `main.c` | pid file, socket file or port, the kernel's backlog, request buffer, result record, working directory | start, accept, one read, judge in line, reply, close, stop | sockets, signals; calls `judge` |
| `logger.c` | log file | append a line | files |
| `web/`, seeds, serializers, admin, scripts | no state the judging depends on | - | HTTP |

What is hard here: the client threads share **one** response queue; every row is
read, changed and written back without a transaction; nothing records what a
thread was waiting for when the process dies; a judger answers before it
acknowledges; a delivery that is never acknowledged holds a place of the
prefetch window; in `runner.c` a thread, a child and the kernel race towards
the same verdict; `comparor.c` leaves its loops in the middle of two files that
it then rewinds; the server reads a request once, judges it in the loop that accepts, and
keeps one buffer, one result and one working directory for all its clients, and lets the
programs it judges inherit its sockets; a judger whose connection breaks goes on with tasks that
others have by now;
`parse_task` scans for the next mark without looking for the end of the text; and
nothing keeps a second daemon from starting. `PROJECT.json` lists each of these at its line under
`hazards`, with the properties that watch it.

What makes each part correct: no submission gets lost without one of the known
causes, and a verdict goes to the row it was given for and takes effect once
(client, broker, judger); points are neither lost nor invented (views, callback,
profiles); a task is not dropped before it is answered (broker, judger); AC
means that every test passed, whatever is left in the answer file (test loop);
what `run()` leaves to the comparison is clean, TLE is justified, and `run()`
returns (runner); the loops compute the intended verdict (comparor); a request that
arrives whole is read as the task it says, one that does not is never completed
by the rest of another (parser); an answer depends on its own request only, whoever
asks is answered, and a daemon that runs alone is reachable (server).

## 2. Modules

```
PriorityPolicy            points: charge, reward, clamps
  |-- SubmitService       abstract: what a row of Submit goes through
  `-- Broker              RabbitMQ as Koj uses it (external)
        |-- Api           submit view, MQThread/MQClient, updates of a user, API faults
        |-- Judger        start, deliver, judge, answer, ack, park, crash, lost connection
        |     `-- JudgerService   the judgers alone, fed by any client
        `-- Koj = Api + Judger + Push   (refines SubmitService)
              `-- PriorityLedger        Koj with an exact ledger beside it
JudgeTask                 one task: test loop of judger.rb, judge.c
Runner                    run(): parent, killer thread, child, kernel
Comparor                  compare(): two passes over two files
TaskParser                the text of a task, parse_task()
  `-- Server              judged as a daemon: instances, clients, kernel
```

`MCKoj`, `MCLedger`, `MCComparor` and `MCServer` give the constants of the runs their
values. The theorems are in `KojSafety <- KojRefinement`, `JudgerServiceProofs`,
`JudgeTaskProofs`, `RunnerProofs`, `ComparorProofs` and
`TaskParserProofs <- ServerProofs`.

**Correspondence.** A submission, its request, its client thread and its
correlation id stand in bijection and are one member of `Requests`. `pc[r]` is
the place in the view and then in the thread; each database call or AMQP call
is a step. `snap[r]` is the `priority` of the `User` object in memory, which
`SaveCharge` and `SaveReward` write back as the code does with `u.save()`.
`inbox[r]` holds what the broker has pushed to the socket, `batch[r]` what
`process_data_events` has read and not dispatched. `parked[j]`, `current[j]`
and `buffer[j]` are the unacknowledged deliveries of a judger: those whose block
ended without `acknowledge`, the one being judged, and those waiting. A crash, a
stop or the loss of the connection puts them back in front of the queue. A process
that lives on after the loss keeps the blocks that were running or waiting:
`outdated[j]`. Nothing in `judger.rb` tells them that their delivery is no
longer theirs, so each of them may still judge and publish (`AnswerOutdated`) or end
without a word (`DropOutdated`), at any time and beside what the new connection
brings. How far Bunny's pool of one thread lets the two overlap is not in `src/`; the
model allows every overlap. An update of a user (`EditLoad`, then `EditSave` or
`AssignPriority`) writes back the priority it has read, or the one of the request,
which any client may send (`views.py:8-10`); above 255 a later submission ends in an
exception, as a priority is one octet (`PriorityOverflow`). `raised` has the users for whom
a client has ever written more than the cap. `lost`, `published`,
`redelivered`, `raised`, `ledger`, `raced`, `endAt` and `struck` are history and are never
read by a guard. In `JudgeTask` the directory order is a free choice, the
outcome of a test is a constant of it, and `ans` tells whose output is in the answer
file, which may be there from an earlier delivery: `compare()` finds that outcome in the output of the
test's own run, and anything in any other. The `rescue` of `judger.rb:189-191` cannot
run, since `stringify_result` always writes a result, and is not an action. In `Runner` time
advances in ticks, and the child may compute or sleep in each. The killer reads
its argument through a pointer to a variable whose block is over; until
`wait4` has returned the bytes are still there, afterwards they may be anything,
which is the disjunct `aim = "unknown"`. The child may end by itself with any of the
signals that `runner.c:88-101` tells apart, SIGXCPU and SIGSYS included; the kernel, which
is given one number for the soft and the hard limit, uses SIGKILL. In `Comparor` a byte is visible, blank
(what the strict pass forgives at the end) or other.

In `TaskParser` a text is a sequence of tokens: the marks `parse_task` looks for (quote,
brackets, comma, colon) and the runs of characters between them (`Words`). `Text` is what the
clients write, `Scan` what the code reads, and the cursor `Lost` stands for a scan that
has left the text: what happens from there on is undefined. In
`Server` an instance is a process, started at most once; a restart, or a second daemon
by mistake, is the start of another instance. `buf[s]` names what is in `task_buf` as
pairs `<<client, number of tokens>>` instead of the tokens themselves. `Recv` takes what has
arrived, up to the buffer. `Judge` is `parse_task`, `init_result` and `judge` in one
step, since nobody but the process sees what is between; it computes with the functions `Compiled`,
`Ran` and `Judged`, which follow `compiler.c`, `runner.c` and `judge.c` line by
line, and chooses in `fate[c]` what becomes of source, compiler, program and
output. `pc[s] = "run"` is a program without a limit of the real time that does not end.
A text the parser runs away on gets any verdict of `Astray` and leaves any directory, or is
judged without an end (`Derail`), or ends the process (`Fault`). No socket is closed on exec,
so the programs an instance starts, and what they start, have its listening socket and the connection
of their own client. `strays` are those that nobody waits for any more: a program that stopped itself
(`WUNTRACED`), what a compiler or a program has left behind (`MayStray`), and the program at work
when its instance is stopped (`Stop`). They end whenever they like (`StrayEnds`). `End` is what the kernel
does when a process is gone: a port with the connections on it stays as long as a stray holds it
(`Release`) - it takes clients up to the backlog and accepts none -, and becomes free after that; what nobody holds is
reset; a socket file stays. `overlapped` and `fate` are history.

**Abstractions.** Faults (an exception in a thread, the death of the API
process or of a judger, the loss of a judger's connection, an exception in its block) share the budget
`MaxFaults`. Results carry the verdict only; time, memory and code length follow
it in `JudgeTask` (time) or not at all. `RLIMIT_*` other than CPU appear as the
signal the child ends with; of the test of the usage (`runner.c:103-111`) the two times
are computed, memory is a free choice, and the output is never above the limit, which is that of
`RLIMIT_FSIZE`. The server
does not handle `SIGUSR1`, so a failed set-up ends the child; see the hazard at
`runner.c:253` for the Ruby process. A user is there from the start, with the priority that
a registration may have set. A requeued delivery goes to the front of the queue: for one
judger that is the place it came from, for several it may pass what another one had before. In
`JudgeTask` the call of `judge()` has the task it was given; how the text of a task is read is the
subject of `TaskParser`, and a language without `envp`, whose text the parser runs away on
(`server_envp`), is not in the loop. A text that the parser runs away on may write over
memory of the server beyond the result and the directory, or end it: the first is
not modelled beyond one request. Each client of `Server`
makes one connection and one request. No string of a task has a quote or a backslash
in it, and no field is longer than the 256 bytes of `tmp`.

## 3. Runs

| Run | Shows | Instance |
|---|---|---|
| `koj_safety` | `NoSilentLoss`: a row at `Q` is on its way, its thread failed, or it went through one of three leaks (unroutable, misrouted, discarded); `AnsweredBeforeGone`: a queued task leaves only after an answer; `VerdictProvenance`; `PriorityBounded`: points stay under the cap unless a client wrote more; `SerialUsersExact`: points equal the exact ledger unless two windows on the row overlapped; `ImplementsService`; types | 2 submissions of a user with 100 points whose row is also updated, with a priority of 156 or none, 1 judger, prefetch 1, 1 fault |
| `koj_live` | `AppliedOnce`: a second effect needs a judger that died between answer and ack, or lost its connection; `EventuallySettled`; `NoSilentLoss` with a refused task; types | 2 submissions of a user with 3 points, one unsupported, 2 verdicts, 2 judgers, 1 fault |
| `judger_flow` | `AnsweredUnlessWedged`, `WedgedForGood` | 1 judger, prefetch 3, 4 tasks, 3 unsupported, 2 faults |
| `judge_task` | AC only if every test passed, verdict of the first failure, peak time, with any file left at `ans` | 3 tests and another file, two times |
| `runner` | `ComparedIsClean`, `TimeLimitJustified`, `Returns` | limits 500/1500 ms, tick 250, every system call may fail |
| `comparor` | `AcceptIsExact`: AC = exact match then blanks, for all bytes; `VerdictIsReference`: AC, PE and WA as the comments of the two passes say, for plain files - visible bytes and blanks only; termination | every pair of files of up to 3 bytes over two visible bytes, a blank and another |
| `server` | `ParsedAsSent`: a judged task is the one its client sent; `WholeNeverDerails`: the parser finds the end of a whole request; `AnswerIsOwn`: the answer depends on that request alone; `SoleInstance`: an instance beside no other is where clients and the pid file say; `Served`: who has sent a whole request is answered | 2 instances, 2 clients, both transports, programs that outlive their instance; one task is compiled in an absolute directory, the other runs without a real-time limit in a relative one, arrives in two parts and is longer than the buffer |

Five runs show where the code does not do what its text says; TLC finds a
counterexample to each:

| Run | Text | Code |
|---|---|---|
| `koj_misrouted` | `('Q', "Judging")`, `models.py:76` | an answer handed to another client thread is consumed there (`mq.py:18-23`); the submission says "Judging" for ever |
| `koj_priority` | `# Priority Strategy`, `views.py:68` | `koj` is declared without `x-max-priority` (`judger.rb:81`), so priorities have no effect |
| `server_envp` | `envp` is a list that may be left out, `conf/languages/README:28` | `judger.rb:151-153` then sends `[null]`, and `parse_task` (`utils.c:147`) skips its `n` for a quote and runs past the end of the text |
| `runner_fraction` | "ms, user_time + sys_time", `types.h:55` | the kernel limit is cut to whole seconds (`runner.c:188`): TLE for 1000 of 1500 ms |
| `runner_astray` | "bind child a killer", `runner.c:39` | the argument is dead when the thread reads it (`runner.c:42-45`), and `kill` may follow `wait4` (`runner.c:61-62`) |

More disagreements are visible in the definitions, not in runs of their own. The second pass
of `compare()` leaves out every byte outside 33..126 (`comparor.c:44`, `48`), where `comparor.c:41`
speaks of "other blank chars": two texts that differ in their UTF-8 characters only come to PE,
and a tab, which the second pass leaves out between two words, makes it WA if it stands in
what is left of one file after the other has ended (`comparor.c:53`). `VerdictIsReference`
is stated for files without such bytes, where comment and code
agree; `ComparorProofs` also has what the code does for all files (`VerdictAsRead`), from which the theorem
follows. Others are an unroutable task (`mq.py:58`, a cause in `NoSilentLoss`), a child that stops
itself and is compared unfinished because of `WUNTRACED` (the
`status = "stopped"` of `ComparedIsClean`), and lost updates of the points (the
exception in `SerialUsersExact`).

**Bounds.** Two submissions are what misrouting, overlapping windows and
requeueing need: each involves one pair. One fault
reaches every recovery path, the two of `judger_flow` one during another; a judger that has lost
its connection and the same one connected again are already two at work on one task, and `koj_live` has a
second one to take over. `koj_safety` has a prefetch of 1, so that
one submission waits in the queue while the other is judged; with 2, in `koj_live`, one judger may hold both,
and the run about the window itself uses the 3 of the code. 3 points are below one charge, and with 100 points a
reward is above the cap once a charge is free, so both clamps act; 156 plus the bonus of a contest is
one more than an octet holds. `Outcomes` has the verdicts that the
property of the run tells apart. Three bytes are the shortest files in which
equal prefix, difference and rest are all non-empty. `MaxTime` lies beyond
the killer's 1.1 x the real limit; from there on time is "late" and a sleeper
wakes whenever it is scheduled. 500 ms stands for a limit below the
one-second grain of `RLIMIT_CPU`, so that both the kernel and the test of the
usage decide. `BufSize` stands for the 1024 bytes of `TASK_JSON_BUF_SIZE`: at 137 tokens the
first text fits and the second does not, and the cut at 60 leaves the second a
fragment. `ExecArgc` is the 32 of the code; no list of a run comes near it. Two instances are what a
restart or an overlap needs, and two clients what one needs to leave something to the other;
the kernel's backlog has room for both.

`Astray` has one verdict,
which no task of the run gets otherwise. No run uses symmetry. `koj_safety` takes one verdict
because its properties do not compare verdicts of different judgings; `koj_live` has two for that.

**Deadlock** is not checked: Koj stops when all requests are final
and every queue is drained, `compare()` and `run()` end, and every instance of the
server may be stopped.

**Fairness.** `Koj`: each started view and client thread, the
collection of sockets of dead threads, the broker's push and every judger step -
a restart by its operator included - are weakly fair; threads are scheduled by
the interpreter, and the broker serves its queues. The arrival of a request
and faults are not. `Runner`: the parent's steps other than failures, the killer, the kernel's kill
and time are weakly fair; the child is not, it may do nothing for ever. `Comparor`: the
thread runs. `Server`: a process that serves is scheduled; that no instance has to be
started or stopped, no client has to write or leave and no program has to end is why `Served` excepts a
client that leaves, is reset or keeps sending, and one that waits behind a silent client
or a program that never ends, also with the port of an instance that is gone: the loop of `server.c` has no
timeout that works.

## 4. Proofs

All proofs hold for every value of the constants that satisfies the named
assumptions (`FaultsAssumption`, `ApiAssumption`, `JudgerAssumption`,
`LimitAssumption`, `TaskAssumption`, `ByteAssumption`, `ParserAssumption`,
`ServerAssumption`, `TextAssumption`) and, where it is said, of the hypothesis of the theorem.
TLC evaluates the assumptions on every run.

* `KojSafety`: `TypeInv` is `TypeOK` and what types alone do not say (a batch only holds
  responses, a judger that is judging has a current task), one lemma per part,
  one step per action, one leaf per variable; `TypeOKHolds` follows. `PriorityBounded` is inductive given `TypeInv`, because it also speaks
  of every copy that will be written back; what a client writes above the cap puts the user into
  `raised` with the same step. `LedgerInv` joins the ledger's types
  with the equality of points and ledger for each user whose windows have not
  overlapped; a save that writes back a snapshot keeps it because within such a window the
  snapshot is still the row. It gives `SerialUsersExactHolds`. `VerdictProvenance` is not
  inductive: the strengthening `ProvInv` says that every message anywhere between
  broker and callback was published.
* `KojRefinement`: `TaskInv` says that no queue or judger holds a task twice, no two
  hold the same one, and none is held before it is published; requeueing and delivery then
  move a task and never copy it. What is in `outdated` is apart from that, a second copy
  of a task. `GoneInv` adds that what was published and is
  nowhere any more was unroutable or has been answered (`AnsweredBeforeGoneHolds`), `SafeInv` that an
  answer that has been given is on its way, stored, or in one of the leaks, and that a
  batch is empty outside the callback (`NoSilentLossHolds`). `RowInv` says that
  whatever has a task has a row; with it every step of `Koj` is an `Open`, `Judge` or
  `Record` step of `SubmitService` or leaves row and answers alone, so
  `Spec => ImplementsService`. `OnceInv` follows the one answer of a submission that was
  never queued again after it was answered: it exists nowhere before it is given and nowhere after it
  is stored, so no second one can be stored (`AppliedOnceHolds`); `OutdatedInv` says that what an outdated
  block may answer is in `redelivered`.
* `JudgerServiceProofs`: `WedgedForGood` speaks of two moments, so its proof is that of an
  invariant between them. `Window` says what a judger may hold in each state. The line of a
  judger is what it holds, oldest first, and the queue behind it; `Clogged` says that the
  judger works on nothing and as many tasks as fill its window, from the front of the line,
  are unsupported. A wedged window clogs the line (`WedgeClogs`); delivery, refusal,
  crash and restart leave the line as it is and an arrival makes it longer (`ClogStep`), so
  that no judging begins and nothing is published any more. It holds for one judger: with
  two, the other one may go on. It is also said of a moment at which the judger has nothing `outdated`: the
  blocks of a lost connection could still answer.
* `RunnerProofs`: `IInv` adds that no clock is ahead of `now`, that the child is at rest
  once `wait4` has returned, and that the measured time reaches to its
  end. `ComparedIsClean` follows for every limit. `TimeInv` gives `TimeLimitJustified`: the
  killer that is aimed at the child wakes after the limit, and the reason for a SIGKILL,
  once there, is still there when the parent has measured the time. A program that raises SIGXCPU
  itself gets TLE from `runner.c:88` whatever it has used, and is excepted with the one that somebody else killed. It takes
  `WholeSeconds`, that the CPU limit is of whole seconds or no more than one, as a hypothesis:
  for others it is wrong (`runner_fraction`). `LimitAssumption` asks `MaxTime`, where
  the model stops its clock, to lie a tick beyond the limit of the real time.
* `JudgeTaskProofs`: `IInv` says that before a failure all visited tests passed
  and the result shows it, and afterwards names the test that decided, and that `compare()` is only
  reached with the output of the run at hand in `ans`. It gives
  `AcceptedPassesAll` and `VerdictOfFirstFailure` for any number
  of tests in any order; `PeakInv`, that the peak is that of the tests counted so
  far, gives `TimeIsPeak`.
* `ComparorProofs`: `PassInv` says what the prefix and the extra loop have
  established at each position; `AcceptIsExact` follows for files of any length. `LayoutInv`
  follows the second pass: as long as it compares, the visible bytes read of both files
  are the same; once one file has ended, it knows whether any were compared and whether
  they were alike. It gives `VerdictAsRead`, the verdict by the visible bytes for all files, and on plain files
  `VerdictIsReference`. The reference picks the visible
  bytes of a file out by a recursive function. The induction theorems of the library take a predicate as
  a parameter, which no installed prover instantiates; `LeastNumber`, from the
  well-foundedness of strict subsets, and `Induct` say the same of a *set* of numbers,
  and with them the facts about `VisibleUpTo` are proved.
* `TaskParserProofs`: what `parse_task` does to the texts of its clients. `PlainTask` are the tasks the
  parser is made for: no string holds a quote; a list is not empty, leaves
  room for the final `NULL`, and none of its elements begins with a closing bracket, which the
  code takes for the end of the list. `ListAt` and `TextAt` say what stands at which
  position of a text, `ReadNumberAt`, `ReadStringAt` and `ReadListAt` what the three loops make of it, by
  induction over the elements of a list and the sixteen members of a task: `WholeRead`. The lemmas
  ending in `Front` compare the scan of a text with that of a front of it, step by step: both are at the same place, or the scan of
  the front is `Lost`. That gives `FrontRead`, for a text cut at any token.
* `ServerProofs`: `TInv` is `TypeOK` and two facts about what was sent and who is held.
  `SoleInv` says why an instance beside no other owns pid file and endpoint: a socket file
  is unlinked before `bind`, a port is held by its process or, after its end, by what that has
  left running, and whoever else ran would be in `overlapped`. `SoleInstanceHolds` is for any number of instances.
  `JudgedIsDue` is the arithmetic of `judge()` from a fresh result: for
  every task and fate it comes to what is due. `Places` says that a connection is
  in one backlog or with one instance, `OwnWork` that an instance at work
  has the text and the result of the client it holds. `ParserIsRight` brings in the two
  theorems about the parser. `ParsedAsSentHolds`, `WholeNeverDerailsHolds` and `AnswerIsOwnHolds` follow for
  any number of clients, instances and cuts, under the hypothesis that every task is in
  `PlainTask`; `PlainAssumption` has TLC check it for the tasks of the run `server`, and
  `server_envp` shows what becomes of a task that is not.

Only model-checked: liveness (`EventuallySettled`, `AnsweredUnlessWedged`, `Returns`,
`Terminates`, `Served`), which the provers do not reach. All other properties of the passing
runs are theorems.

## 5. Not modelled, and the plan

Not modelled, and why:

- registration, sign-in and the read-only views (no effect on a submission); the web
  front end, seeds, admin and scripts; profiles and the log files, which
  nothing reads; printing and the self-tests of `judge.c` and `utils.c`;
- `binding/Ruby/judge.c`, a sample extension that has nothing to do with judging
  (the judger goes through FFI), and `seccomp_rules`, which is never called;
- escapes of JSON and fields beyond the 256 bytes of `tmp` in `parse_task`: what happens
  behind such a buffer is undefined, as it is for `Lost`; strings that are never freed
  (`free_task` is called by a self-test only);
- a restart of the broker: nothing in `src/` says how it is run or which of its queues
  survive; a second request by one client of the server, which is another client.

The order of work was: points, broker, API and judger as one system with its
abstract service; the ledger; what happens inside one task; the proofs of what is
promised of tasks and answers; the parser and the daemon. What is left would be:

1. The files of a work directory that two deliveries of one task share, one of them
   outdated (`judger.rb:114-116, 204`): what `rm -rf` and `ans` of the one do to the other.
2. A failed set-up in a process that handles `SIGUSR1` (`runner.h:18`,
   `runner.c:253`): what the Ruby process does with it is outside `src/`.
3. Accounts: registration with `create_token` (`models.py:96-100`).
