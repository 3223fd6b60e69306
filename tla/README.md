# A verification project for GenoM

GenoM generates *modules*: server programs of a robot's functional level, made
of one control task and some execution tasks that run the user's *codels*.
What happens inside a module is decided by the templates of
`src/canvas/server/`, which the generator instantiates for each description.
This directory holds TLA+ models of the modules, of their clients, of their start
and of the generator itself, TLC configurations that check them on small
instances, and TLAPS proofs for instances of any size.

## 1. Inventory

| Part | Source | State it keeps | Operations |
|---|---|---|---|
| Shared data (SDI) | `include/genom/modules.h`, `lib/genomModulesLib.c` | activity table, counters, task status, flags, `INIT_RQST`, two semaphores | take, give |
| Control task | `canvas/server/cntrlTask.c` | `NbZombie`, `LastActivityNum`, `LastAbsolutActivityNum`, `SignalAbort` | one cycle: internal events, requests, launches; abort, resume, end, SIGTERM |
| Execution requests | `canvas/server/requestExec.c` | inputs in SDI\_F | check, allocate, control codel, interrupt the incompatible activities |
| Control requests | `canvas/server/requestCntrl.c` | – | check, interrupt, control codel, answer |
| Execution tasks | `canvas/server/execTask.c` | position in the loop, number of activities seen, `wakeUpCntrlTask` | wait, permanent codels, codels and their transitions, posters, suspend, stop |
| Start and stop | `canvas/server/moduleInit.c`, `scripts/killmodule` | pid file, semaphores, pipe to the starter, mailbox | spawn, wait, clean up, kill |
| Clients | `msgLib.c`, `msgExec.c`, `msgCntrl.c`, `connectLib.c`, `init.c`, `tcl/`, `tclservClient/` of `canvas/server/` | request ids, replies received, reports | send, poll, wait, abort |
| Test program | `lib/testLib.c`, `test.c`, `testExec.c` | table of slots, number of requests on | menu, fetch the input, send, receive, abort, end |
| Posters | `posterLib.c`, and what `posterLibGen.c` writes | copies of members of SDI\_F | create, update, read, find |
| Generator: description | `src/parser.y`, `src/genom.c` | lists of types, requests, posters, tasks | parse, resolve, check |
| Generator: emission | `src/*Gen.c` | the files written | one function per file |
| Generator: run | `main` of `parser.y`, `src/extern_processes.c`, `canvas/start.pl`, `end.pl` | stamp, `.genom`, the files of the user | options, `pkg-config`, cpp, regeneration, Perl script |
| Data in text, XML, byte order | `lib/print.c`, `scan.c`, `printXML.c`, `h2endian.c` | – | conversions |

How they interact. Inside a module: the **SDIs**, under a pair of semaphores
taken and given together; **h2evn events**, one pending event per task; the
**request mailbox** of csLib, which wakes the control task; **replies**, an
intermediate one with the activity number and a final one; **posters**, which
readers read without the lock. Between processes: the mailboxes, the pid file,
the pipe by which a module in the background answers the one that started it.
In the generator: the lists of the description, marked and rewritten by
each pass before the next one walks them, and the files of the module's directory.

What is hard:

- The control task and the execution tasks both write `ACTIVITY_EVN` of a slot:
  one asks for interruptions, the others store what codels return.
- The lock is released in the middle of a section by a codel
  (`GENOM_UNLOCK_SDI`) and by `Suspend`, which gives it before `taskSuspend`.
- Slots are reused, and `ACTIVITY_TAB_INCOMP` and the activity numbers name
  activities of the past.
- A task sleeps on a single pending event, whatever the number of reasons.
- Codels may loop, fail, ask for a forbidden transition.
- `End` and SIGTERM arrive at any time; clients leave with replies unread.
- A non-reentrant request shares one input and one output between an activity
  and the one that interrupts it.
- A start has a dozen steps that may fail, with threads already running.
- The generator decides what to regenerate from dates, and what to declare, call
  and number from marks set in several passes.

`PROJECT.json` lists the hazards at their lines, with their properties.

## 2. Modules

| Module | What it is |
|---|---|
| `SDI` | the state shared by the tasks, lock, events, replies; constants and their assumptions |
| `CntrlTask` | the control task and the request handlers, one action per handler and outcome |
| `ExecTask` | the execution tasks, one action per step of the loop |
| `GenomModule` | the two composed, with clients, external events and SIGTERM; the properties; the refinement |
| `ActivityService` | abstract specification: what a module promises its clients; `GenomModule` implements it |
| `GenomClaims` | what the documentation says and the code does not do |
| `CsClient` | the exchanges of csLib, and the module as its clients see it |
| `TestProgram` | the interactive test program |
| `ClientLib` | C library, two Tcl libraries, init program |
| `GenomClients` | the three composed |
| `Startup` | main thread, control task and execution tasks of two processes of the same module, the starters, killmodule |
| `RequestData` | where inputs and outputs of activities are, and when they are copied |
| `Posters` | `RequestData` with the posters of a task and their readers |
| `GenomRun` | a run of the generator, its processes, its script, the user |
| `Genfile` | the parser and the resolution of a description |
| `CodeGen` | `Genfile` and the generators, one action per file |
| `MC*` | values of the constants for TLC |
| `GenomModuleProofs` | proofs: types, incompatible runs, the init request, the books of the control task |
| `GenomServiceProofs` | proofs: the replies, the refinement of `ActivityService`, the lock of the SDIs, the transitions of the activities, the wake-ups |
| `ActivityServiceProofs`, `PostersProofs`, `StartupProofs`, `GenomClientsProofs`, `GenomRunProofs`, `CodeGenProofs` | proofs about the module each is named after |

### The tasks of a module

`act[i]` is `activityTab[i]`: `status` and `evn` are `ACTIVITY_STATUS` and
`ACTIVITY_EVN`, `incomp` is `ACTIVITY_TAB_INCOMP`, `id` is `ACTIVITY_ID`, `rqst`
the letter, `type` the request number. `taskStatus`, `taskNbActi`, `wakeUp`
are the fields of an execution task descriptor; `suspending` and `suspended`
say whether a task is before or inside `taskSuspend`. `exec[t]` is the
position of a task in its loop with the loop's variables, `cntrlPc` that of the
control task.

The control task takes the SDIs in `CntrlIntEvnExec` and gives them in
`SpawnActivities`; requests are served in between, one action each
(`Serve` is the receipt, then one action per outcome: `RqstExecRefused`,
`RqstExecCodelError`, `RqstExec`, `RqstCntrl`, `RqstAbort*`, `RqstResume`,
`RqstEnd*`). An execution task's loop is `ExecWakeUp`, `ExecTake`, then
`ExecSkip` or `ExecCallUserFunc` per slot, `ExecCodelReturn` or `ExecForbidden`,
and `ExecEnd`. A codel call is two steps, so that a codel that unlocks the SDIs
(`GenomGiveSDIs`, `GenomTakeSDIs`), and a task resumed without them, are
interleaved with everything else.

What is abstracted: the two semaphores are one lock, as they are always taken in
the same order and given together. The mailbox is two counters: letters are
served in the order they were sent, all those pending in a cycle; what a
request is (its type, the number of an abort) is chosen when it is served. A
pending h2evn event is a Boolean. What codels return is a constant,
`CodelResults`, a set per state. A codel, a handler or a scan that holds the
lock is a step; tasks that run *without* the lock after a suspension interleave
at those steps, not at single memory accesses. In `CntrlWaitEnd` the tasks are
awaited in any order. `DisplayExecTasks`, measured times, printing flags and the
control poster are left out. So are the codel a task may wait with in the place of h2evn
(`codel_task_wait`, `execTask.c:180-184`), and the failures of h2timer, h2evn, that codel and
the semaphores, after which a task suspends itself without giving the SDIs (`Suspend(FALSE)`,
`execTask.c:176-189`, `261-265`, `441-445`; the same in `cntrlTask.c`): these are failures of
h2evn and of the semaphores, not of a codel, and no property is claimed of a module where one happens.

Bounds: `MaxRqst` (requests), `MaxActivities` (slots; 60 in `modules.h`),
`AbortArgs` (numbers given to the abort), `SigTerm` (a SIGTERM may come),
`JunkIds` (what a never used slot holds in `ACTIVITY_ID`).

### Clients

`exch` is the sequence of requests sent; an index in it is a request id. Each
has its stage on the server's side, the fate of its two replies, and whether the
client still holds its request id (`open`). `csClientRqstSend`,
`csClientReplyRcv` and `csServReplySend` are modelled from their use, and their
map entries are external: a receive that blocks waits for the reply it was
asked for, the timeouts being infinite (`TIME_WAIT_REPLY`, `msgLib.h:43`; `TEST_TIME_WAIT_REPLY`,
`testLib.h:110`). The module is reduced to what a client can tell: it serves in
order, accepts an execution request (`waiting`), acknowledges it when its activity is
launched, ends it later, refuses END while it has activities and goes on, or suspends
itself when a reply cannot be sent (`Answer`, from `ReplyAndSuspend`). An activity
that failed was answered and stays until it is aborted: END may be refused then too.

`TestProgram` has `acti[]` (`slot`), `nbRqstOn`, and one record for where the
program is: the function, slot, request, and the request whose input it fetches.
`ClientLib` has one record per caller: function, request id, status, report. A caller has one
request in progress at a time. `Report` follows the functions one by one, for they do not
agree on the report of a request that succeeds: `ReplyRcv` and the control `RqstAndRcv` clear
it after the reply, the other `RqstAndRcv` before the request, and `AbortReplyRcv` never.
Bound: `MaxSent`, the requests sent by all.

### Start

One variable per thread kind: `main[p]`, `cntrl[p]`, `exec[p][t]`, and the
semaphores are implicit in them (a thread "gave" when it is past a point). The
two starts of `Procs` share the pid file and the mailbox name. A step that may
fail in the code has a disjunct that goes to `error`. `TaskInitError` is two
steps, since the SDIs are deleted while the tasks spawned so far still run, and
`TaskFaults` is what the operating system may do of a task that uses them then.
`Careful` says that clients and killmodule wait until a start is over; shell options,
`h2initGlob` and names of devices are left out (killmodule removes every device whose name contains that of the module,
and other modules may have such ones). (In `main`, option `-e`
falls through into `-s` and always ends in the usage message; it is left out.) The activities
of a module are one Boolean per task, an activity to start: END is refused while there is one. What
refuses it later, an activity that goes on, is that `EndRequest` need not come.

### Data and posters

A value is the request it comes from: `input[z]` is the request whose input was
copied last into zone `z`, `output[z]` the one whose codel wrote last. A zone is
the type for a non-reentrant request and the slot for a reentrant one (`Zone`,
from `reentrant` and the arrays the generator adds). The control task has its cycle, under the
lock (`holder`): the replies of what ended, at most one request, whose input is copied at once and which interrupts
what it is incompatible with (`incomp`, the slots noted then), and the launches. Every final
reply carries the output zone, whatever became of the request (`SendFinalReply`). A request
takes any free slot, where the code goes around the table; codels that fail and the activities
that become `ZOMBIE` are left to `GenomModule`.

`turn` is where the task is in its loop: its codels first, in the order of the slots, then the posters, written
member by member. A codel, or a permanent one, may give the SDIs and take them again
(`ExecUnlock`, `PermanentUnlock`, `ExecLock`), and the task may stop for good before its posters are up to date, without the lock
(`Suspend`; the resume is in `GenomModule`). The loop may leave activities to the next turn, which the code does when
more came than it had counted. A reader takes no lock. Its record keeps the identifier and the byte order of the
poster apart, for `PosterInit` may record the first and fail to get the second, after which reads go on;
the order the poster library leaves then may be either.

### Generator

`GenomRun`: a `version` numbers what the user wrote; `age[s]` compares the date of
a source with the stamp's. A run goes through `pc`; the child `pkg-config` and
the pipe are two counters. `Patient`, `SameSecond`, `CopyFails` and `Relative` name the
circumstances under which the regeneration by dates is wrong, or codels are lost. The
script saves a file of the user and overwrites it in two steps, the second whatever the
status of the first (`start.pl:88-97`), and a kill may come in between. It runs under
`system()`: when genom is killed it goes on by itself (`orphan`). It is assumed that nobody starts
genom again in a directory where a run, or its script, is not over: two scripts at once are not modelled.

`Genfile` parses a sequence of declarations by the actions of the grammar, whose
right-recursive lists are built from their end, then has one action per item
resolved (`ResolveRequests`, `ResolveUse`, `ResolvePoster`, `ResolveTaskInput`, ...).
`CodeGen` has one action per generator, in the order of `main`; each reduces a
file to what other files must agree with: numbers, sizes, functions defined,
functions called, types declared, tables. A type is a tag of a structure, a basic type or
the object of an alias: a typedef of a basic type is that type (`AliasType`), a typedef of a name declared
before is an object of its own, which all the members of that type share (`TrouveType`), where each member of the type
of a structure has one (`Sharing`). That is why a way into the SDI that a request gives frees
the object of an alias under the other members (`Fate`). Arrays, strings, enumerations,
unions and members declared `struct X` are left out, and so are import blocks inside import blocks, which the
grammar would take. What a `.gen` file may be is stated once: `Declarations` has the fields
and values of each kind, `Words` the words they are made of, and `FilesAssumption` says
that import blocks are closed and hold typedefs only, and that the aliases are sound (`AliasesSound`): no two
have one name, none is of itself or of a type declared later, and the SDI is neither an
alias nor a basic type. `MCCodeGen` enumerates the
descriptions: a base, in which the names of typedefs are distinct, every choice of some requests, types, posters, tasks and of one mistake; some of the choices of types are typedefs of names and of basic types, and `MCAliases`
holds these only.

## 3. Runs

The module of the first four runs has the execution requests `goto` and
`track`, mutually incompatible (`goto` also with itself), the control request
`stop` that interrupts both, and in `service` the init request `setup`; its tasks
are `motion` (aperiodic) and `servo` (periodic).

| Run | Checks | Bounds |
|---|---|---|
| `requests` | `TypeOK`, `CountersExact`, `ReplyProtocol`, `IdDesignatesActivity`, `NoIncompatibleRun`, `NoCircularWait`, `NoLostWakeUp`, `MutualExclusion`, `LegalTransitions` | 2 tasks, 2 slots, 3 requests, aborts 0 and 1, codels that unlock |
| `faults` | `EveryRequestServed` | 2 tasks, 2 slots, 2 requests, forbidden events, failing permanent codel, resume and flags |
| `service` | `InitRqstAlone`, `EndLeavesNothing`, `ImplementsService` | 1 task, 2 slots, 3 requests, init request, refusing control codels, abort, End, SIGTERM |
| `liveness` | `EveryRequestAnswered`, `InterruptedEnds` | 2 tasks, 2 requests, an activity that goes on or sleeps for ever |
| `abstract` | `NoConflict`, `OneFate` of `ActivityService` | 4 requests |
| `clients` | `SlotsAgree`, `FetchIsOver`, `ReportIsTheModules`, `InitIsTrue`, `SuspendedByLeaver`, `MenuComesBack` | 2 slots, 3 requests, each pair of clients that share something |
| `startup` | `ReadyMeansUp`, `SdiAlive`, `StartSignalled`, `StartSettles`, `StarterReturns`, `KillCures` | 2 processes, 2 execution tasks, killmodule again and again |
| `data` | `InputIsOwn`, `OutputIsOwn`, `ReadIsComputed`, `ReplyAfterPoster` | 3 requests, 2 slots, a non-reentrant type and a reentrant one whose codels unlock, 2 members, a reader of the other byte order |
| `generator` | `UpToDateIsTrue`, `CodelsAreKept`, `RunEnds` | 2 edits, 2 headers, any number of runs |
| `description` | `FreedIsWarned`, `TablesAgree`, `FunctionsDefined`, `TypesDeclared` | the descriptions of `MCFiles` |

Why these bounds are enough to be of interest: with two slots and three
requests the table is full, a slot is reused while an older activity waits for
it, an activity is aborted in every state, and a request arrives at every point
of the other task's loop. Three exchanges let a request be sent while a second
is being answered and a third fetches an input. Two processes and two tasks
let a start fail before, between and after the tasks of a module while another
module owns the pid file or the mailbox. Two edits let a run be made on
a stamp of another version. `CHECK_DEADLOCK FALSE` is used because the number of
requests is bounded, a module whose codels are done is at rest, and an exited
one stops; a task suspended without resume stops the `data` run too.

The type invariants of the other modules stand in them as documentation and for
the proofs; only that of `GenomModule` is in a run.

**Fairness.** Each task is weakly fair: the operating system runs every task
that can run. Taking the SDIs is strongly fair, in `CntrlIntEvnExec`, `ExecTake`
and `GenomTakeSDIs`, since the semaphores queue the tasks. Clients, external
events and signals are not fair. Termination of codels is never assumed except
by the value of `CodelResults`: in `liveness` `goto` ends by itself and `track`
only when interrupted. In `GenomClients` the server and the reception of a reply
by the test program are fair, the user is not (that the module answers what it accepted is
what `liveness` shows of `GenomModule`, for codels that end when they are asked to); in `Startup` threads, parents and
killmodule, once started, are; in `GenomRun` the generator, its child and the
answer of the user to a question are. Faults are never fair.

### Disagreements between the code and what is said of it

Two runs of `PROJECT.json` are expected to fail:

| Run | What TLC shows |
|---|---|
| `v_starved` | an activity interrupts another; before the control task looks at its list, the slot listed is taken by a third one, with which it is compatible and which goes on for ever: its request is never answered. `EveryRequestAnswered` holds with two requests only because this takes three |
| `v_resume_lock` | a task resumed after a suspension goes on without the SDIs, inside the section of another, and then gives what that one took |

The other statements that TLC refutes are not in `PROJECT.json`. Some have a configuration
(`tlc -config X.cfg` with the `MC` module of the part):

| Configuration | Property | What TLC shows |
|---|---|---|
| `InitDone` | `InitSucceededFirst` | an init request that is *interrupted* ends with report OK as far as `CntrlIntEvnExec` can see, and opens the module |
| `UnlockInterrupt` | `InterruptedEnds` | an interruption requested while a codel has unlocked the SDIs is overwritten by the event the codel returns |
| `EndTasks` | `ExitsAfterTasks` | `WAKE_UP_FLAG` also acknowledges the end of a task, and any task clears the flags of all |
| `ResumeRace` | `SuspendedIsInError` | a resume between the release of the SDIs and `taskSuspend` is lost: the task stays suspended with status OK |
| `EndSuspended` | `StoppedModuleExits` | a task that suspends itself after the End request is never resumed, and the module never exits |
| `Forbidden` | `LegalTransitions` | a forbidden event stays in the slot and is acted upon: `SLEEP` returned by an `END` codel puts the activity to sleep |
| `ClientsFetch` | `FetchIsOver` | when the input of a request is fetched by an *execution* request, `waitFinal` is not set and the test program may go on before the input is there |
| `ClientsInit` | `InitIsSeen` | the init program does not use the status of its second reception, and reports failure of an init request that succeeded |
| `StartupBackground` | `StarterAlwaysReturns` | a module that dies before its message leaves the command that started it reading for ever |
| `StartupEarly` | `StartSignalled` | a request served before a task has recorded its identifier signals nobody |
| `GeneratorSave` | `CodelsAreKept` | the codels that could not be saved to `.genomsave` are overwritten all the same |
| `DataInput` | `InputIsOwnToTheEnd` | the codel that ends an interrupted activity finds the input of the request that interrupted it (`requestExec.c:98-103` says so) |
| `GeneratorHeader` | `UpToDateIsTrue` | a header included by a relative name is looked for in the wrong directory, and its change not seen |
| `GeneratorPipe` | `RunEnds` | `pkg-config` writes more than the pipe holds: it and the generator wait for each other |

The others are obtained by changing a few lines of a configuration:

| From | Change | Property | What TLC shows |
|---|---|---|---|
| `Description` | `Files <- MCInits` | `AtMostOneInit` | several init requests are accepted |
| `Description` | `Files <- MCTwice` | `InputsOnce` | a type of input poster is registered twice |
| `Description` | `Files <- MCInterleaved` | `NothingLost` | a group of declarations replaces the former group of its kind |
| `Description` | `Files <- MCMenu` | `NoCrash` | the menu of inputs compares a null name |
| `Description` | `Files <- MCManyPosters` | `PosterIdsFit` | the test of `execTaskGen.c:219` lets in one poster more than the table holds |
| `Description` | `Files <- MCOdd` | `RepliesFit` | the size of replies is computed without the padding of structures |
| `Description` | `Files <- MCAliases` | `FreedIsAlwaysWarned` | the object of an alias is freed while members have it, and nothing is said |
| `Description` | `Files <- MCAliases` | `AliasesConverted` | the functions of an alias of a name call those of a type "inconnu", which no file defines |
| `Generator` | `Spec`, `Options = {"c", "n"}`, `Forms = {"good"}` | `UpToDateIsTrue` | `-n` writes the stamp without running the script |
| `Generator` | `Spec`, `SameSecond = TRUE` | `UpToDateIsTrue` | an edit in the second of the stamp is not seen |
| `Generator` | `Spec`, `Patient = FALSE` | `UpToDateIsTrue` | an edit made while genom runs is older than the stamp |
| `Generator` | `Spec`, `CopyFails = TRUE` | `UpToDateIsTrue` | a copy that fails does not fail the script |
| `Generator` | `Spec`, `Patient = FALSE` | `CodelsAreKept` | codels edited between the save and the overwriting are lost |
| `Clients` | `Spec` | `AbortReportIsTheModules` | an abort polled with `AbortReplyRcv` that succeeds leaves the report of the request before |
| `Generator` | `Spec`, `Flags = 3` | `OptionsFit` | the closing NULL is written one place beyond the table |
| `Data` | `SpecInstance` | `ReadIsComputed` | the read functions of an instance never swap bytes |
| `Data` | | `ReadIsLocal` | a poster is read in the order of the module after an initialisation that failed half-way |
| `Data` | | `EveryOutputIsOwn` | the reply of an interrupted request carries the output of an older activity |
| `Data` | | `ReplyAlwaysAfterPoster` | the final reply is sent while a codel of the same turn has given the SDIs, or after the task was suspended: the poster has not the result |
| `Data` | `UnlockRqsts = {goto}` | `InputIsOwnUnlocked` | a non-reentrant codel that has given the SDIs finds the input of the next request |
| `UnlockInterrupt`* | `AllAllowed`, `MaxRqst = 2` | `TerminationNotInterrupted` | an `END` activity is interrupted |
| `UnlockInterrupt`* | `Terminating`, `MaxRqst = 3`, 3 slots | `FrozenModuleLaunchesNothing` | a waiting activity is launched in a frozen module |
| `UnlockInterrupt`* | `FailAgain`, `MaxRqst = 2` | `TableIsAccepted` | `FAIL -> FAIL`, allowed by the guide, suspends the task |
| `UnlockInterrupt`* | `Faulty`, `MaxRqst = 2`, `AbortArgs <- FlagAborts` | `MinusSixtySixResumes` | `-66` toggles a flag and resumes nothing; `-88` does |
| `UnlockInterrupt`* | `MaxRqst = 1` | `EventEndsSleep` | an event consumed before the control task has seen the `SLEEP` does not wake the activity |
| `Starved` | `Spec`, request `watch`, `OnBothWatch`, `ExclusiveWatch` | `WaitsForIncompatible` | the same slot reuse, as an invariant |

\* with `UnlockRqsts = {}`; the value of `CodelResults` comes first. `ImplementsService`
also holds with three slots (`Service` with `MaxActivities = 3`), where an
activity waits for two others. `NoLostWakeUp` does not hold once a task suspended by a forbidden event
is resumed with `INTER` in its slot.

The guide contradicts itself on `interrupt_activity`: the requests that interrupt
this one (`genom-syntax.tex:200`) or that this one interrupts
(`genom-edition.tex:379-382`). The code does the latter.

## 4. Proofs

`GenomModuleProofs` proves, for any number of tasks, slots, request types and
requests, any incompatibilities, and whatever codels return:

- `TypeCorrect`: `Spec => []TypeOK`;
- `NoIncompatibleRunHolds`: `Spec => []NoIncompatibleRun`;
- `InitRqstAloneHolds`: `Spec => []InitRqstAlone`.

The assumptions are those the modules name: `ConstantsAssumption`,
`CntrlAssumption`, `ExecAssumption`. None bounds the instance.

All three come from one inductive invariant `Inv`. None of the three is inductive
alone. `TypeOK` does not say that the loop of a task stands inside the table
while a codel runs, which the step `i + 1` needs: `CodelOwned` does, and adds that
the slot belongs to that task and holds a codel state and event.
`NoIncompatibleRun` needs `CodelOwned` too: if the control task could free or
freeze the slot of a running codel, the codel's return would revive an activity
no one waits for. `QuietSlots` (a free or frozen slot has no event left, else
`SLEEP` would bring it back) and `IdsGiven` (numbers given are at most the last
one, so a new activity is the youngest) complete it; `InitOrDone` serves
`InitRqstAlone`.

The argument for a step is a statement about slots: but for the creation of
an activity (`RqstExecKeeps`) and the launches (`SpawnKeeps`), a step frees a
slot, freezes its activity, or keeps number, type and list of what it waits for
(`Progress`); and a step of the control task leaves a slot whose codel runs to
its task (`Held`). These suffice for the invariant (`ProgressKeeps`,
`HeldKeeps`). It is remarkable that mutual exclusion is *not* needed: the
proof covers tasks resumed without the SDIs.

From `Inv` it goes on to the books of the control task: `CountersExactHolds`,
`IdDesignatesActivityHolds` and `NoCircularWaitHolds`, from the inductive
invariant `BooksInv`. It adds that two slots that were ever used have
distinct numbers (`IdsDistinct`: a slot keeps the number of its last activity, and the scan of
`RqstAbortActivity` does not look at the status first), that requests are numbered
in the order of the activities (`RqstsOrdered`), and that an activity still in
`INIT` waits or is about to start (`InitEvents`).
The counters are cardinalities, and what a step of the control task does to the
whole table (answer the ended activities, freeze the failed ones) is summed
in one lemma, `CountChanged`.

`ActivityServiceProofs` proves `TypeOK`, `NoConflict` and `OneFate` of the abstract
service. `NoConflict` is strengthened by `Ages` (requests are numbered in order)
and `WaitersSpared` (a waiting activity conflicts with no newer one). `OneFate`
needs that a request is held by one activity (`OneActivity`), that only received
requests are answered, and that a module that ends has no activity; its step is one
lemma, `LeaversAnswered`: when some activities go and exactly their requests are
answered, every older request keeps one fate.

`PostersProofs` proves the four properties of the `data` run for any slots, types,
incompatibilities, members, readers and machines. The strengthening says that the
activities of a non-reentrant type run one at a time (`RunsAlone`), because such a
type interrupts itself: that is why their shared zones are not mixed up, as long as its codels
keep the SDIs (`Guarded`); that the poster shows the outputs of the activities that ended, but for the members still to write,
whenever the task is out of its turn (`PosterShows`), hence `ReplyAfterPoster`, since a final reply
needs the lock, which the task keeps from its codels to its posters unless it is in a codel that gives it or suspended
(`TurnLocked`); that a byte order, once known, is the right one (`OrderIsTrue`); and that values only go from requests to inputs, outputs, posters
and readers (`ValuesGrow`).

`GenomRunProofs` proves `CodelsAreKept` for any files, options and bounds, when no copy
fails and the user does not edit while a run or its script goes on (`Patient`): only the
mirroring of the user's files asks, and only under `-i` (`AskedByOption`), and what is about to be
overwritten is what was saved (`AskedThenSaved`), genom being alive or not. It proves
`UpToDateIsTrue` under `Circumstances`, those of section 3: no header named by a
relative path, no edit while genom runs or in the second of the stamp, no failed
copy, no `-n`. The runs show that the first is needed; the variations above, the
others. The inductive invariant `Inv` says that there is no stamp while files are
written and that a stamp whose sources are all older stands for a module that is up
to date (`StampIsTrue`); for that, a run works on the description as it is
(`ReadIsLast`) and the directories mirrored so far hold it, all of them at the end
(`Mirrored`, `AllDone`). Failures and crashes are steps like the others.

`GenomServiceProofs` goes on from `BooksInv`, with the same generality:

- `ReplyProtocolHolds`, `EndLeavesNothingHolds`, from `RepliesInv`: the replies sent are a
  function of the state of the activities (`Owed`: nothing while the activity
  waits, the intermediate one once it is launched; `Settled`: the final one, for the requests
  without an activity). `ReplyProtocol` alone is not inductive: it does not say
  *which* activity owes the final reply.
- `ServiceImplemented`: `Spec => ImplementsService`. The mapping is the one of
  `GenomModule`; the requests answered are exactly those received that no live
  activity owes (`AnsweredIs`). A cycle of the control task that answers and freezes
  activities is one step `Finish` of the service, `SpawnActivities` a step `Launch` of all
  those it launches, a request handler a step `Admit`, `Reply` or `End`, the exit
  a step `Exit`; the execution tasks, clients and signals are stutters.

The rest of `GenomServiceProofs` needs circumstances, named as definitions and
written as hypotheses of the theorems:

- `MutualExclusionHolds` under `NoResume` (no client gives the abort request the number that
  resumes suspended tasks): the lock is taken just when one task is inside
  (`LockInv`). The run `v_resume_lock` is the counterexample without it. The `requests`
  run has `NoResume`.
- `LegalTransitionsHold` under `NoResume` and `CodelsObey` (a codel returns an event its
  state allows). The strengthening `TransInv` says which event each state may hold
  (`EventsLegal`), and that while requests are served no event of an ended or
  sleeping codel is left (`NonePending`): an abort would overwrite it. That rests on
  mutual exclusion, since it is the lock that keeps the codels from returning
  between the scan of the table and the requests. Configuration `Forbidden` is the
  counterexample without `CodelsObey`.
- `NoLostWakeUpHolds` under `NoResume`. `NoLostWakeUp` speaks of tasks that sleep; `TasksWoken`
  says what makes it inductive: what an aperiodic task without a pending event has
  left behind it *while it loops* (`LoopSound`). The slots it has passed hold nothing to run, and
  its activities further on are no more than those the loop, which stops
  at the number it read at its beginning, still counts. The second needs `CountersExact` and
  mutual exclusion, and does not hold while requests are served during a codel that gave the
  SDIs: activities appear that the number does not count, and it is the signal of `SpawnActivities` to
  every task that makes up for it. For the control task, `CntrlWoken` says that an event left on a
  slot is covered by its own signal or by the task that owns the slot, which will tell it
  before it gives the SDIs. The
  steps of the control task, clients and events are summed in one predicate on slots
  and tasks (`Tends`), those of an execution task in another (`Apart`, `Tells`).

`StartupProofs` proves `ReadyMeansUp`, `SdiAlive` and `StartSignalled` for any number of
processes and tasks, under `Careful` (nobody asks the module anything, or kills it, before
its start is over), as the `startup` run has it; configuration `StartupEarly` is what happens
otherwise. `StartInv` says where each thread can be for each point of the main
thread (`CntrlFollows`, `ExecsFollow`), who made the pid file and the mailbox
(`Files`), and, while killmodule runs, that no start is under way and that the pid it
read is that of the only module up (`Killed`): without the last part,
its step that removes the devices could take those of another process.

`GenomClientsProofs` proves, for any callers, slots and requests:

- `ReportIsTheModulesHolds`, `InitIsTrueHolds`, `SuspendedByLeaverHolds`, without hypothesis, from
  `ClientsInv`: whoever waits has an exchange open in its name (`Owned`), and the slots
  that are on hold distinct open ids of the test program. The one exception that
  `ReportIsTheModules` makes, for an abort that succeeds, polled by a program, is
  what the function does, and no property says the report is right there.
- `SlotsAgreeHolds`, `FetchIsOverHolds`, `ClientsTypeCorrect` under `FetchByCntrl`: the
  inputs of a request are fetched by a control request, whose reply is waited for. Then
  the program is never polling in the middle of a nested call (`PathSound`), a poll never
  finds an intermediate reply missing, on which `testRcvReply` would give the slot up
  (`AckedSound`), and no request of it lacks a slot (`NoneLost`). With an execution request it does not
  hold, and configuration `ClientsFetch` shows the way.

That the programs of `GenomClients` are distinct is its only assumption besides those of its
parts (`ClientsAssumption`).

`CodeGenProofs` proves the four properties of the `description` run for any file that
`FilesAssumption` admits, of any length, whatever it declares, forgets or misspells.

- `DescInvariant`, from which all start. `DescInv` types the lists while they are built
  and says that each typedef they hold has a structure or is an alias (`TagsKnown`) and each member a type
  that is known, or is still a name (`FieldsKnown`). `RefsInv` says the same of what the
  resolution adds: the SDI, the inputs of the tasks, the members of posters; a type
  freed was warned of or is that of an alias (`FreedWarned`). `FreedIsWarnedHolds` follows. Without the
  exception of the aliases it does not hold, as the variation above shows.
- `FunctionsDefinedHolds`: nothing was warned of, so the paths given by requests lead to
  members of the SDI (`UsesLead`, established by the step that resolves uses and kept by those
  after it, which do not change types); the calls written so far are to types for which
  the generators of the conversions write a function, or of aliases (`CallsInv`), which are exempted
  and for which `AliasesConverted` does not hold.
- `TypesDeclaredHolds`, under `ImportsAreHeaders`: the header named by an imported type is not
  the `.gen` file itself (the grammar lets a block `import` declare a type in line, whose
  header is then the `.gen` and which no file declares). `TypesListed` says that while the types of the file follow each
  other, the list being parsed holds all of them, those before an import block
  included; `TypeInv` what the type generator and the list of includes have made. An alias declared in
  the `.gen` file is never written in the header, where genom writes structures only: the property
  speaks of structures.
- `TablesAgreeHolds` under `NamesDiffer`, that the requests have different names, and the tasks
  too: genom looks requests and tasks up by name and takes the first, and checks nowhere
  that there is no second. `ResolvedInv` says what the tables agree *about*: requests are numbered by their
  place (`Numbered`), a request has an array in the SDI exactly when it is reentrant (`Zoned`),
  and its task is known (`TasksKnown`). `OutInv` says of each file, from the step
  after its generator on, which part of the description it holds.

The definitions of the model that walk over a list are recursive functions, and no
induction rule can be cited for them. Each is dealt with by a least counterexample: `LeastNatural` (from the
well-founded order of the finite intervals), then what the walks need, once each: a
set closed by the next number (`Upwards`), the steps of a loop (`Iteration`), what a
concatenation of lists holds and when it has no double (`Flattened`, `FlattenedOnce`).
As the operators of `Genfile` read variables, `ReadTables` restates them as functions of the
tables, so that a step that leaves the tables alone leaves their values alone.

Only model-checked: what is liveness or says ENABLED (`EveryRequestServed`,
`EveryRequestAnswered`, `InterruptedEnds`, `MenuComesBack`, `StartSettles`,
`StarterReturns`, `KillCures`, `RunEnds`), which is outside the prover's reach, and the
claims that runs refute.

## 5. What is not modelled

- Inside a module: measured times, the print flags, the control poster's
  content, the macro `CNTRL_ABORT_ACTIVITY` of control codels, the rewriting of
  `ACTIVITY_BILAN` by `SendFinalReply` (the report sent is what matters, and
  nothing reads the field afterwards).
- csLib, h2evn, the poster library and commonStruct are not in the
  repository: their operations are modelled from their use.
- Finite timeouts of clients: the code never gives one.
- The creation and deletion of posters (`posterLib.c`, done at the start and the stop of a task), the write
  functions of posters that codels update themselves, and the control poster.
- Values of data: printing, scanning, XML, byte swaps, the encodings of Tcl,
  OpenPRS and tclserv.
- The generators of the header, of the codels' templates, of configure, of
  pkg-config files, of the Python interface and of the encoders: text made from a
  checked description, with no table that another file must agree with.
- Module events (tracing), instance names, `genom-regen` and the build files.

## 6. What could come next

- A refinement from `GenomModule` to the server of `CsClient`, so that the clients
  run on the tasks themselves; its product with three clients is beyond TLC.
- Arrays, strings and unions in `Genfile`, and the encoders that walk them.
