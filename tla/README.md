# A TLA+ model of the HRMS agents

This directory holds TLA+ specifications of the HRMS in this repository, the
TLC configurations that model-check them and theorems about them that TLAPS
proves. A specification is written from the Java source; `PROJECT.json` names,
for every definition, the lines it stands for.

## 1. Inventory

The repository has two halves: the HRMS (a set of Spring Boot services) and an
in-tree copy of the Agent Development Kit for Java (`core`, `a2a`, `dev`,
`contrib`, `maven_plugin`, `tutorials`) on which its agents run.

A user's request passes through four layers:

    UI -> orchestrator-agent (JWT filter, LLM) --A2A--> domain agent (LLM)
       -> McpToolset (allow-list) --MCP/SSE--> mcp-server tool -> MySQL or memory

| Part | State it keeps | Operations | What is hard |
|---|---|---|---|
| `mcp-server` leave tools | `leave_request`, `leave_balance` (MySQL) | apply, decide, cancel, modify, seed; eligibility, overlap, unpaid days | overlapping transactions without row locks or versions |
| `mcp-server` payroll, HR, employee, attendance tools | `payroll`, `hr`, `employee`, `attendance` (MySQL) | salary slip generation and payment, promotion, transfer, exit, check-in/out | read-modify-write of whole rows outside a transaction; several steps that can fail half-way |
| `mcp-server` asset, expense, workflow, performance, recruitment, notification, audit, policy, document tools | `ConcurrentHashMap`s and lists in memory | create, assign, approve, review, ... | `get` then `put` is not atomic; a restart empties the maps |
| `mcp-server` manager and compliance tools | none | aggregation, pure checks | decisions on data that is stale when used |
| `auth-service` | `auth_user` and `employee` (MySQL) | login, createUser, linkEmployee, seeding | uniqueness checked before it is written; role hierarchy |
| `orchestrator-agent` and the domain agents | conversation sessions (memory) | converse, delegate | check-then-create of a session; two runs on one session |
| ADK `core` sessions | `InMemorySessionService` maps | create, get, append, delete | last writer wins on the stored session |
| ADK `core` flows, `a2a`, `dev`, `contrib` | runs, events, tasks | model/tool loop, streaming, remote agents | framework code |

### 1.1 The parts in more detail

**Leave tools** (`mcp-server/.../tools/LeaveTools.java`, from line 828; the
lines before are earlier versions, commented out). State: the tables
`leave_request` and `leave_balance`, the latter unique in (employee, type,
year). Operations: `applyForLeave`, `decideOnLeaveRequest`, `cancelLeave`,
`modifyLeaveRequest`, `seedLeaveBalances`, and reads. An approval charges the
balance row of the year the leave starts in and creates the row when it is
missing; a cancellation gives the days back. Each tool but one is
`@Transactional`; no row is locked and no entity has a version, so overlapping
calls write whole rows over one another. Correct means: the ledger agrees with
the approved requests, status and approver belong together, the quota is not
lost, payroll counts every unpaid day once.

**Employee, HR and payroll tools** (`EmployeeTools`, `HrTools`,
`PayrollTools`). State: `employee` (e-mail unique), `payroll` (unique in
employee, month, year) and `hr`, the log of lifecycle events. None is
`@Transactional`: every repository call commits by itself. The tools run on
the worker threads of the MCP server, outside any session of Hibernate, so the
row a tool read is detached and `save` merges all of it. `recordExit` saves
the employee, has payroll settle the month (which asks the leave tools for the
unpaid days) and logs the event. `createEmployee` takes a whole `Employee`, its
id included, so that with the id of an employee it saves over that row. Correct
means: an exit is settled and logged and is not undone, a slip adds up.

**auth-service.** State: `auth_user` and the table `employee` it shares with
the MCP server. Operations: `createUser` (the role of the caller decides what
it may create; an employee row is found by e-mail or inserted), `linkEmployee`,
`login`, `currentUser`, and the administrator seeded at start. Correct means: a
login is one person's, its link leads to an employee that exists, an account
was created by somebody who may, and one that was refused leaves nothing
behind.

**Conversations.** Every agent with a chat endpoint has a
`...ConversationService`. Those of the orchestrator and of the leave agent
(and their like) hold one `InMemoryRunner`; `converse` makes sure that the
session exists, runs the agent on it and blocks for the answer. The audit,
recruitment, workflow and compliance agents build a new runner for every
request and remember nothing. The `Runner` puts the runs of a session id in a
line. Correct means: runs on one session do not mix, no answer is lost, the
line never stops.

**Attendance and in-memory tools.** Attendance has a table, unique in
(employee, day). A check-in inserts the row of the day, a check-out finds it
and saves it whole, `markStatus` inserts a row without times. Correct means:
the hours, the status and the times of a row belong together and to its day,
and a day stays what it began as. The others keep records in
`ConcurrentHashMap`s: `get`, build a new record, `put`. They hardly guard what
they do (an expense may be rejected after it was approved, an asset made
available while it has a holder), and a restart empties them. Correct means
what little they promise: an offer or an interview that a candidate's status
shows exists. (That payroll is asked for approved expenses only is promised and
not kept.)

**Delegation and A2A.** `DelegationTools` of the orchestrator and the
`...AgentClient`s send one blocking A2A message to another agent, in a session
of its own with a random id; a failure becomes an answer. On the other side
the A2A server calls `AgentExecutor.execute` and `cancel`, which keep a map of
active tasks and send status events to the task's queue. Correct means: a task
has one run at a time, its reports do not mix, a run that is over is forgotten,
the caller hears how it ended.

**The model/tool loop** of the ADK (`BaseLlmFlow`) emits events; the `Runner`
appends them, and `PersistBarrier` makes the loop wait for that. Correct
means: a request to the model is built from a session that has the events of
the steps before, and no failure leaves the loop waiting.

### 1.2 How they interact

- `HrTools.recordExit` calls `PayrollTools.generateSalarySlip`, which calls
  `LeaveTools.getUnpaidLeaveDaysForMonth`: three tables, no common
  transaction. (`StaffTools`; the leave side is its variable `unpaid`.)
- `auth-service` and the MCP server write the same table `employee` without
  knowing of each other. (`AuthService`, with the MCP server's writes as
  actions of the environment.)
- Agents reach the tools over MCP, each through an allow-list; several agents
  call the same tool at once. (`Calls` in every module.)
- `ExpenseTools.sendExpenseToPayroll` calls `NotificationTools`.
  (`RecordTools`.)
- A chat request reaches a run of the agent through the line of its session
  id. (`SessionRuns`.)
- A run of one agent asks another by an A2A message and waits; the executor on
  the other side starts a run there. (`A2ATasks`.)

`PROJECT.json` lists, under "hazards", every place where this can go wrong in
a way that a test hardly reaches, with the properties that cover it.

## 2. The modules

    LeaveData <- LeaveService <--implements-- LeaveTools <- MCLeaveTools
                      ^                                          ^
       MCLeaveService, LeaveServiceProofs <--instance of-- LeaveProofs
    AccountRegistry <--implements-- AuthService <- AuthProofs   MCAuthService
    LineOfRuns <--implements-- SessionRuns <- SessionProofs
       SessionRuns, AgentLoopData <- MCConversations --instance of--> AgentLoop
    AgentLoopData <- AgentLoop <- AgentLoopProofs
    A2ATasks <- A2AProofs                                       MCA2ATasks
    StaffTools <- StaffProofs            \
    AttendanceData <- AttendanceTools     MCServerTools <- ServerProofs
    RecordData <- RecordTools            /

(`<-`: the module on the right extends the one on the left.) A module starts
with a comment on what it stands for; `PROJECT.json` gives for every
definition the lines of the source.

### 2.1 LeaveData, LeaveService, LeaveTools

`LeaveData` has the rows, the dates (natural numbers, years of `DaysPerYear`
days) and the pure helpers of `LeaveTools.java`: `Charge` and `Refund` are
`applyLeaveToBalance` and `revertLeaveFromBalance`, `Eligible` is
`checkLeaveEligibility`, `UnpaidDays` is `getUnpaidLeaveDaysForMonth`.

`LeaveService` is the abstract specification: every tool that changes state is
one atomic action over `request` and `balance`.

`LeaveTools` is the code as it runs. A call is an action that reads and decides
(`DecideOnLeaveRequest`, `CancelLeave`, ...) and leaves the rows it is going to
write in `call[c]`, then `Commit` or `Rollback`. The rows are divided into
updates, which always go through, and inserts, which the unique key refuses
when the row exists by then. Hibernate writes a row only when it differs from
the one it read, and so does `WithBalance`. A decision has a manager:
`managerEmployeeId` is a required parameter of the tool, which does not check
it, and `ApproverMatchesStatus` rests on that. `modifyLeaveRequest` is the tool
without `@Transactional`: it reads and saves in two transactions, to the same
effect.

### 2.2 StaffTools

A call in progress is a record with the step it is at: `saveEmployee`,
`countUnpaid`, `findSlip`, `saveSlip`, `saveEvent`. Each step is one repository
call, with the detached rows the call carries. `AfterSave` and `SaveSlip` are
the order of the calls in `recordPromotion`, `recordTransfer` and `recordExit`.
`Refuse` is a unique key that throws, `Fail` a lost connection or a crash
between two steps. `createEmployee` is two actions: with no id given
`CreateEmployee` inserts a row, in one step; with the id of an employee
`RecreateEmployee` is about to merge a new ACTIVE row over that employee's,
also over one that is TERMINATED. `recreated` is a history variable: those it
saved over since their exit. (The employee agent is told in its prompt to
"never silently overwrite an existing employee", `EmployeeAgent.java:58-59`;
the tool does not look.)

### 2.3 AccountRegistry, AuthService

`AccountRegistry` is what the service promises: an account appears by one
atomic step of somebody who may create it, with a free name, for an employee
without a login. `AuthService` is the code: `CreateUser` and `LinkEmployee`
check a snapshot and the writes come later under the unique keys:
`InsertProfile` the employee row (by `JdbcTemplate`) when none was found,
`CommitCreate` the login (by JPA) with the commit of both, `CommitLink` the
repaired link; `Rollback` takes back the row that `InsertProfile` wrote. Until
the commit that row (`Uncommitted`) is seen by no other transaction but by the
unique key. `ProfileCreated` and `EmailChanged` are the MCP server on the
shared table. `known` is a history variable. A login need not have an employee:
`User.java:25-28` allows one "before HR creates the matching employee record,
or ... with no employee profile at all". In the code only the seeded
administrator is without one until somebody links it, but no property says so;
they are about where a link leads. A token stands for the account it names,
since names, roles and accounts never change or go; passwords, JWTs and their
expiry are left out.

### 2.4 SessionRuns, LineOfRuns

A request `c` goes through `Converse` and `CreateSession` (`ensureSession`: a
check and a creation, with a gap), `Subscribe` (`Runner.runAsync` swaps itself
into `activeSessionCompletables` and remembers the run it found, `prev[c]`),
`Open` (that run is over; the stored session is copied, or the run fails with
"Session not found"), `AppendMessage` and
`AgentEvent` (an event is appended to the copy, and the copy is put back
whole), `Finish` or `Dispose` (the thread blocked on the answer was
interrupted), and `Signal` and `Forget`, the two halves of `doFinally`. `turn`,
`turns`, `cut` and `made` are history variables that only the properties read.
(`activeSessionCompletables` has weak values; a completion is held by the
subscription of its own run until that is over, so none goes while it matters.)

`LineOfRuns` is what that chain of completions is meant to be: a line for each
session id, first come, first served, one at a time. `SessionRuns!Line` maps a
run to its place in the line by its completion (`gate`), not by where its
thread is. A run that is disposed of while it waits gives up, and with that
the promise for its line ends: in the code the run behind it starts at once.

Only `createSession` trims a session id (`Trimmed`, `NewKey`). A request whose
id has blanks around it looks for its session in vain, creates that of the
trimmed id, whatever it held, and fails at `Open`, each time it is made.

`Dispose` ends a run at one instant. In the code a run that was released on the
thread of the run before it (`Runner.java:470`) may still finish the one call
it is at, or append one more event, after it was disposed of. This is left out.

### 2.5 AgentLoopData, AgentLoop

One run, with two actors (`AgentLoopData` has the state and the properties,
`AgentLoop` the steps). The loop: `Ask` (`runOneStep` counts the call of the
model and may exceed the limit), `Emit` (an event of the answer or of its
tools), `Transfer` (the loop of the next agent runs inside the step: `loops` is
a stack), `EndTurn`, `EndStep` and `NextStep` (`awaitPersisted`, whose waiting
is the guard of the action), `Break` (the model or a tool fails). The Runner:
`Take` (the next event; a partial one is only marked), `Store` and `Mark`
(`appendEvent` and `markPersisted`, with a gap), `AppendFails` and `Cancel`
(`markFailed`, or the error that ends the stream), `Finish`. An event is known
by its place in `emitted`; ids are made once per event in the code. The
`AgentEvent` of `SessionRuns` is one `Take` and `Store` here.

### 2.6 A2ATasks

A request `e` is one caller (`A2AAgentClientSupport.call` over the ADK's
`RemoteA2AAgent`) and one call of `AgentExecutor.execute`. The executor's side:
`Submit`, `Register` (`putIfAbsent`), `Throw` or `Subscribe`, `Add` (the chain
joins its disposables once `subscribe` has returned), `Skip`, `StartWork`,
`Process` and `End`, and `cleanupTask` in two steps, `Remove` (whatever run is
registered) and `Dispose`. A cancellation is `Cancel` and the same two steps.
The caller's side: `Unavailable`, `HandleEvent`, `HandleError`, `Disconnect`.
The SDK between the two is modelled from its use. `Callbacks` tells a
configuration with callbacks from that of the agents of the HRMS, which set
none.

The agents of the HRMS answer on the thread that calls `execute`: nothing on
the way down to the model subscribes on another thread, and the model's client
blocks. So `subscribe` returns when the run is over, and until then the
disposables of the run are empty. `Async` = FALSE is that case: `Add` comes
after the run's `doFinally`, and a cancellation, although it removes the entry
and reports CANCELED, stops nothing ("Stops all streams in the
CompositeDisposable", `AgentExecutor.java:268`, holds for nothing). With
`Async` = TRUE the agent may also use threads of its own, as the executor, a
library, allows: `Add` may then come at any time. The properties about tasks
speak of the time up to a cancellation and hold in both cases; nothing is said
of stopping a run.

### 2.7 AttendanceData and AttendanceTools, RecordData and RecordTools

The `Data` modules hold the tables, what is computed with a row and the
properties of the tables; the `Tools` modules are the state machines.

A time counts the hours from some midnight (`DayLength` a day) and `Tick` lets
the clock go on between any two steps. `CheckIn` and `CheckOut` look at the
clock, `Find` is `findByEmployeeIdAndWorkDate` with the guards after it and the
computation of the hours from times of day, `Insert` and `Update` are the two
meanings of `save`, `MarkStatus` inserts a row with any status. `Fail` ends a
call anywhere.

A call of the record tools starts with its `get` and is then about to `put`:
`DecideExpense` and `PutDecision` are `approveExpense` and `rejectExpense`,
`SendExpenseToPayroll` and `Send` the check and the notification, `Invite`,
`Record` and `PutCandidate` an interview or an offer with the status that
follows it. `Restart` empties the maps and ends the calls; the ids start again.
`named` is a history variable.

## 3. What is checked

Every property of a passing run has a mutant in `PROJECT.json`: a plausible
mistake in the code under which TLC finds the property violated. Mutated
definitions stand in the modules before the definition they replace, marked
"Wrong on purpose".

| Run | Properties | What it shows |
|---|---|---|
| `leave_service` | `TypeOK`, `LedgerExact`, `NoUnpaidDayMissed`, `EligibleNeverOverdraws` | without overlap, the used days equal the approved days after any sequence of calls; payroll misses no unpaid day; an eligible request does not overdraw |
| `leave_seed` (violated) | `SeedGrantsQuota` | approve first, seed later: the quota is never granted |
| `leave_month` (violated) | `UnpaidDaysFitMonth` | a leave over a month's end is deducted in full in both months |
| `leave_tools` | `TypeOK`, `RowsBalanced`, `ApprovedIsCharged`, `ApproverMatchesStatus`, `TotalsFixed`, `AloneImplementsService` | what no interleaving of two transactions breaks; where calls come one at a time, the transactions implement the atomic tools |
| `leave_quiet` (violated) | `QuietLedgerExact` | one call approves a request and inserts the balance row with the charge, an overlapping decision on the same request overwrites it: both succeed, and the charge stays without an approved request |
| `server_tools` | `TypeOK`, `ToolsTypeOK`, `ExitWasSettled`, `SlipAddsUp`, `HoursFitTimes`, `DayKept`, `StatusHasRecord` | staff, attendance and record tools: two calls that overlap and fail anywhere, past midnight and through restarts |
| | `AloneTerminatedIffExited`, `AloneExitGetsLogged` | staff calls one at a time: an exit is complete, is undone by nothing but a `createEmployee` with the employee's id, and is logged in the end |
| `expense_sent` (violated) | `PayrollAskedForApproved` | an expense is rejected between the check of its status and the notification: payroll is asked to reimburse a REJECTED expense |
| `staff_exited` (violated) | `ExitedIsTerminated` | a contact update that read the row before the exit makes the employee ACTIVE again |
| `auth` | `TypeOK`, `LinksLeadToProfiles`, `NoStrayProfiles`, `ImplementsRegistry` | checking first and writing later is sound because of the unique keys; a link leads to a committed employee, and a login that is refused leaves no employee behind |
| `a2a_tasks` | `TypeOK`, `UncancelledRunsAlone`, `TurnsDoNotMix`, `RunsForgotten` | two messages and a cancellation on one task, with agents that block and agents that do not: until a cancellation one run at a time and reports that do not mix; a run that is over is forgotten |
| `a2a_failed` (violated) | `DelegationReturns` | a delegate whose run fails never completes the flow of its caller |
| `conversations` | `TypeOK`, `RunsDoNotOverlap`, `AnswersKept`, `RunsFormLines`, `EveryRequestEnds` | the line of a session id is a fair lock, loses nothing and never stops |
| | `RunTypeOK`, `StepsSeeEverything`, `RunEnds` | however slow the appends, a loop asks the model again only when all events so far are stored; a failed append or a partial event never leaves it waiting |

Six runs are expected to be violated; each is a disagreement between the code
and what it says of itself, listed under "findings" with the line it quotes.

Three runs look at behaviours of several kinds, chosen once at the start.
`MCServerTools` puts three modules in one run because their tools share no
table: a behaviour is one of staff calls alone, of staff calls that overlap
and fail, of attendance calls, or of record calls, and what of the others is
in the state stands still. `MCConversations` does the same with requests on
conversations and with the steps of one run of an agent. (`ServerRunsTools`
proves that a behaviour of `MCServerTools` is one of each module it puts
together.) `MCLeaveTools` has a flag `alone`; where it is set
at most one call is in progress (`OneCall`), and the tables map to those of
`LeaveService`, elsewhere they map to empty tables and nothing is said.

### 3.1 Bounds

- *Leave.* One employee, one paid type and unpaid leave (two paid types in
  `leave_seed`), one manager. Three requests and the dates 1, 2, 3 with years
  of three days: leaves of one to three days, two years, and leaves over New
  Year. With overlap two requests and two calls: the conflicts are between two
  calls on one request or on one balance row, and a third call conflicts with
  each of them in the same way. `MaxUsed` caps the used days, which repeated
  lost refunds would make grow for ever; two requests of one day already fill
  it. Rows of different employees, types and years share nothing but a
  request, so more of them add no new conflict. In `leave_tools` there is one
  year: leaves over New Year are the subject of `leave_service`, and
  `SerialImplementsService` and the ledger are proved for all dates.
- *Staff.* Two calls that overlap and fail are about one employee, one e-mail
  and one month (`Few`); two employees and two e-mails where calls come one at
  a time, so that the unique key can refuse. One department and title (they are
  only copied), one salary and rate, at most one unpaid day, which is enough
  for a deduction to differ. An onboarding is logged for employees of `Few`
  only: it adds to the history what nothing reads.
- *Attendance.* One employee, two calls, four hours over two days of three
  hours: a check-out before midnight that is saved after it, one that finds a
  later check-in, and days with fewer and with enough hours (`HalfDay`).
- *Records.* One expense and one candidate (ids share nothing), two calls,
  any number of restarts; `expense_sent` is on the same instance.
- *A2A tasks.* Two messages and one cancellation on one task (tasks share
  nothing), one artifact a task; `Async` = TRUE in `a2a_tasks`, which allows
  the steps of FALSE as well, and FALSE in `a2a_failed`. Requests are numbers
  sent in order, and a caller hears when the executor is at rest, which loses
  nothing: what there is to hear stays so, and hearing changes nothing else.
- *Accounts.* Three accounts (the administrator and two that conflict), two
  employees, three names, two calls.
- *Sessions.* Three requests on one session id (a run, one that waits for it
  and one that waits for the waiting one: what `Forget` and `Dispose` can break
  needs three), of one or two users, one event of the agent per run
  (`MaxEvents`). Requests and users are interchangeable; as the requests are
  numbers, `MCConversations` keeps one order of subscription and one first user
  in the place of a symmetry set, which liveness would not allow. With a
  session id that has a blank (`padded`) there are two requests of one user,
  one on each id: the padded one shares nothing with the other but the stored
  session, which it creates anew.
- *Model/tool loop.* Three calls of the model, three steps of a loop, two
  events of a step. That reaches a transfer of an agent that was transferred
  to, a loop that goes on after an inner one ended, both limits, and steps
  whose first event is stored while the second is not.

Deadlock is not checked: the tools may be left alone for ever, and requests,
ids and accounts run out in a finite instance.

### 3.2 Fairness

`StaffTools!FairSpec` has weak fairness of `Step(c)` for every call: a tool
call that was taken up is run to its end by the thread of its request. Nothing
makes a call start. `SessionRuns!Fairness` has weak fairness of the steps of a
request once it was made: its thread, or the thread on which the model answers,
goes on; `RunConfig` limits the model calls of a run, here `MaxEvents`.
`MCConversations!LoopFairness` has weak fairness of the loop and the Runner
together: the model, the tools and the session service answer in the end, and a
step emits finitely many events. None of them makes a failure or a disposal
happen. That models and tools answer is an assumption: a delegation that hangs
(`a2a_failed`) is a tool that does not, and its line stops with it.
`A2ATasks!Fairness` has weak fairness of what the executor does up to the call
of `subscribe` (`Execute`) and of `cleanupTask` (`CleanupTask`), which follows
the end of a run; nothing is assumed of the agent, whose model may never
answer, nor that `subscribe` returns (`Add`). `AnsweringSpec`, under which
`DelegationReturns` is refuted, adds that the agent answers and the caller
listens. The other modules have safety properties only.

## 4. What is proved

`LeaveServiceProofs`, `LeaveProofs`, `StaffProofs`, `ServerProofs`,
`AuthProofs`, `A2AProofs`, `SessionProofs` and `AgentLoopProofs` prove with
TLAPS, for every value of the constants that satisfies the named assumptions of
the modules (the types of the bounds and that "no row" is not a row), what the
runs show on small instances. Every property of a passing run that is not about
liveness is a theorem:

- **Leave, atomic.** `TypeCorrect`, `LedgerStaysExact`, `EligibleFits`,
  `UnpaidDaysAreCounted`. `DaysOf` adds up the days of a set of requests with
  a fold. Its defining equation (`DaysOfDef`), and that the sum changes by the
  days of one request when that request enters or leaves the set, whichever
  the fold takes first (`DaysOfElement`), are proved by taking a smallest set
  for which they fail: the subsets of a finite set are well-founded
  (`MinimalSubset`). The sum exists because only finitely many requests were
  ever made (`Made`), which is the part of `IInv` that makes `LedgerExact`
  inductive while `RequestIds` is any set, infinite ones included. A step moves
  at most one request into or out of the approved ones of one balance row
  (`OneMore`, `OneLess`); a refund never meets its floor of zero, because the
  days refunded are among those the ledger counts. `UnpaidDaysAreCounted` is
  that a union of intervals has at most as many days as the intervals together
  (`CoveredAtMostDays`).
- **Leave, transactions.** `TypeCorrect`, `RowsStayBalanced`,
  `ApprovedStayCharged`, `ApproverAlwaysMatches`, `TotalsStayFixed`. The
  properties are about the tables, but a step writes what a call computed
  earlier. The inductive invariant `IInv` therefore says that the rows a call
  in progress is going to write have, already, what the tables must have
  (`PendingWritesOK`): a balance row it updates exists and has the same total,
  a request it approves has its balance row or inserts it with it. No row is
  ever deleted and no total changes, so this stays true while others commit
  (`PendingStable`). `SerialImplementsService`: where calls do not overlap
  (`SerialSpec`), the tables a call read are still the tables when it commits
  (`UpToDateStable`), and the commit is the step of its tool; rolling back is
  none. `AloneAreAtomic` says it of the behaviours of the run.
  `SerialLedgerExact` joins it with the theorem about the atomic tools, which
  it takes from an instance of `LeaveServiceProofs`: without overlap
  `QuietLedgerExact` holds, so the overlap is what `leave_quiet` needs.
- **Staff.** `TypeCorrect`, `ExitsAreSettled`, `SlipsAddUp`. `IInv` says of a
  call at each of its steps what it has done already and what it carries
  (`CallOK`): an exit at `saveEvent` has its slip, whoever wrote it.
  `ExitsLast` is `TerminatedIffExited` for calls that come one at a time and do
  not fail (`SerialSpec`): `SInv` adds that the one call in progress carries
  the status its employee still has (ACTIVE, if it is `createEmployee`) and
  finds no slip where it found none (`Fresh`), so that no unique key stops an
  exit that has begun to write, and that a TERMINATED employee without an EXIT
  event is one whose exit is between its first save and its last (`Leaving`).
  An employee that `createEmployee` saved over since (`recreated`) is ACTIVE,
  whatever the history says.
- **Accounts.** `TypeCorrect`, `LinksAlwaysLead`, `NoProfileStrays` and
  `ServiceImplementsRegistry`: every step of the transactions is a step of
  the registry or none. `IInv` says that the rows of `employee` are exactly the
  committed ones (`known`) and those that open calls inserted, each its own, so
  that a roll-back takes back a row nobody relies on. It keeps, for a call in
  progress, those of its checks that cannot be overtaken, because accounts and
  committed employees are never deleted and roles never change; the others are
  checked again by the unique keys.
- **Sessions.** `TypeCorrect`, `RunsInTurn`, `LinesAreFormed`,
  `AnswersAreKept`. That each run waits for one predecessor says nothing of the
  others; `IInv` says that of two runs that are not over, the later one waits
  for the earlier or for one between (`WaitsFor`), and that the entry of the
  map leads to the last (`Awaited`), each unless a waiting run was disposed of.
  `KInv` adds that the copy of a working run in an undisturbed line is the
  stored session, which needs `RunsInTurn`: only the run whose turn it is
  appends. `LinesAreFormed` is the refinement: each step of a run is one of
  `LineOfRuns` or changes nothing there, and `WaitsFor` is why a run that
  starts has nobody before it.
- **Model/tool loop.** `TypeCorrect` (the limit of calls holds over all agents
  together) and `StepsSeeAll`. The barrier waits for the events of the last
  step of one loop only. `IInv` says that the Runner marks in the order of the
  events and marks only what is stored, so the mark of the last event speaks
  for all before it, those of inner loops included; that the step waited for
  is not empty (`LastStep`) is what makes there be a last event.
- **A2A tasks.** `TypeCorrect`, `UncancelledAlone`, `ReportsDoNotMix`. `IInv`
  says that what is registered for a task, or was removed from it, is a run of
  that task, and that a busy run of an uncancelled task is the registered one
  (`RunOK`); `RInv` adds that a working run has been reporting alone since its
  first event.
- **Attendance** (`ServerProofs`). `AttendanceInvariance`, `HoursAlwaysFit`,
  `DaysAreKept`. `IInv` says that the row a call is about to save fits its day
  already (`CallFits`), by the arithmetic of `WorkedSameDay`, and that the row
  it found is still there with its check-in, since no step takes a check-in
  back.
- **Records** (`ServerProofs`). `RecordsInvariance`, `StatusesHaveRecords`.
  `IInv` says what each call in progress relies on (`Backed`); a restart ends
  the calls together with what they rely on.
- **The server** (`ServerProofs`). `ServerRunsTools`: what `MCServerTools`
  shows of each group of tools is a behaviour of that group, so that the types
  (`ServerTypeCorrect`) and the properties of the tables
  (`ServerStaysConsistent`) hold of the server. `AloneExitsLast` is
  `AloneTerminatedIffExited`, with the invariant `SInv` of `ExitsLast` for
  behaviours of that kind: a step that leaves at most one chosen call in
  progress leaves one call in progress (`OneThread`).

The invariants were checked by TLC before they were proved. `ServerProofs`
names the definitions of the attendance and record tools as the server has
them (`Attendance!`, `Records!`), with any set of employees.

Only model-checked: what is about liveness (`AloneExitGetsLogged`,
`EveryRequestEnds`, `RunEnds`, `RunsForgotten`), since TLAPS does not reason
about fairness. The violated properties need no proof: a
counterexample is one.

## 5. What is not modelled

- Texts, names, reasons, addresses and dates of creation: no property depends
  on them. Salaries, rates and days are numbers, money is exact: `double` and
  its rounding are left out.
- Reads that change nothing (calendars, histories, reports, calculators),
  except those a property is about.
- Who may call a tool: the agents' `AuthorizationService`s and the prompts. A
  tool may be called at any time by anybody, which allows more behaviours.
- Tokens: expiry, and that a token keeps the employee id of the time of login.
- In `SessionRuns`: session, user and app state, `deleteSession` and the list
  operations, which these services do not use; `runLive`, plugins,
  compaction, artifacts. That `onComplete` runs the next waiting run on the
  finishing thread delays the earlier caller's answer but loses nothing, and
  is left out.
- In `AgentLoop`: events of request processors, callbacks, plugins, the pause
  of a resumable run, `runLive`, and how the tools of a step are executed. The
  services of this repository use `InMemorySessionService`, which appends
  without delay; slow and failing appends are the general case that
  `RunnerTest` exercises. The first request of an agent that was transferred
  to is not covered by `StepsSeeEverything`: nothing awaits the event that
  transfers, and with a slow append that request lacks it.
- In `A2ATasks`: the SDK's request handlers and stores (modelled from their
  use), streaming to the caller, the conversion of parts and artifacts.
- Of the in-memory tools: assets, goals, reviews, job openings and workflows.
  They are the `get` and `put` of `RecordTools` without a guard or a promise:
  the last `put` wins, and nothing in the repository says more. That a
  repeated `sendExpenseToPayroll` notifies twice contradicts nothing said
  either. Audit, policy and document tools append or format.
- The browser code under `dev/browser` is a bundle of the ADK's development UI,
  third-party, minified, and not part of the running HRMS.
- The components listed in `PROJECT.json` as not modelled, each with its
  reason.

## 6. Plan

Done of the earlier plan: `A2ATasks`, the attendance and record tools,
`LineOfRuns` with its refinement, and the proofs about sums over tables, the
last safety properties that were only model-checked. What would add most now:

1. A composition of `LeaveService` and `StaffTools`: the days a slip deducts
   are the unpaid days at an instant between the start and the end of its
   generation.
2. A statement of what a cancellation stops, for agents that do not block, and
   what becomes of the events a disposed run may still append.
3. The deletion of sessions and session state, once a service uses them.
