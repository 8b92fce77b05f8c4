# A TLA+ verification of LearningFlow Agent and BotMux

This directory holds TLA+ models of the LearningFlow backend (`src/backend/app`), of
the bridge that connects it to BotMux (`src/integrations/botmux`) and of the parts of
BotMux (`src/botmux/src`) that keep durable state or coordinate processes; TLC
configurations that check them on small instances; and TLAPS proofs of the properties
that matter most for every size of instance. Paths below are relative to the
repository; `workflow.py` is `backend/app/graph/nodes/workflow.py`, `database.py` is
`backend/app/db/database.py`, and the BotMux files are named without their directory.

`PROJECT.json` records, definition by definition, which source lines a definition
stands for, which run checks which property, which mutation of the code each property
detects, and the hazards behind the properties, each at its line.

## 1. The system

LearningFlow is a learning assistant. A user's message is one *turn* of a conversation
*thread*: `AgentService.run` writes a run row and the message, then streams a LangGraph
workflow whose state is checkpointed in SQLite after every superstep. The workflow may
stop at an `interrupt` to ask for consent and is continued by `AgentService.resume`.
Reminders are rows of the same SQLite file that an APScheduler in every process turns
into notifications. BotMux is a daemon that connects chat groups to command-line
agents, of which LearningFlow is one (through the bridge): it admits turns, forks
workers, asks the user on behalf of agents, runs scheduled tasks and workflows, accepts
triggers of other programs and hands a meeting's items to agents. Its state is in JSON
files shared by several processes under a file lock.

### LearningFlow

| component | state | operations | what is hard |
|---|---|---|---|
| Reminder service, `scheduling/service.py` | rows and notifications (SQLite), jobs (memory, per process) | create, cancel, run_now, start, restore, close | two processes with a job for one row; crash between two transactions; misfires; restart |
| Workflow graph, `graph/` | the turn's state, checkpointed | 26 nodes, conditional edges, two interrupts | loops bounded only by counters; a model that replies anything; a node that fails half-way and runs again |
| Agent service, `services/agent_service.py` | run rows, latest checkpoint of the thread, the page's approval card | run, resume, stream | requests on one thread share the checkpoint and nothing else; old cards; lost clients |
| Conversation memory, `conversation/service.py` | messages, one summary per thread | prepare_turn, context, complete_turn, maybe_summarize | read-then-write across transactions by overlapping turns |
| Learning memory, `memory/service.py` | profile, plans, events | save_plan, update_progress | read-modify-write of a JSON column in two transactions |
| Knowledge store, `rag/` | documents and chunks (SQLite), vectors (Qdrant) | index, search, delete | two stores, no common transaction; ranks of two searches fused |
| Skills, `skills/service.py` | one directory per skill | install_zip, set_enabled, delete, match, render_context | a directory is replaced file by file while others list, toggle or delete it |
| BotMux bridge, `integrations/botmux` | a JSON state file | process, resume, upload, schedule | failures between backend, scheduler and state file; a stream the client left |
| Database, `db/database.py` | all tables | one transaction per method | it serialises statements, not methods |
| Research tools, `tools/research.py` | – | read tools and two write tools | consent for writes |
| API, MCP server, clients, configuration | – | pass calls on | – |

### BotMux

| component | state | operations | what is hard |
|---|---|---|---|
| File lock, `file-lock.ts` | lock file, claims, owner files | acquire, release, break a dead holder's lock | every system call of every process interleaves; deaths; a breaker that is late |
| Turn admission gate, `bot-turn-mutation-gate.ts` | counters, leases and queues (memory) | admit, mutate, upgrade, time out | woken waiters find another state than the one they were woken for; a handler that waits for itself |
| Ask broker, `ask-broker.ts` | pending asks (memory), records (disk) | register, join, re-attach, click, submit, reply, time out, restore | the daemon restarts while hook and user carry on; retried posts |
| Scheduler, `scheduler.ts`, `schedule-store.ts` | the task file, executions in flight | tick, start-up, commands, markRun | a tick works on a snapshot while commands commit; crash between advance and execution; zone changes |
| Workflow engine, `workflows/v3` | the journal of a run, wait files | drive, dispatch, settle, gate, revisit, retry, grant, cancel, cold attach | a drive of awaits against clicks, cancellations of other processes and its own death |
| Workflow workers, `worker-fence.ts`, `botmux-attempt-lease.ts` | a fence file per attempt | arm, fork, bind, close, scan, signal | a later daemon must not call an attempt closed while its worker lives or is about to |
| Keyed triggers, `trigger-session.ts`, `idempotency-store.ts`, `async-trigger-store.ts` | lease, result and session rows | claim, barrier, fork, capture, poll, reconcile | at most once and always an outcome, across failed writes, deaths, freezes |
| Meeting delivery, `vc-meeting-delivery-*.ts`, `daemon.ts` | hub file, receiver file, fences (memory) | freeze, post, accept, dispatch, settle, retry, remove, retire, close | two daemons with a cursor each, lost and late requests, runs that outlive their worker |
| Daemon, worker pool | sessions, workers | all of the above call them | modelled as far as the components above see them |
| Worker, dashboard, CLI, chat adapter, terminal backends, set-up, plugins | – | parsing, rendering, configuration, calls to third-party programs | see section 5 |

Components interact in five ways: calls; shared files under a transaction or a lock
(SQLite, BotMux's JSON files); the checkpoint of a thread, which the streams of several
requests share; the events of a stream (the page and the bridge keep the run id and the
card they saw last); and requests between processes that may be lost, late or repeated.

The correctness questions, per component:

* reminders: delivered once, not early, no occurrence twice by one process, not after a
  cancellation, not forgotten, recorded;
* graph: every loop ends within its budget, nothing is written without consent or twice,
  an answer cites what was retrieved, and nothing else if it passed the check, the web is
  used only for a cause;
* runs and bridge: the plan stored is the plan confirmed, a row holds its own answer, no
  run stays `running`, the state file is true, every message gets a final frame;
* conversation: nothing falls between summary and recent window, recent messages stay
  verbatim, every answer follows the question of its run;
* stores: a mark holds, indexed means searchable, deleted means not found, a refused
  package costs nothing, a skill is whole;
* lock: one process in the section, and a dead one does not wedge it;
* gate and broker: a mutation runs alone, answers survive, nobody waits for ever;
* scheduler: an occurrence is fired once, a removed task stays removed, a due one is handled;
* workflow: no worker is lost sight of, results derive from what holds, runs come to an end;
* triggers and meetings: at most once / exactly once, in order, and with an outcome.

## 2. The modules

| module | models | kind |
|---|---|---|
| `ReminderSpec` | what the reminder table promises its users | abstract specification |
| `Reminders` | the service in several processes with schedulers and crashes | state machine, refines `ReminderSpec` |
| `AgentGraph` | one turn of the workflow | state machine |
| `AgentRuns` | the turns and requests of one thread | state machine; `AgentGraph` reduced to where it stops |
| `Conversation` | the message log and summary of one thread | state machine |
| `Bridge` | BotMux's messages through the bridge to one thread | state machine; `AgentRuns` reduced to checkpoints |
| `Plans`, `Knowledge`, `Skills` | the three stores beside the turn | state machines; rank fusion as operators |
| `FileLock` | `withFileLock` | state machine, one system call per step |
| `TurnGate`, `AskBroker` | two services of the daemon's memory | state machines |
| `Schedules` | the task file, the ticking daemon and the commands | state machine |
| `Workflow` | one run of the v3 engine | state machine over the folds of the journal |
| `WorkerFence` | the fence of one attempt over several daemons | state machine |
| `Triggers` | requests under one idempotency key | state machine |
| `MeetingDelivery` | one member stream between hub and receiver | state machine |
| `MC*` | values, symmetry and composition for TLC | – |
| `RemindersProofs`, `ConversationProofs` | theorems about one module | proofs |
| `RequestsProofs`, `DaemonProofs`, `StoresProofs`, `TriggersProofs` | theorems about the compositions `MCRequests`, `MCDaemon`, `MCStores`, `MCTriggers` (which extends `MCMeeting`) | proofs |
| `SchedulesProofs` | theorems about `MCSchedules` and `MCFileLock` | proofs |
| `WorkflowProofs` | theorems about the two workflows, `AgentGraph` and `MCWorkflow` | proofs |

**Composition.** `MCRequests`, `MCStores`, `MCDaemon`, `MCWorkflow` and `MCTriggers` put
together components that have no variable in common. A safety property of one of them
holds in every interleaving if it holds while the others rest, and so does a liveness
property, since a resting component is in its initial state, where its fairness asks for
nothing. A variable chosen in the initial state (`way`, `store`, `service`, `part`,
`source`) says which one moves; TLC then explores the sum and not the product of their
states. The theorems are about the same compositions and carry the rest over in one frame
step per component.

### Reminders

`status`, `repeat`, `due`, `notes`, `events` are the tables; `phase`, `todo`, `job`,
`toSchedule`, `toRemove`, `runner` are the memory of each process. One action is one
SQLite transaction or one step of APScheduler. `create` and `cancel` are two actions
each, because the row is committed before the scheduler is told. `run_now` is
`GetReminder`, `FireSelect`, `FireCommit` or `FireLost`, `AddLearningEvent`: the
SELECT of `fire_reminder` does not lock, so a cancellation may come between it and
the conditional UPDATE. `Start`, `RestoreJob`, `RestoreOverdue` and `Resume` are
`start()`, which runs overdue one-time rows in line. `Crash` takes everything a
process has in memory. APScheduler is external: a due job is dispatched to a pool
thread, at most one at a time, missed runs are coalesced, and a run that starts
later than `misfire_grace_time` is given up. Time is counted in ticks; a day has
`DayLength` of them and the grace time `Grace`. `born` and `fired` are history: when the row
was created, and which process notified which occurrence of it. Two processes that restore
one daily row each notify every occurrence, as the code does. The parsing of texts and time
zones is left out.

`ReminderSpec` has only the tables and, per row, the set of deliveries that have
read it as scheduled; `Deliver` claims a one-time row that is still scheduled.
`Reminders` refines it with `reading` mapped to the runs between SELECT and commit.

### AgentGraph

One action is a node run to its checkpoint. `research_act` is split: `AskTools` is
its interrupt, `ActCall` one tool call, `research_act` its return; so a failure may
come after some calls had their effect. A model's reply, the wording of the question
and the result of a search are nondeterministic. An answer is the pair of the sets
of `[Sn]` and `[Wn]` marks in it, because that is what the quality gate looks at;
`QuotedMarks` are the marks of both kinds that happen to stand in the text of sources: an
excerpt may quote any of them, and the evidence-only list that replaces an answer which
failed the gate (`fallback`) is not checked again (workflow.py:453, 553-561). `supersteps`,
`webCalls`, `shown`, `granted`, `executed` and `failures` are history. `Fail` is a
node that raises; `Resume` is `Command(resume=...)`, which LangGraph gives to the
pending node after an interrupt as after a failure. What nodes write to other
tables is left to the other modules: the reminder node ends in
`Reminders!CreateRow`, the plan nodes in `Plans!SavePlan`,
`Plans!ReadPlan` and `Plans!WritePlan`.

### AgentRuns

`kind`, `status`, `answer`, `replies` are the run rows and messages, `ckpt` is the
thread's latest checkpoint, `stream` the requests in progress, `card` and
`pendingRun` the page (`frontend/app.js:3-5`). Every action of `Serve` is one step
of `_stream`. A stream goes on from the state it has itself written; whatever it
writes becomes the thread's latest checkpoint. `Snapshot` reads that latest
checkpoint, which may be another request's. `RunRefused` is a `prepare_turn` that
raises outside the `try`; `Disconnect` closes the generator or kills the process,
and no handler runs.

### Conversation

`messages` is the log by `sequence`, with the turn and role of each; `summary` is
the row with its `through_sequence` and, as history, the set `covers` of messages
that went into it. A turn is a program counter over the database calls of
`prepare_turn`, `complete_turn` and `maybe_summarize`; `add_conversation_message`
is a SELECT and an INSERT, because two connections may both read the same maximum
(`SelectNext`, then `Insert` or `InsertConflict`). `save_conversation_summary` is
likewise `ReadVersion` and `Save`. The token budget is a choice (`large`).
`Resume` is `agent_service.resume`: it carries the run id of an earlier request (`run`), and
when the thread's graph has ended by then it completes the turn once more and appends
another answer.
`overlapped` remembers that a turn began while another was running; what holds only for
a client that waits for its answers says so. `PageLimit > 2 * RecentLimit` is assumed
(the code has 1000 and at most 30).

### Bridge

`pending`, `uploaded`, `scheduled` are the state file; `inbox` and `turn` the queue and
the worker thread; `docs`, `ckpt`, `stream`, `stored` the part of the service the bridge
can see; `tasks` BotMux's scheduler. An upload, the fingerprint in the file, the turn, the
mirrored reminder and the final frame are steps of their own. A stream the bridge has
stopped listening to goes on in the service (the `lost` stream) until it ends; when a
later request runs beside it, `overtaken` is set, and the properties about the thread's
checkpoint carry that proviso: it is the overlap of `requests_overlap`, seen from here.
Faults are failed calls, lost streams and the death of the bridge, which is started again.

### Plans, Knowledge, Skills

`Plans`: `mark_plan_day` reads the active plan in one transaction and writes the whole
list of days back in another; `save_plan` is one transaction. `overlap` remembers that two
marks were in progress at once. Profiles have the same shape and are left out.

`Knowledge`: the row, the vectors and the status of a document are written one after the
other, each call may fail and the process may end between them; an upload runs on the
event loop, one at a time; deletions and searches run beside it. `Score`, `Fusion` and
`Limit` are the ranking operators, checked over every pair of rankings of the instance: a
chunk that both rankings put before another is not answered behind it, and each document
gets its share and no more. The reranker is off, and the weights are
the settings' defaults in hundredths (0.03 and 1, `rrf_k` = 60).

`Skills`: the directories of one skill of one user, file by file. Directories are known by
the upload that made them, because a name may come to mean another directory between two
steps. `mixed` remembers that a toggle overlapped an upload or a deletion.

### FileLock

`public`, `holder`, `maker`, `claim`, `owner`, `cand` are the files; `l` has the program
counter and locals of each process. Every system call of `withFileLock` is a step, with
the breaking of a dead holder's lock: link the claim, read the owner files, publish an
owner of the next epoch, check again, pin, verify, unlink, withdraw, sweep. Ages only delay
a break and are a free choice, with one exception that is an assumption: a lock without an
identity is breakable only when its creator is dead (a live one writes it right after the
open, and the code allows it a second). A restarted process is another process.

### TurnGate

`count`, `mutating`, `active` are the gate; `finished`, `pending`, `locked`, `queue` the
lease; `adm` and `mut` say where each call is. The daemon is one thread, so a step is the
stretch between two awaits; a waiter that was woken is in a state of its own until it
runs, and what it finds then may have changed. Bounded mutations have a timer. `Nested`
calls bring an admission of their own, `Floated` ones are not awaited by their handler.

### AskBroker

`pending` is the broker's map, `disk` its records, `card` the card in the chat, `hook` the
processes that wait. Registration, join, replay, re-attachment, toggles, submission,
replies, timeouts, sends with retries, restore and the connection are steps; the daemon may
die and connections may break between any two. The store's `put` and `remove` are best effort
(`Write`): one that fails is logged and leaves the record as it was (`stale`), and a restart
may then lose ticks and answers or bring a closed ask back (`spoiled`). Reads of the store are
assumed to succeed. Time is "the deadline is past", the hook's
first.

### Schedules

`store` is the task file, `snap`, `plan` and `adv` the tick in progress, `runs` the
executions, `zone` and `clock` the configuration and the wall clock. A mutation of the store
is one transaction and one step; the tick makes one after the other from the snapshot it
took, and commands may commit in between. Instants are relative to the present, a cron
expression is a daily one, and the tick's steps are shorter than a unit of time. `flipped`
is history: the zone changed again before a tick had seen the last change.

### Workflow

`j` is the record of the folds of the journal (`materialize`, the ledger of open attempts,
the attempt numbers); an operator on it is the effect of one appended event. `waits` and
`cards` are the gates, `proc` the worker processes, `local` the promises of the driving
process, `pc` and `plan` its loop. `Readiness` and the operators around it are
`decideNext`: conditional edges, join rules, skips, early release with its losers.
Operators approve, reject, retry, grant and cancel; a cancellation of a standalone run
comes from another process. `Crash` takes the promises and leaves the workers. Left out:
loops, host nodes and blocking gates, caps per bot and per CLI (`globalCap` is there), the
repair of journals of earlier versions. The drain of all attempts before a cancellation is
published is one step per attempt.

### WorkerFence

One attempt, followed over several daemons (`gen`): the fence file, the pool that arms it,
forks, binds and ends the worker, and the drain of an attempt that no promise waits for:
two empty scans 500 ms apart, or SIGINT and SIGKILL to a worker that was found. `Workflow`
takes from it that a drain ends only when the process is gone. Assumed: a forked process
shows up in `/proc` within the 500 ms; the check of a process's identity and the signal
after it are one step. `SlowSetup` lets the steps before the fork outlast two scans.

### Triggers

`lease`, `result`, `row`, `gen` are on disk, the rest is the daemon's memory. A key comes
with a fresh session per request or with a turn of a shared one (`sent`). From the claim to
the fork the daemon runs no other callback but may die at each durable write (`Busy`); a
durable write may fail (`used.faults`), a best-effort save may be lost, a device-isolation
freeze may begin while chat membership is looked up. A close is a durable write as well
(`CloseThrows`): when it throws, the worker and the registry entry stay and nothing tries
again in this boot; `unproven` is the history of such sessions. `Boot`, `Reconcile` and
`Restore` are the start of a daemon, which a failed write or close ends (`ReconcileThrows`,
`RestoreThrows`). One bot, one key, one daemon at a time.

### MeetingDelivery

`hub` and `recv` are the two files of one member stream in one epoch, `handler` the
requests in flight and the receiver's handlers, `live` the dispatches that still execute in
a worker or its pane, `terms` and `exits` what was reported and not yet handled, `fence` the
receiver's memory. A batch is known by its first sequence number. `Lose` loses a request or
an answer, `Timeout` gives up waiting, after which the hub posts again while the old request
may still be handled. The crash of the receiver and its boot are one step, as are the kill
of a pane and the proof that it is gone; receipts are not pruned.

## 3. The runs

| run | instance | shows |
|---|---|---|
| `reminders` | 2 processes, 1 row, 4 instants, 2 per day, grace 1 | `OnceClaimed`, `BooksTrue` (nothing early, no occurrence twice by one process, events accounted for, jobs kept), `CancelQuiesces`, `ImplementsReminderSpec`, `Settles` |
| `agent_graph` | 1 rewrite, 2 rounds, 3 tool calls, replies of up to 2 calls, a skill with both write tools, sources that quote a mark of each kind, 1 failure | `LoopBounded`, `SuperstepBound`, `FinalCited`, `WritesApproved`, `WritesNotRepeated`, no deadlock before END |
| `conversation` | 4 requests, questions or resumptions, window 1, page 3, 1 seed, 2 breakdowns; once two have overlapped, 3 requests, 2 at a time, and 1 breakdown | `SummaryCovers`, `RecentVerbatim`, `LogKept` |
| `requests` | page: 3 turns, 1 request at a time, 2 faults; bridge: 3 messages of 7 kinds, 1 attachment, 1 fault | `TurnsKeptApart`, `BridgeTrue`, `RunSettles`, `EveryMessageAnswered` |
| `requests_overlap` | page: 2 turns, 2 requests at a time, no fault | **violated**: `PlanConfirmed` |
| `stores` | plans: 2 clients, 3 days, 3 plans, 4 marks; documents: 2, of 3 and 1 chunks, any rankings, 2 faults; skills: 4 packages, 2 uploads, 2 toggles, 1 deletion, 1 crash | `PlanMarks`, `StoresAgree`, `AnswersRanked`, `SkillWhole`, `RejectedKeepsOld` |
| `file_lock` | 4 processes, 2 deaths, 4 lock files | `LockHolds` |
| `daemon` | gate: 2 handlers, 4 mutations (bounded, nested, floated, detached); broker: 1 hook, 2 options, 2 asks, 2 sends, 3 faults (restarts, connections, failed writes) | `MutationAlone`, `AskKept`, `EveryCallReturns`, `HookReturns` |
| `schedules` | 1 task of each kind, period 2, 2 runs, 2 zones, 2 zone changes, 1 crash | `SchedulesTrue`, `DueHandled` |
| `workflow` | 4 definitions of 3 or 4 nodes, up to 2 crashes, 1 retry, 1 grant; fence: 4 daemons, 2 blind scans | `WorkersAccounted`, `ResultsJustified`, `HistoryKept`, `RunMoves`, `AttemptSettles` |
| `triggers` | key: 2 requests, same or different payload, 3 boots of which the first may die while it serves, 2 mishaps (failed writes or closes, 1 lost save, 1 freeze); meeting: final marker, 2 dispatches, 1 restart | `TriggerOnce`, `FailedStaysFailed`, `AnswersSettle`, `HeadSettles` |
| `meeting` | 3 instances: 2 open requests; restarts of both daemons with removal; retries by budget and by hand | `ExactlyOnce`, `SettledKept` |

Where a property of a run is a conjunction, its definition names its parts, which are
defined in the module they are about; `TypeOK` of each module is one of them.

**Bounds.** Two processes are enough for the races of `fire_reminder`: its only shared
object is one row. Four instants hold a missed occurrence, one within and one beyond the
grace time. With two rounds and three calls a batch of two exhausts the budget in its
second round with one call cut off; two write calls tell "this call was approved" from
"some call was". Three turns of a thread allow a card passed over, a second card and a
stale click. With a window of one message and a page of three, three turns, two
of which overlap at a time, write two summaries, one over the other. Three bridge messages are a plan, a decision that
fails, and its repetition. Two documents, one with more chunks than its share, are what
`Limit` tells apart. Four lock processes are a holder, a dead breaker, its successor and
one more: the least number in which a deleted owner file matters. The gate's four calls
give a mutation of each kind, two of them siblings under one lease. The definitions of
`MCWorkflow` have, between them, both kinds of join, an early release whose loser is still
needed, a gated source and a gated join, a cone with a done, a running and an unstarted
node, and a run cancelled from outside. Two boots and two requests are the shortest retry
across a restart; a third boot is the one that follows a start which died of a failed write or
close. The bounds named `Max...` appear only in guards of the environment or
stand for a setting of the code.

**Fairness.** Nobody is obliged to send, click, cancel, start or crash; every fairness
condition is one of a loop, thread or timer that the code keeps running.

* `Reminders`: weak fairness of the clock and of the threads of a live process: they block
  on nothing but SQLite's busy timeout, and an error ends the step (`RunError`).
* `AgentRuns`, `Bridge`: weak fairness of each request's own steps (the server drains the
  generator while the client reads), of the bridge's worker thread, of a left stream's end
  and of the bridge's restart by BotMux.
* `TurnGate`: actions end, promise jobs run, timers fire. `AskBroker`: the daemon is
  started again, timers fire, sends go on, a hook that has begun posts again.
* `Schedules`: the interval timer and the end of an execution are strongly fair (each waits
  for a moment between two loops, which keeps coming), each loop runs to its end, a dead
  daemon is started again.
* `Workflow`, `WorkerFence`: the drive loop and the drain run, workers report or exit,
  SIGKILL ends a process, the daemon is started again.
* `Triggers`: requests, turns, background closes and the boot end, and so does a freeze.
* `MeetingDelivery`: the pump runs, turns end or their lease expires, exits are reported,
  teardown ends; and, strongly, a request posted again and again is at last handled and
  answered within the hub's 30 s, and a dispatch tried again and again is taken.

**Where a run may stop.** `AgentGraph` stutters at END only (`Ended`) and `Reminders` has a
clock that never stops, so a stuck state is a deadlock there. The other systems are at rest
when the bounded inputs are used up; their configurations say so and do not check deadlock.
What must not be left waiting in them is said by the liveness properties.

### What the violated run shows

`requests_overlap`: README.md:25 says that a plan is stored only after confirmation.
`resume` takes the thread's latest checkpoint whatever `run_id` says
(agent_service.py:48-51). If a second message on the thread gets to its own plan between
the first card and its answer, the answer approves the second plan.

### Limits of the code that the properties step around

Some statements of comments or docs hold only under a proviso. The property then carries
the proviso in its text, or the module keeps the full statement as a definition that no run
checks (named in brackets), which TLC refutes on the instance described.

| where | the statement, and when it does not hold |
|---|---|
| workflow.py:297 | README.md:162 has "不要联网" force the local mode; the policy is read by `decide_evidence` only, and deep research takes its tools from the skill and the configuration [`AgentGraph!LocalModeForced`] |
| workflow.py:453 | the quality gate rejects an answer that numbers a source which was not retrieved; the list that replaces it is not checked itself, and may number such a source by a mark that stands in the text it quotes (`FinalCited` says so for `fallback`) |
| agent_service.py:78 | a card of a finished run that is answered again, or a resumption of a thread whose graph has ended, completes the turn once more: the same answer is appended again under the same run id (`QuestionThenAnswer` bounds the answers by the requests) |
| ask-persist-store.ts:180 | a record that could not be written or removed is only logged; a restart then loses the user's ticks or the answer, or asks a question again that is over (`MemoryDiskAgree`, `StashDurable`, `TicksKept` carry `stale` and `spoiled`) |
| worker-pool.ts:6610, daemon-background-close.ts:33 | a close whose durable write throws is not repeated: a caller told `queued` or `failed` polls `running` until a later boot closes the session. If the boot that found it died between the removal of a reserved lease and the close of its session, no later boot looks for it and the poll says `running` for good (`AnswersSettle` excludes sessions in `unproven`) |
| workflow.py:279 | README.md:46 draws every branch through `finalize`; if all items of the model's task list are blank there is no branch and the turn ends with an empty answer [`EveryBranchFinalizes`] |
| database.py:358 | of two overlapping marks of different days one is answered and lost (`MarkHoldsAlone` has the proviso) |
| bridge.py:277 | an upload whose answer is lost is stored again by the retry, in spite of the fingerprint [`NeverIndexedTwice`; `IndexedOnce` has the proviso] |
| bridge.py:172 | a cancellation sent after a confirmation whose stream failed behind the `approve_plan` checkpoint is answered "已取消", and the plan is stored [`CancelHonoured`] |
| skills/service.py:88 | a crash between unpacking and renaming leaves a directory that `list()` offers, also when the skill is disabled |
| skills/service.py:105 | a toggle that read the manifest of one package writes it into the directory of the next, which may then not load |
| file-lock.ts:600, :378 | the sweep may delete the owner file of a live breaker [`OwnerKept`]; with two deaths and a breaker delayed by more than a second, two processes may then be in the section |
| bot-turn-mutation-gate.ts:186 | a nested admission begun while a sibling's upgrade has given up the lease stands apart from its handler, and a mutation inside it waits for the handler that awaits it (`Apart`) |
| ask-broker.ts:413 | an ask that times out while dormant is settled but still dormant, and a hook attached to it afterwards waits for ever |
| scheduler.ts:451 | the advance before execution is made for recurring tasks only: a one-shot is fired again by a tick during a long execution or after a crash in it [`NothingRefired`] |
| scheduler.ts:413 | the tick compares the zone with that of the last tick: a zone that changed twice in between, back to where it was, is not seen, and a cron task scheduled under the zone in between keeps a next run of that zone (`ZoneAligned` has the proviso `~flipped`) |
| shared-node-runtime.ts:2893, :2895 | after a death between the supersede events of a revisit a stale product stays; a skipped node is not reconsidered after a revisit (`FreshInputs`, `SkipJustified` have the provisos) |
| shared-node-runtime.ts:2657 | a loser cancelled while its manifest is validated still has its revisit carried out [`ObsoleteMute`] |
| shared-node-runtime.ts:1061 | a standalone run cancelled between the read of the journal and the claim throws instead of converging (`NeverThrows`, `CancelConverges`) |
| botmux-attempt-lease.ts:109 | when the steps before the fork outlast two scans, a drive of the same daemon proves an attempt closed whose worker is yet to be forked (`ProofMeansGone` with `SlowSetup`) |
| trigger-session.ts:1337 | when the barrier of a keyed turn throws, retries are answered `queued` for a turn that was not dispatched |
| trigger-session.ts:963 | a freeze that begins during the membership call defers a keyed turn's fork past an answer `failed` |
| daemon.ts:6767, vc-meeting-delivery-store.ts:1145 | the fence is checked before an await and kept in memory: with two open requests, or after a restart of the receiver, a batch may be dispatched beside its old run (`OneRun` is stated for one request and no restart) |
| vc-meeting-delivery-store.ts:918 | a claim from `failed_terminal` does not look at the poison mark [`PoisonHolds`] |
| vc-meeting-delivery-store.ts:766 | a batch frozen before a restart of the hub and not yet accepted is refused as of a stale boot until the member is retired (`HeadSettles` is stated for one boot of the hub) |

Beside the runs, `FileLock!StaleLockGoes` (a dead holder's lock is broken, or the waiter
gives up with an error) holds under `FileLock!FairSpec` for three processes, two lock files
and two deaths; it is not part of `file_lock`, whose instance is too large for liveness.

## 4. The proofs

TLAPS proves the following for all values of the constants allowed by the named
assumptions of each module (budgets and bounds are naturals, the rest is arbitrary).

| theorem | statement | argument |
|---|---|---|
| `RemindersProofs!TypeCorrect` | `Spec => []TypeOK` | inductive as it stands; lemmas on slots of the day and on moves of a runner |
| `RemindersProofs!OnceExactlyOnce` | `Spec => []OnceClaimed` | only three transactions touch a row (`RowSteps`); the conditional UPDATE moves `status` and `notes` together |
| `RemindersProofs!NeverEarly` | `Spec => []NotEarly` | `SlotInv`, see `BooksHold`: a run before its transaction is of an occurrence that has come since the row's creation |
| `RemindersProofs!Refinement` | `Spec => ImplementsReminderSpec` | every action is a step of `ReminderSpec` or leaves its variables alone, given `ReminderInv` |
| `RemindersProofs!CancelledQuiesces` | `Spec => CancelQuiesces` | a run reads the row as scheduled or not at all (`Committers`), and a cancelled row is never scheduled again |
| `RemindersProofs!BooksHold` | `Spec => []BooksTrue` | a notification moves its run to the event step in the same transaction; `SlotInv`: a run that has not reached its transaction is of an occurrence that has come and that its process has not notified (`RunSlot`), and the job of a daily row is set for an occurrence after all those (`JobSlot`); a row a process undertook is on a list, in a run, or has a job |
| `WorkflowProofs!BudgetsKept` | `Spec => []WithinBudgets` | `LoopInv`: a loop is entered only while its budget lasts (`Ahead`), a batch is cut to what remains (`TruncatedFits`) |
| `WorkflowProofs!LoopsBounded` | `Spec => []LoopBounded` | types, `LoopInv` and `CauseInv`: nothing the cause of a web search depends on changes after it |
| `WorkflowProofs!TurnsBounded` | `Spec => []SuperstepBound` | `Depth`: each node lies a fixed number of supersteps from START plus three per research round or four per rewrite |
| `WorkflowProofs!FinalsCited` | `Spec => []FinalCited` | `CitedInv`: `final` is set by the quality gate only, whose check admits only numbers of what was retrieved (`CheckedCited`) and whose list has every source under its own mark beside what it quotes (`ExcerptsCited`), and no search follows |
| `WorkflowProofs!WritesOnlyApproved` | `Spec => []WritesApproved` | `ConsentInv`: at `research_act` an answer exists only for a batch whose writes were shown; an approval puts the whole batch into `granted` |
| `WorkflowProofs!WritesOnce` | `Spec => []WritesNotRepeated` | `RepeatInv`: a write that is on record, of the checkpoint or of the execution under way, was made at most once more than executions failed, one that is not at most as often |
| `ConversationProofs!ConversationTypes` | `Spec => []TypeOK` | part of `MemoryInv` |
| `ConversationProofs!NoGaps` | `Spec => []SummaryCovers` | `MemoryInv`: every summary a turn has read, stale ones included, is itself without gaps, and so is what it computes from it |
| `ConversationProofs!NewestKept` | `Spec => []RecentVerbatim` | `MemoryInv`: the log only grows, so a mark that left the window alone when it was computed still does when it is saved |
| `ConversationProofs!LogIsKept` | `Spec => []LogKept` | `LogInv`: a request's rows in the log are those its program counter has passed (`LogOf`), and one that may answer is of a run whose question is stored; `SerialInv`: while nothing has overlapped one turn at most is under way, and the backlog behind the summary is bounded by the window, the seeds and the breakdowns |
| `RequestsProofs!TurnsApart` | one request at a time `=> (FairSpec => []TurnsKeptApart)` | `ApartInv`: until a request breaks down, the thread's latest checkpoint is that of the request in progress, or of the card that is pending |
| `RequestsProofs!BridgeKeepsTrue` | `FairSpec => []BridgeTrue` | per phase of the worker thread, what file, service and scheduler have of the message at hand |
| `DaemonProofs!MutationsAlone` | `FairSpec => []MutationAlone` | `GateInv`, see below |
| `DaemonProofs!AsksKept` | `FairSpec => []AskKept` | `AskInv`: a predicate of one hook's ask, record, card and process (`HookInv`), with what a failed write leaves true of the record (`stale`) and of the next boot's entry (`spoiled`), kept by every step on that hook and framed by the others |
| `StoresProofs!MarksKept` | `Spec => []PlanMarks` | a client's copy of the days is the plan's own until another mark is committed; it is written to the plan it was read from |
| `StoresProofs!SkillsWhole` | `Spec => []SkillWhole` | `SkillInv`: the installed directory is whole, or an upload or deletion is removing it and has exactly what is left of it on its list |
| `StoresProofs!RejectionHarmless` | `Spec => RejectedKeepsOld` | from the same invariant: the package in the hands of an upload that removes has passed the checks |
| `SchedulesProofs!SchedulesHold` | `FairSpec => []SchedulesTrue` | `SchedInv`: the next run in the file, in the tick's snapshot and in its plan each lie after the last fire or too late to be fired for (`Copies`), and in a zone the next tick can tell (`Zoned`) |
| `TriggersProofs!KeyedOnce` | `FairSpec => []TriggerOnce` | `Barred`: of a turn nothing shows, on disk, in memory or in a CLI, before the lease is attempting for it, and no step takes that back; see below |
| `TriggersProofs!FailureIsFinal` | `FairSpec => FailedStaysFailed` | `Told`: a turn reported failed belongs to a request that is over, and only a request at the barrier or a deferred fork hands an input over |
| `TriggersProofs!ItemsExactlyOnce` | `MeetingSpec => []ExactlyOnce` | `StreamInv`: the receiver's cursor is the hub's or one frozen batch ahead (`Cursor`), everything below it was completed by one batch each (`Tiled`); `SingleInv`, for one request at a time and no restart: a live turn is the only one and its receipt still stands for it |
| `TriggersProofs!SettledIsKept` | `MeetingSpec => SettledKept` | from `StreamInv`: only the frozen batch is completed, and an owner changes only to a later boot (`OwningStep`) |
| `SchedulesProofs!LockIsHeld` | `LockSpec => []LockHolds` | `LockInv`: the owners an epoch names below its published one are dead, so a claim has one live owner; see below |
| `StoresProofs!StoresInStep` | `Spec => []StoresAgree` | `KnowInv`: nothing is left of the row of a deleted document and an upload under way is of one not deleted (`DocsTrue`); a search's rankings have no chunk of a document that was gone when it began (`SearchTrue`) |
| `WorkflowProofs!FlowSafe` | `FlowSpec => []FlowInv` | `LedgerTrue`, kept by every event of the journal; see below |
| `WorkflowProofs!WorkersOnRecord` | `FlowSpec => [](BoundaryQuiet /\ NoFalseClose /\ OneWorker)` | workers alive are open attempts (`Living`), a node has one of these at most, a run that is over has none |
| `WorkflowProofs!FenceTellsTruth` | `~SlowSetup => (FlowSpec => [](F!TypeOK /\ ProofMeansGone /\ TombstoneTrue /\ NoUnfencedWorker))` | `FenceInv`: what is true before the fork (`BeforeFork`), of a living worker (`LivingFenced`) and of what a scan or drain has found (`WhatIsFound`) |
| `WorkflowProofs!DriverMoves` | `FlowSpec => []NeverThrows` | `Moving`: while the driver dispatches there is something the tick has moved, will move or can wait for (`Progress`) |
| `WorkflowProofs!WorkersKept` | `~SlowSetup => (FlowSpec => []WorkersAccounted)` | the three above; the types from `FlowInv`, `Waits` and `Kept`: instances are bounded by revisits and grants, orphans by crashes |
| `WorkflowProofs!PastStays` | `FlowSpec => HistoryKept` | `Keeps` and `Fresh`: what every event leaves in place, and the numbers a dispatch may give out |
| `StoresProofs!RankedWell` | `Spec => []AnswersRanked` | what `Ordered` and `Picked` return; the score of reciprocal ranks falls with the rank (`QuotientFalls`), so a passage both rankings prefer comes first (`AgreedIsBetter`), ties by first appearance |

Hardly any of these invariants is inductive by itself.

* A stale summary in a turn's hands may be written at any later time, so `MemoryInv` speaks
  about what every turn holds. A budget is not kept by looking at the counter alone,
  because the test is made in another node than the increment; `Ahead` carries it.
* That a mutation runs alone is decided several callbacks before it runs: the call that
  closes the gate waits for the leases to drain, and meanwhile leases are lent to nested
  calls, given up by upgrades, taken back, and timed out. `GateInv` therefore says whose
  each count is (`CountTrue`), who carries a lease (`Carriers`, `Lent`), that a closed
  gate has one owner (`GateOwned`) and that past the drain nothing is left but the owner's
  own (`Drained`), that a lease knows its pending calls (`PendingTrue`), its upgrade slot
  one owner (`SlotOwned`) and its queue each waiter once (`QueueOnce`). The removal of a
  waiter from the middle of the queue by its timer (`Splice`) is what `QueueOnce` is for.
* Two removers of one skill directory delete file by file. Each has a list of its own; that
  together they leave nothing and that neither stumbles is only true because both lists
  come from `os.scandir` in the same order, so `SkillInv` carries the order.
* That one request at most runs under a key is not visible in what ran: the lease can be
  released, taken over in a later boot or found again after a crash at any write.
  `TriggerInv` says that everything that shows of a turn is behind its barrier (`Barred`),
  what a request still knows after each await (`Stages`: between claim and dispatch the
  lease is its own, of this boot), and where the lease's owner can be (`LeaseTrue`).
* A tick writes what it computed from a snapshot, while commands commit in between.
  `SchedInv` therefore says of every copy of a next run what the property says of the
  stored one. Its proof first failed at a second change of the zone, which the bounds of
  `schedules` had left out: the tick does not see a zone that came back. The model now has
  `flipped`, the property its proviso, and the run two changes.
* The meeting stream is kept in two files that are written one after the other, and a crash
  may fall between the writes. `StreamInv` says where each file's cursor can be relative to
  the other, that every receipt and every open request is of a batch that was really sent,
  and that no file is owned by a boot still to come; only together do they exclude a second
  delivery.
* A lock file is broken in two system calls, and a breaker may sleep between them. `LockInv`
  says that every owner named below a published epoch is dead, and, since the property is
  claimed for one death only, that the file the dead process left is one: while it is in
  place its breaker finds what it expects, and once it is gone nobody reaches the unlink.
  With more deaths, or an owner file deleted by hand, the statement is false.
* The ledger of a workflow run is changed by some twenty kinds of events, many of them late:
  the verdict of a worker whose node was superseded or cancelled meanwhile, a click on the
  card of an older instance. `FlowInv` says what the ledger is at every step (`LedgerTrue`:
  only the instance a node works on is not superseded, an open attempt is the last one of
  its instance and the only one of its node, what runs is on record), which part of the
  ledger the daemon's memory still agrees with (`MemoryFine`, `Busy`), and at which places
  of the driver no worker can be left (`Draining`, `Acting`, `Ending`). Each event is an
  edit of one node and one of its instances (`Edit`), which keeps `LedgerTrue` when the new
  node is fine by itself (`EditKeeps`); events for several nodes at once combine
  (`TogetherKeeps`). `SkipJustified` and the numbers of attempts turned out to be stated for
  the instance only: the first has now the proviso it needs (no result was superseded), and
  the second no bound.
* The rankings of the knowledge store need what a fold or a sort computes, which would be
  induction over data. The model orders a set by counting places (`Ordered`, `Picked`), and
  the proofs argue by cardinality and by a least counterexample. The scores are the exact
  fractions; the program rounds them to eight places, finer than the scores of the run
  differ.

* A worker is accounted for by three records that different processes write: the journal, the
  fence file and the daemon's memory. `WorkersKept` puts together what is true of each. That
  the numbers of instances and attempts stay within the model's types is not obvious either:
  every new instance must be charged to a revisit, a grant or the budget that allowed it, so
  `Kept` counts them per node over the events still to be appended (`CountsIn`), and charges
  every orphaned attempt to a crash (`OrphansIn`).
* A reminder that a process notifies twice would pass through two runs, or a run and a job.
  `SlotInv` orders the occurrences in a process's hands: notified ones, that of the run under
  way, that of the job.

TLC checked `GateInv`, `AskInv`, `SkillInv`, `TriggerInv`, `SchedInv`, `StreamInv`, `SingleInv`,
`LockInv`, `FlowInv`, `FenceInv`, `Moving`, `Kept` and the others on the runs' instances
before the proofs.

The assumptions the proofs add to those of the models are facts of the code: kinds of
messages differ from "no message" (`Bridge`), a package ships files with names that can be
listed in some order (`Skills`), there are finitely many chunks (`Knowledge`), a page is longer than two windows (`Conversation`), the
daemon boots at least once (`Triggers`).
`TurnsApart` assumes one request at a time; without it the statement is false, as
`requests_overlap` shows. `FenceTellsTruth` and `WorkersKept` assume `~SlowSetup`: the steps
before the fork of a worker take less time than lies between two scans (500 ms).

**Only model-checked.**

* Liveness (`Settles`, `RunSettles`, `EveryMessageAnswered`, `EveryCallReturns`,
  `HookReturns`, `DueHandled`, `RunMoves`, `AttemptSettles`, `AnswersSettle`,
  `HeadSettles`) and the absence of deadlock: out of the prover's reach.
* `ResultsJustified`: not proved. It follows a product through the nodes that used it, so
  its invariant has to speak about whole paths of the graph and of the history.

No module declares a RECURSIVE operator, so all of them can be proved about.

## 5. What is not modelled

* The content of texts: prompts, wording, parsing of reminders and of schedule
  expressions, splitting of documents, the normalisation of summaries, cards.
* LLM, web search, reranker and chat clients: any reply, or none, is assumed.
* HTTP routes, MCP tools, the runtime object and configuration: they pass calls on.
* User profiles: a read-modify-write of the same shape as the marks of `Plans`.
* In `AgentGraph`, the death of the process between a checkpoint and the storing of an
  interrupt. In `AgentRuns`, turns whose answer is empty and turns that interrupt for tools.
* Of BotMux, everything whose state is one process's memory of a third-party program or of
  a user interface: the worker and its parsing of terminal screens and transcripts, terminal
  backends and CLI adapters, the dashboard and its pages, the command line, the chat
  adapter's messages and cards, set-up, platform enrolment and desktop shell, translations,
  plugins and reports. These make up most of BotMux's 450,000 lines of TypeScript. Their
  state changes are calls to the stores modelled here, or assignments without a protocol.
* The queues per session of the worker pool, and the proposals and approvals of the meeting
  agent's actions, have protocols worth a module and do not have one yet.

The models stand for about 10,000 source lines, 8,300 of them BotMux's.

## 6. Plan

Done, in this order: reminders (abstract specification, refinement, proofs), the graph,
runs, conversation; then the bridge, plans, knowledge store and skills; then BotMux's file
lock, gate, ask broker, scheduler, workflow engine and worker fence, keyed triggers and
meeting delivery.

Then the proofs of the LearningFlow modules and of the gate, the broker, the
scheduler, plans, skills and keyed triggers; then those of meeting delivery, the file lock
and the knowledge store, and of the workflow engine, its driver and its fence.

Next theorem: `ResultsJustified`.

Next modules: the session queues of the worker pool (`worker-pool.ts`); the action store of
the meeting agent; a refinement of `Workflow`'s drain by `WorkerFence`.
