# Custos harness: TLA+ models and proofs

This directory holds a formal model of the harness in `src/harness` and
`scripts/`: a system that hands tickets to autonomous coding agents, has their
work judged by a separate verifier, and merges what passed. The models are
written from the code. The comments of the code name the incidents they were
written after, and the properties here are mostly those incidents stated once
and for all.

Paths below are relative to the repository; `file.py:n` without a directory is
in `src/harness/`.

## 1. The system

| Component | State | Operations | Shares state with |
|---|---|---|---|
| dispatcher (`dispatcher.py`) | in memory: a slot per running seat, failures per ticket, 60 s caches | tick, seat a ticket, start an agent thread, prepare its tree, verify on close, sweep external leases | everything below |
| worker (`worker.py`) | none of its own; a checkpointed thread per ticket in Postgres | run or resume a ticket, decide the outcome, commit, land, close | board, trees, verifier |
| verifier (`verifier.py`, `verifications.py`) | last verdict per ticket in Postgres | is it awaiting a verdict, judge, land, requeue, accept for a person | board, trees, threads |
| board (`beads.py` over `bd`) | status, metadata, `human` label, dependencies | claim, close, reopen, release, flag, respond, dismiss | every process |
| trees (`workspaces.py`) | a worktree and branch per ticket, one integration branch and checkout per project, a tip marker, a merge lock | reset, commit, diff, merge, revert a rogue move, discard or absorb strays | agents, verifier |
| scheduler (`scripts/run_scheduler.py`) | none | verifier, escalations and reporting jobs in turn | board, verifier |
| escalations (`escalations.py`) | attempts and answers in ticket metadata | queue, requeue, resolve, leave to the owner | board, verifier |
| external seats (`external.py`) | leases in metadata, submissions in Postgres | request, heartbeat, submit, release, sweep | board, dispatcher, verifier |
| product-owner (`product_owner.py`) | none | triage, seat, plan, hire | board |
| agent graph (`graph.py`, `permissions.py`, `classifier.py`) | message history | turns, permission gate, completion nudge, repair of dangling calls | worker |
| routing (`routing.py`) | cooldown and degraded marks, a semaphore per provider | choose a provider, fall back | every model call, agent limit |
| self-modification (`self_mod*.py`, `scripts/run_self_mod_*.py`) | proposal rows | propose, sandbox, review, approve, deploy, roll back | board, the live tree |
| API, MCP server, integrations | none | a person's answers; reports | board, verifier |

They interact through four stores that share no transaction: the board (`bd`
commands), git, Postgres, and the dispatcher's memory. Every handler is a
sequence of calls on them, and the processes (dispatcher threads, scheduler,
API, external sessions) interleave between any two calls. That is where the
behaviour is hard:

* a ticket is *shown*, judged for minutes, and acted on by what was shown;
* `close` releases a ticket's dependents before `land` puts its work where they
  start from;
* requeueing is five updates in two stores, any of which may raise or be the
  last before a crash;
* a person may answer a parked ticket at any moment;
* everything is retried, and every retry has to end.

What makes each component correct:

* **verifier, trees:** only reviewed work is merged; every verdict is acted on;
  rework is bounded. (`TicketLifecycle`)
* **dispatcher, worker:** one thread per tree, clean fresh attempts, no lost
  slot, no ticket left to itself. (`TicketLifecycle`)
* **integration branch:** trees are cut from accepted work and hold their own
  edits and an ungated move is undone. (`IntegrationBranch`)
* **external seats:** whatever calls, sweeps, polls and verdicts do between each
  other's updates, a ticket in the pool can be claimed and one in progress is
  somebody's to give back, nothing lands against its rule, an abandoned lease is
  released and no submission holds the dispatcher up for good. (`ExternalSeats`)
* **escalations:** two budgets that write one counter still end; what the session
  has resolved is never requeued. (`Escalations`)
* **agent graph, permissions, routing:** every request is one a provider accepts,
  forbidden commands never run, a settled thread stays settled, nudges come
  once and no permit leaks. (`AgentGraph`)
* **roadmap selection:** what is taken next is the first of what may be taken.
  (`Roadmap`, as definitions the external seats' machine is built on)
* **self-modification:** nothing is committed without a clean sandbox run, an
  allow and a person's yes; a commit is its proposal's diff; a deployment closes
  the ticket that asked for it; every proposal is tested. (`SelfModification`)

The full list of hazards, each at its line, is `hazards` in `PROJECT.json`.

## 2. Modules

| Module | What it is |
|---|---|
| `GatedMerge` | abstract specification of the integration branch: work is approved by a verdict or a person, only approved work is merged, merged work stays |
| `TicketLifecycle` | dispatcher thread + worker + verifier + scheduler's verifier + person + crashes, on one project's tickets; implements `GatedMerge` |
| `IntegrationBranch` | one project's repository: trees, branches, the merge in its steps, the tip marker and its unlocked check, stray edits, agents that move the branch; implements `GatedMerge` |
| `Roadmap` | what is worked next, as pure definitions: order, parents, blocked tickets, holds, fronts, what outranks what |
| `ExternalSeats` | sessions outside the harness on the same board as the dispatcher; extends `Roadmap` |
| `Escalations` | parked tickets: the product-owner's queue, a person's answers, the verifier and agents that take up what either reopens or closes |
| `Routing` | a call of a model down its chain of providers |
| `Permissions` | what the permission layer decides about a tool call by itself, as pure definitions |
| `AgentGraph` | the agent loop and its checkpoint; extends `Routing` and `Permissions` |
| `SelfModification` | the harness changing its own source |
| `MC...` | the instances for TLC of each |
| `TicketLifecycleProofs`, `GatedMergeProofs`, `VerdictProofs`, `IntegrationBranchProofs`, `EscalationsProofs`, `AgentGraphProofs`, `SelfModificationProofs`, `ExternalSeatsProofs` | theorems and proofs |

### How `TicketLifecycle` corresponds to the code

State, by store:

* board: `status`, `seat` (`assigned_seat`), `flagged` (the `human` label),
  `decided` (`human_decision`), `reworks` (`rework_count`), `summary` (is there
  a `completion_summary`), `work` (the commits `work_commit` spans; `{}` is
  none), `declined`;
* git: `branch` (what the ticket's branch holds beyond the tip it was reset
  to), `dirty`, `made` (commits numbered so far), `landed` (what the
  integration branch has of the ticket);
* Postgres: `thread` (no checkpoint, unfinished, ended), `verdict`;
* memory: `agent` (per seat: program counter, ticket, the head the run began
  at, the commits it found), `failures`, `check` (per process that verifies or
  lands: program counter and what it read);
* history, read by no action of the code: `approved`, `requeues`, `reseated`, `faults`.

A commit is a number and an author: `git log --all` attributes the harness's
commits by their subject and falls back to `work_commit` for an agent's own.

The worker's thread is `claimed -> prepared -> working -> ended -> commit ->
record -> (landing ->) closing -> verifying -> over`, with `done` for the runs
that end early and `failed` for one that raised. The verifier's is `shown ->
judged -> land | redo -> reopen -> reset | park`. The steps are cut where the
code calls into a store another process writes; what only one process can see
is one step. A worker that lands work nobody judges runs the same `land` as the
verifier, so both share `check`.

What is abstracted, and why it is sound:

* The verdict is free: `RecordVerdict` may pass or fail anything. How it comes
  about (checks, commands, a model) is data. Likewise what an agent edits and
  when it stops.
* Any eligible ticket may be started, orphans first. Roadmap order, project
  holds, parents with open children, toolchain gaps and external seats only
  withhold a start, so they remove behaviours. `MaxAgents` stands for either
  cap of `agent_limit`.
* Selecting and claiming is one step: `claim` is forced, and only the
  dispatcher's one loop starts internal agents. The assignee is not modelled;
  the scheduler's listing by assignee is taken as "has a seat".
* `assign_ticket` has no guard in the code, and `AssignTicket` has none: any
  ticket may get any seat at any time. `reseated` remembers the tickets that got
  a second seat while a thread had them; two threads can then be in one tree,
  and the properties that speak of one ticket's attempts except those tickets.
  `OneWorker` says that nothing but such a re-seat does it.
* The updates of `requeue_for_rework` to one ticket's metadata are one step, in
  which each unset may fail (it is logged and passed over), as
  are a person's note, label, decision and close, and `accept_and_merge` as a
  whole. Its first failing update and its later ones are separate steps.
* A conflict may happen in any merge that has something to merge: the model
  does not know whether the tip moved, and "would be overwritten" counts as a
  conflict in the code too.
* `CommitWork` may make no commit on a dirty tree: `git commit` may fail and
  the worker only logs it.
* `AcceptedWork` takes "beyond the integration branch" as "not landed yet".
* A failure count stops at its limit; past it the ticket is flagged either way.
  The call that flags it is assumed to succeed.
* The escalation requeue is left to `Escalations`: here `ReworkBudget` is per
  escalation, there `EffortBounded` is per ticket.
* The merge is one step; its steps are `IntegrationBranch`'s.

### How `SelfModification` corresponds to the code

State: the rows of `self_mod_proposals` (`status`, `diff`, `owner` for
`ticket_id`, `result` for the sandbox's counts, `verdict`), numbered in the
order of `created_at`; on the board, whether a ticket is `flagged` or `closed`;
the self-modifier's `checkout` (what it was synced from, its edits since), one
for all sessions; a session per ticket and its thread; the real tree (`head`,
`uncommitted`, and per proposal the `commit` it made); the loop's and the
reviewer script's place; `recent`, the rows deployed in the last 24 hours.
`raiser`, `base`, `seen`, `yes` and `faults` are history: the ticket whose
session raised a row, the tree its diff was made on, what a person was shown and
said yes to.

Source text is a set of edits, so a diff, a commit and a tree are sets.
`git diff` in `propose_self_modification` leaves the edits in the checkout, so
later proposals are cumulative, and `sync_checkout_from_live` refuses while they
are there: both are as in the code. `git apply` of a diff whose edits are in the
tree already fails; on the tree it was made on it succeeds; on any other it may
do either. What `propose` cannot see (a new file `git diff` does not list) is
not an edit. The checkout is taken to have been synced once.

The loop's cycle is cut at every command another process or a crash may fall
between: `sandbox`, or `chosen -> applied -> tested -> committed -> built ->
over`. The outcome of a sandbox run, of the final test run and of the image
build is free. The rebuilt dispatcher loses its sessions, not their threads; a
failure to recreate the services is only logged. A listing by the reviewer is
its queue, so a row may have changed when its turn comes.

Abstracted: one run at a time of the reviewer script (it is started by hand);
the manual sandbox and deploy scripts, which would run beside the loop without
its cap; `SELF_MOD_AUTOPILOT` is on; a person answers only what a dashboard has
listed, but at any time afterwards and as often as they like; flagging a ticket
succeeds, and nobody takes the flag off. A session with no proposal left to make
in the instance leaves the checkout alone (`MayPropose`).

### How `IntegrationBranch` corresponds to the code

State: git (`master`, each ticket's `branch`, `tree` for its worktree's files,
`checkout` for the project directory's own index and files, `strays` for what
agents wrote there), the files beside it (`marker` for `.integration_tip`,
`lock` for `.merge.lock`), and per ticket the step its handling is at (`at`),
with what the check of the tip has read (`seen`). A commit is the set of commits
it descends from and the edits its tree holds. A ticket edits one tracked file
(`mod`), adds one (`add`), and leaves one in the project directory that it gives
to `git add` there (`staged`), because git treats the three differently when a
checkout is reset, restored, cleaned or stale. `git checkout -- path` restores
from the index, so what was staged survives the discard and the absorption and
is copied into the trees of the next tickets until a merge resets the checkout:
`OwnWork` excepts it (section 6).

A ticket goes `open -> prepare -> discard -> check -> compare (-> restore) ->
run -> absorb -> commit -> close -> check ... -> judge -> lock -> merge ->
record -> landed`, the order of `_agent_thread` and `work_one_ticket`. The check
reads the marker and the tip in two steps and takes no lock; the merge moves the
tip and records it in two steps under the lock. A crash drops the lock and may
leave a marker empty.

Instances choose how far agents go (`Moves`), whether tickets are judged outside
the dispatcher while agents run (`Outside`, which the scheduler's verifier,
external submissions and a person's accept all do) and how many agents run.
Run `integration` takes one agent and judges its tickets in its slot only; run
`unlocked` puts one judgement beside the agent, as the scheduler's job does,
and there a landed merge is taken off the branch (section 6). `BaseAccepted` and
the refinement are theorems for any number of agents with `Outside`, as long as no
agent moves the branch itself.

### How `ExternalSeats` corresponds to the code

State, by store: the board (`status`, `seat`, `holder` for the assignee,
`previous` for `external_previous_seat`, `lease`, `parked`, `declined`), git
(`pushed` for `external/<id>`, `landed` for the tickets something of which is
merged), Postgres (`passed`, `rework`, and `pending` for a submission not marked
verified), the API's calls (`at`, `by`, `on`, `read`), and the dispatcher's
memory (`main` for the step of its loop, `sweeping` for what the sweep has read,
`tick` for what the poll chose, `verifying` per submission, `runs` and `stage`
for its agents).

The API serves up to `Slots` calls at a time, and two of them may be of one seat:
the client gives up after 30 s and asks again while the call runs on. A call is
cut at each update of a store: `choose -> claim -> (undo ->) lease`,
`unlease -> (land ->) close -> insert`, `release`; a heartbeat is its check and
`lease`. It keeps what it read at its start, the seat of each candidate too. The
checks of a call are those of the code and no more: `release` asks for the seat
only, so a submitted ticket can be given back while it is being judged, and a
session that lost the answer to its submit can go on calling. An update may
raise in any step, the API may die with every call, and the dispatcher with
its loop, its threads and its agents.

The dispatcher's loop is `sweep -> release -> tick -> act`. The sweep judges the
leases of one listing and releases each ticket in two steps, `CutSwept` for the
pushed branch and `ReleaseSwept` for the board. Submissions are judged by a
thread each (`show -> judge -> mark`), and the poll waits while one is pending.
The poll chooses in one step and seats or claims by force in the next. A product-
owner session may seat any ticket at any time (`Triage`). No guard keeps any of
these apart. Which ticket is taken is `Roadmap`'s, so the model takes what the
code takes: no choice is widened.

Abstracted: what a tree or a branch holds (`TicketLifecycle` and
`IntegrationBranch` are about that), registering a seat (one row, no ticket),
`get_ticket` (reads), the token, the push guard's hook (a push reaches
`external/<id>` only), the dispatcher's own agent in its few steps that touch
the board (`TicketLifecycle` has all of them). A verdict acts in one step here: of the updates of
`requeue_for_rework` only the last, the reopening, touches the status and the
assignee.

### How `Escalations` corresponds to the code

State: on the board `status`, `human`, `owner` (`owner_decision`), `decided`
(`human_decision`), `resolved` (`escalation_resolved`), `rework`
(`rework_count`), `attempts` (`escalation_attempts`); in Postgres the last
`verdict`; `stands` says that it is for the work as it is, so that
`awaiting_verdict` is false; `judging` is the `rework_count` a judge has read and
will write one more of, minutes later. `reworks` and `requeues` are history.
The session is `idle -> act -> wind -> unlabel -> reopen -> count -> clear` for a
requeue and `drop -> decide -> close -> mark` for an answer; a person's answer is
the same updates from the API, in steps of their own. The listing is stale from
the moment it is read, as in the session's thread. An update that fails is either
logged and passed over, as the unsets of `requeue` and of `requeue_for_rework`
are (the step may then leave what it should clear), or raises (`Raises`): the tool
returns the error, and the session goes on or tries the ticket again. Agents, the
verifier, a person and the session may act between any two of these steps.

Abstracted: one session at a time (the scheduler's job and
`scripts/run_escalations.py` are not started together), one action that succeeds
on each listed ticket (the brief's instruction, not the tools'), one judge of a
ticket at a time (run `scheduler` has two), a verdict and the rework it leads to in
one step that may do any part of it, and the tools that set criteria, split or
assign (data).

### How `AgentGraph`, `Routing` and `Permissions` correspond to the code

`Routing` is `RoutedModel.invoke` for every caller: `trying -> queued -> sent ->
returned | raised`, with a place in the chain (`at`), the permits of each
provider's semaphore (`free`), and the marks `cooling` and `degraded`. The wait
for a permit comes after the check of the cooldown, as in the loop. Timers end
when they like, the degraded one after the cooldown's. An error cools the
provider down or, when it is about what was sent, does not.

`AgentGraph` is the compiled graph: `node` is what the checkpoint runs next and
`history` its messages. `Repair`, `Bound` and the two nudges are functions of the
history, translated from `graph.py` and `context.py`, and the request of a call
is what they make of it. The gate judges a batch call by call; the classifier
is two tries of its own chain and one of the worker's, through `Routing`. A run
that raises or is killed leaves the checkpoint and is resumed from its node; a
reflection is invoked anew on the thread it has, and calls a model of its own
(`InvokeDirect`), without cooldown, permit or window, as `reflection.py` builds it.
A malformed call without an id cannot be answered and stays out of the batch. An agent is a ticket's worker
(nudged, gated by the classifier), a reflection (budget only) or another session
(neither). A caller outside `Agents` is another agent's thread, there to share
the providers.

`Permissions` has a command as the sequence of its segments, each the class of
its verb, its subcommand and where its paths reach; the classes are the tables
of `permissions.py`. The lexer splits at operators and groups; it takes a newline for
a space, so what stands on a line of its own is words of the segment before it
(`Heads`, `Words`), and a line it cannot lex has no segments. `Forbidden` sees what
the lexer sees, and `GateHolds` speaks of the commands on one line that it can lex,
by their own verb.

Abstracted: message sizes (each is one), the text of answers, what a tool does.

## 3. Runs

Each run's module is in `PROJECT.json`.

| Run | Instance | Shows |
|---|---|---|
| `gated` | 1 judged ticket, 2 seats, 2 reworks, 3 commits, 2 faults, any re-seat (not searched on once the ticket is re-seated under a thread) | `TypeOK`, `LandedWasReviewed`, `ReworkBudget`, `FreshTree`, `OneWorker`, `VerdictActedOn`, and that the lifecycle implements `GatedMerge` |
| `blocked` | 2 tickets, the second waits for the first and is not judged, 1 agent, any re-seat | `BlockersLanded` |
| `recovers` | 1 ticket, 1 seat, the scheduler's verifier, agents that commit, 1 fault; fairness | `Settles`, `SlotReleased` |
| `integration` | 2 tickets, 1 agent, 2 pickups and 2 commits of each, 1 crash or forward move of the branch, at most 1 edit of each agent lying about at a time | `TypeOK`, `OwnWork`, `BaseAccepted`, `MoveUndone`, and that the merge's steps implement `GatedMerge` |
| `external` | 2 external seats, 1 internal, 2 calls at a time, a judged assigned ticket and an unjudged unassigned one that waits for it, 3 calls, starts, re-seats, declines and faults in all, 1 rework, 1 fault; fairness | `TypeOK`, `ClaimFollowsStatus`, `LandsByItsRule`, `AbandonedReleased`, `SubmissionsMarked` |
| `escalated` | 1 ticket, 2 reworks, 2 escalations, 2 crashes or updates that raise | `TypeOK`, `EffortBounded`, `AnswersAreFinal` |
| `agents` | 1 agent of any kind and another's thread, 2 providers with 1 permit each, a chain of both and one of the small, 2 turns, 2 failures, 1 crash | `TypeOK`, `PermitsHeld`, `RequestsSound`, `GateHolds`, `NudgedOnce`, `SettledIsLast` |
| `selfmod` | 1 ticket, 2 proposals, 2 edits, 1 deployment a day, 1 fault; fairness of the loop | `TypeOK`, `Earned`, `CommitIsDiff`, `TreeRestored`, `DeployCap`, `ClosedWasDeployed`, `PendingSandboxed` |
| `unactioned`, `scheduler`, `wrongticket`, `unlocked` | see section 6 | a violation each |

Why the bounds are enough for what they are asked. Two commits let one attempt
be judged and another be made, and the third a last one; two reworks let the
budget be used, be half used at a crash, and run out.
One ticket is enough where the property speaks of one ticket, since tickets
share only slots and blockers: those are what `blocked` has two tickets for
(that the gated merge holds for any number of agents and tickets is proved). Two seats let a declined ticket move and a second thread start.
One fault puts a crash, or a raise, at every step of every schedule, and two let
the recovery from one meet the other. The limits
`MaxReworks` and `MaxFailures` are the code's (2 and 3 by default) made small;
the theorems hold for every value. Two proposals with two edits let one be
left half deployed by the fault while the other is taken up, and let a page
left open answer one that has moved on; `MaxDeploys = 1` makes the cap bite.

In `integration` two tickets let one's work reach the other's tree, two pickups
let a killed or refused attempt be followed by another, and the one trouble is a
crash at any step or a move at any moment. One edit lying about at a time is
enough to reach the wrong tree; a second adds no case of `OwnWork`. In `external`
two seats, two calls of them or of one, and the dispatcher compete for the same
ticket. Of the steps of a call, a push, a lapse, a sweep and a verification none is
counted: the bound is on how often somebody begins something (`MaxMoves`), and
three beginnings are a claim, what undoes it and what comes third: two calls of
one seat and a poll, a submit and a release under judgement, a claim, a re-seat
and a crash. `escalated` has the code's own budgets. In `agents` two turns let a
turn follow a batch, windows of 7 and 5 messages make the cut fall on every
message of a thread that long, one permit each makes the second caller queue,
and the turns a model may take hold a forbidden command behind an innocent one,
a malformed call beside valid ones, a terminal call beside another, and prose.

Deadlock is not an error: a project is allowed to be finished, or to have all
its tickets parked, and the bounded counters run out.

Symmetry is used in `gated` and `blocked` (over seats) and in `integration` (over
tickets), which do not check liveness.

### Fairness

`FairSpec` assumes that the dispatcher ticks (`run_forever` catches everything
and has no exit), that each agent's thread goes on (it is never stopped and has
no timeout, by design) and that the scheduler's verifier job comes round. Each
is weak fairness of the whole process, never of one of its choices: an agent
need not finish well, a verdict need not be a pass. Nothing is assumed of
people, nor of faults. `Settles` therefore counts a ticket as looked after when
it is parked for a person, waiting for a blocker, declined by every seat, or
closed with nothing left to judge.

`SelfModification` assumes weak fairness of `RunOneCycle` alone: its `main`
catches everything and has no exit. Sessions, the reviewer and people may stop.

`ExternalSeats` assumes weak fairness of the dispatcher's loop, which goes round as
long as the process runs and is restarted after a crash, and of each thread that
verifies a submission. Nothing is assumed of sessions, calls, agents and leases:
a session may never come back, a call may hang, and a lease may lapse at any time.

`Settles` is checked with the scheduler's verifier running, because the code
relies on it: `verify_now` that raised is left to the scheduled job.

## 4. Proofs

All theorems hold for every value of the constants the modules' assumptions
allow: every set of tickets, seats, agents, callers and providers, all chains
and blockers, every limit and any number of faults. Where one needs a
configuration, it is named.

* `TypeCorrect` (`TicketLifecycleProofs`): `Spec => []TypeOK`. `TypeOK` is not
  inductive. A thread with a program counter other than `idle` has to have a
  ticket (`AgentHeld`), as does a check (`CheckHeld`), a worker's check has to
  belong to a landing or a verification (`CheckRuns`), and an edited tree must
  leave a commit number to use (`EditFits`). `TypeInv` adds those.
* `OnlyReviewedWorkLands`, `ReworkIsFinite`, `FreshAttemptsStartClean`
  (`GatedMergeProofs`): the safety properties of run `gated` for `GatedConfig`, the
  configuration in which the gate is meant to hold: the scheduler does not verify
  beside the dispatcher, agents leave committing to the harness, and every judged
  ticket has criteria. Without any one of them `LandedWasReviewed` fails (section 6
  and the notes after it).
* `OneWorkerPerTree` (`OneWorker`), with no assumption on the configuration: any
  re-seats, the scheduler's verifier, agents that commit.
* `ImplementsGatedMerge`: every step of the lifecycle is a step of `GatedMerge`
  or leaves `approved` and `landed` alone.

The argument. The key is `OwnSeat`: a thread that is preparing, working or
finishing a ticket (its program counter is in `Active`) is the thread of the
seat the ticket is assigned to, or the ticket was re-seated under a thread. As a
ticket has one seat, two threads are never in another ticket's tree, which is
`OneWorker`. It lets a process's local copy be
compared with the shared state: a check is of its own thread's ticket
(`CheckOwned`) and the branch holds the harness's commits only, which the diff
finds by subject (`HarnessOnly`), so the diff a check read still covers the
branch when it lands (`DiffCovers`): between reading and landing only the owner
could have moved the branch. A pass approves the diff,
so landing the branch lands approved work. `CheckBudget` and `Budget` relate
the requeues so far, the ticket's count and the count a check is carrying at
each of its steps; they are needed because a crash may fall between the update
of the count and the reopening. `SafeInv` is the conjunction; TLC checked it as
an invariant of the instances of `gated` and `blocked` before it was proved.
`NextSafe` has a step per action, and a lemma per conjunct an action disturbs.

`VerdictProofs`, which builds on `SafeInv`:

* `VerdictsAreActedOn` (`VerdictActedOn`), for `GatedConfig`: while nothing crashed,
  raised or was re-seated under a thread (`Quiet`),
  a judged ticket with work on record rests closed only on a pass of that work
  and with its branch landed.
* `BlockersLandFirst` (`BlockersLanded`), for `GatedConfig` and `MaxAgents <= 1`, again
  while `Quiet`. With two agents or with a crash it is false: an agent can close
  a blocker, and another start on what waits for it, before the verdict.

The argument. `OthersUntouched`: only the thread that keeps a ticket
(`Keeps`: at work on it, or ended with the seat still its own), or its check,
touches the ticket, but for a person who answers. So a thread's `base` is its branch
until it commits (`SinceBase`), which makes new work new (`NewWorkIsNew`): no old
verdict is about it. A ticket in work is not closed unless a person closed it
(`WorkOpen`). `VerdictSpent` is the heart: a verdict that still fits the ticket
has landed its work, or parked the ticket, or the check that gave it is about to
act, and it is needed because a later run of the verifier does nothing for a ticket
whose verdict stands. `RestsJudged` follows the ticket from its close to the end of
the verification. `LandedBeforeClose` is the counterpart for tickets nobody judges.
TLC checked each as an invariant of the instances of `gated` and `blocked`, and
with two agents and a fault, before it was proved.

`SelfModificationProofs`, for every value of the constants:

* `SelfModTypeCorrect`; `OnlyEarnedChangesLand` (`Earned`), `CommitsAreDiffs`
  (`CommitIsDiff`), `TreeIsRestored` (`TreeRestored`), `DeploymentsAreCapped`
  (`DeployCap`), `ClosesOnlyDeployed` (`ClosedWasDeployed`).
* `OneAgentClosesItsOwn`: with `MaxAgents = 1`, `ClosedByOwnChange`, the
  property run `wrongticket` refutes for two agents.

The argument. Nothing looks at a row's status before changing it, so the
invariant says which rows can be in reach of which process: a row the dashboard
has shown is past its review (`Unseen`) and the reviewer's queue holds only rows
nobody else moves (`Queued`), hence a result or a verdict is never overwritten
once a person could say yes. What the loop deploys was said yes to and is clean
when chosen (`DeployEarned`), and neither can be taken back. `DeployTree` says
what each step of a deployment has left in the tree; with the clean tree at the
start it makes the commit the diff. `Room` carries the cap from the choice to
the end: time only makes room. For attribution, `OneSession` makes everything
that became pending since a session began its own (`RaisedHere`).

`IntegrationBranchProofs`:

* `IntegrationTypeCorrect`, for everything.
* `TreesCutFromAcceptedWork` (`BaseAccepted`) and `MergesAreGated`
  (`MergeIsGated`), for `Moves = "never"`: any number of agents, judgements
  beside them and crashes, but no agent that moves the branch itself.

The argument. Everything the unlocked check may put back was once the branch's
tip, so `GateInv` says that the branch, the marker and every tip a check has
read descend only from work that was put on the branch, and that what is between
lock and record is approved. The race of check and merge can then take a landed
merge off the branch (`KeepsLanded`, which run `unlocked` refutes), but
never put ungated work on it. With the marker out of date or empty after a crash
the same holds.

* `MovesAreUndone` (`MoveUndone`), for `OneAgent`: one running agent, no judgement
  beside it (`~Outside`) and moves of the branch forward only, any number of moves
  and crashes.
* `TicketsHoldOwnWork` (`OwnWork`), `TreesStayAccepted` (`BaseAccepted`) and
  `MovesNeverLand` (`MergeIsGated`), for `OneTrouble`: the same with an agent that
  never moves the branch, or with at most one move or crash, which is the instance
  of run `integration`. With a move and then a crash `OwnWork` and `BaseAccepted`
  are false (section 6).

The argument. `OneHandled`: while a ticket is in hand the others rest, so what the
check read still stands when it acts (`TipBehind`): the marker is behind the
branch, and a comparison that finds nothing moved found them equal.
`BranchesClean` says where a moved branch can be met: from the run that moved it to
the check, in the hand of the ticket whose own commits it has been moved to
(`MovedBy`); a worktree is cut and a branch merged elsewhere. `TreesClean` needs the
discard at the pickup: from then on the strays are the ticket's own, or staged by
an earlier one (`Staged`), which `OwnWork` excepts. TLC checked
`TipInv` and `CleanInv` on the instance of `integration`, and with two troubles for
what claims to stand them, before they were proved. `TipAssumption` says that the
value for a missing tip is no commit.

`EscalationsProofs`, for every budget and any number of tickets and faults:

* `EscalationsTypeCorrect`.
* `RoundsEnd` (`EffortBounded`): reworks and requeues of a ticket end. The
  escalation's requeue puts its own count where the rework count is, and a verdict
  asked for before it puts the old one back, so that counter is not monotone.
  `Paid` bounds what is: for the ticket's count and for the one a judge holds
  (`Counts`), the reworks and requeues so far plus the rework budget that count
  leaves (`Due`, with `Left`) never exceed one budget and a round for every
  escalation made (`Made`) and every fault (`Coins`), since a step either adds
  nothing to what is due or adds a coin and what it buys (`Fair`).
* `AnswersFinal` (`AnswersAreFinal`). `FinalInv`: what is marked as resolved is neither
  listed nor in the session's hand, since a listing leaves it out and the session
  takes a listed ticket up once. An answer that died before its mark promises
  nothing, and none is claimed.

`AgentGraphProofs`:

* `TypesHold`, `NoPermitLost` (`PermitsHeld`), `NothingForbiddenRuns` (`GateHolds`), `EachNudgeOnce`
  (`NudgedOnce`, for a budget of at least one turn),
  `SettledThreadsStaySettled` (`SettledIsLast`).
* `RequestsAreAccepted` (`RequestsSound`), for every set of turns, any bounds on
  a request and any number of failures and crashes, and `RepairIsIdempotent`: a
  history that providers accept comes back unchanged from the repair, so that a
  repaired one is not repaired again.

The argument. A caller that is queued, sent or back has a place within its chain
(`Placed`), so its provider is one; then serving and ceasing to serve change the
number served by one, which the library's facts on cardinality turn into the sum
`PermitsHeld` speaks of. For the gate, `AtBatch` says that at the gate and at the
tools the last message is the model's and that what is judged is of its batch;
`Passed` carries the verdict from the gate to the tools and from there into the
thread. For `SettledIsLast`, `Ended` relates the results in the thread to the
edge taken after them; a reflection that begins again on its old thread is why
the property, and the invariant, speak of the first beginning only. `Nudged` ties
how often a nudge is in the thread (`Count`) to the turns and the flag saved with
it: a turn that failed saved neither, one that was answered saved all three.

`RequestsSound` is about what `Repair` and `Bound` make of a history of any
length. `Grown` is the invariant: the thread begins with the system message and
the brief, and every tool message of it follows the model's message that asked
for it (`Asked`); nothing is claimed of what is answered, because a failed run or
a kill leaves calls open. The rest is about the two operators.

* `Repair` flattens a sequence of parts, one per message. `FlattenPlaces` gives
  each part its place in the whole (`Places`), and `Repaired` reads that for the
  repair: each old message at the head of its part, behind it a placeholder for
  each call the block that ends there still owes (`Given`). A model's message
  and the tool messages after it keep together (`RepairedBatch`), so what is
  answered after it is all that it asked for (`RepairAnswers`), and no tool
  message stands alone (`RepairedTools`).
* `Bound` keeps the head and a last part that begins at a message that is no
  tool's. Cut there, an accepted history stays accepted (`AcceptedSuffix`,
  `AcceptedConcat`), whatever the window is.

The library's induction theorems take an operator, which the provers cannot
instantiate. Here induction is over sets of numbers: `Least` gives every set of
naturals a least member (from the well-foundedness of strict inclusion on finite
sets), and `Induction` says that a set of naturals with 0 and with the successor
of each member is `Nat`. `AgentAssumption` says that a turn asks for finitely
many calls: they come as the list of one message.

`ExternalSeatsProofs`, for every set of seats, internal and external, of projects
and of tickets, any number of calls at a time and of faults:

* `SeatsTypeCorrect`.
* `SeatsClaimsFollow` (`ClaimFollowsStatus`). It is inductive beside the types: what a
  step does to the status it does to the assignee, whoever else is between two
  updates, because claim, release, reopening and close are one update of the board
  each. That is what the theorem says of the code, and what a split of one of
  them would break.
* `SeatsLandByRule` (`LandsByItsRule`). `LandInv` adds what a submit has in hand: one
  that is about to merge is of a ticket nobody judges (`Merging`), and one that is
  about to close such a ticket has merged it (`Closing`), which a verdict, a release
  or a second call on the same ticket cannot take back.

The lemmas go one group of actions at a time: what a step leaves of the calls, of
the loop and of the agents is said once. The strengthenings were checked by TLC on
the instance of `external` before they were proved.

Only model-checked: the liveness properties (`PendingSandboxed`, `Settles`,
`SlotReleased`, `AbandonedReleased`, `SubmissionsMarked`), which the prover does not
reach. Every safety property of the passing runs is a theorem, for the
configurations named above.

## 5. Mutants

Each property is shown to be about the code by a mutant: a plausible slip in one
mapped definition, defined just above it, under which the property fails in its
own run. They are listed in `PROJECT.json`.

## 6. Findings

1. `unactioned`: an attempt that completes without commits has no
   `work_commit`. It is judged and failed, the verdict is stored for `NULL`, the
   ticket requeued. The next attempt completes without commits too: the verdict
   on record is "for the same commit", `awaiting_verdict` says no
   (`verifier.py:626`), and the ticket rests closed on a fail, its dependents
   released. The rework exemption the docstring promises (609-611) is tested
   one line too late.
2. `scheduler`: the dispatcher's and the scheduler's verifier judge one ticket
   at once. One fails it and requeues; the other's pass then lands the branch,
   which by now holds the next attempt (`verifier.py:724` lands the branch, not
   the commit that was judged).
3. `wrongticket`: two tickets' sessions at once. A session takes as its own the
   first proposal that is pending now and was not when it began
   (`self_mod_ticket.py:76-85`), so one that proposed nothing is given the
   other's, and its ticket is closed by the other's deployment.
4. `unlocked`: `revert_unexpected_integration_move` reads the marker and then the tip
   without the merge lock, and the merge records its tip after it has moved the
   branch. With one agent and the scheduler's verifier landing another ticket
   beside it, that merge is taken for an agent's move and undone, though it was
   reported as landed (`workspaces.py:405-428`, 806-821). A crash between the merge
   and the record of its tip does the same at the next pickup, with nobody judging
   beside the agent (`KeepsLanded` with `Outside = FALSE` and `MaxTroubles = 1`);
   nothing lands that work again but a person's accept.

### Behaviour noticed

What follows was met while modelling and is not a run: no text of the repository
says otherwise, or the instance of a run leaves it off. The constant or the
configuration that shows it to TLC is named where there is one.

The lifecycle and the integration branch:

* A ticket with `acceptance_checks` and no criteria is merged by the worker
  (`worker.py:421`) and judged afterwards, against the comment at 415-420;
  external submissions ask for both (`external.py:457`), and so does
  `awaiting_verdict`. (`LandedWasReviewed` with `JudgedByChecks`)
* With more than one running agent a dependent starts between its blocker's
  close and its merge. The comment at `dispatcher.py:1061-1066` describes that
  hazard for external seats and takes internal closes to be safe because they
  hold their slot, which is so only with one slot. (`BlockersLanded` with
  `MaxAgents = 2`)
* A ticket that gets a second seat while a thread has it is worked by two threads in
  one tree; the comment at `dispatcher.py:333-335` says that `busy_seats` and
  `start_agent` prevent same-ticket restarts, and they look at seats. For such a
  ticket `LandedWasReviewed`, `ReworkBudget`, `FreshTree` and `VerdictActedOn` fail,
  which is why they except it (`reseated`); `BlockersLanded` with one agent does not.
* What an agent has given to `git add` in the project directory survives
  `discard_stray_edits`, whose docstring says "an attempt starts from a pristine
  checkout", and the clearing after `absorb_stray_edits`: the restore takes a file
  from the index (`workspaces.py:538-539`, 607-630). It is copied into the next
  tickets' trees until a merge resets the checkout. (`OwnWork` without
  `e.kind # "staged"`)
* The tree is prepared before the tip is checked (`dispatcher.py:697`, 715). After
  a restart that kept an agent's own move from being undone, the next ticket's
  tree is cut from the moved branch, and the check restores the branch but not
  the tree. (`BaseAccepted` and
  `OwnWork` with `MaxTroubles = 2`)
* `absorb_stray_edits` on a checkout left stale by `update-ref` takes the
  difference for an agent's edits and reverts the moved branch's modifications;
  its docstring has one ticket in flight per project, which two agents are not.
  (`OwnWork` with `MaxAgents = 2`)
* A branch rewritten, not moved forward, is left where it is, and the note
  attached says it was restored. (`Moves = "any"`)
* An agent that runs `git commit` itself and also leaves edits has its own
  commit missing from the judged diff: the harness's commit is found by
  subject, and then `work_commit` is not consulted. (`LandedWasReviewed` with
  `AgentCommits = TRUE`)
* A crash or a raised call between recording a verdict and acting on it is
  never made good: the verdict stands, so the ticket is not judged again
  (`faults = 0` in `VerdictActedOn`).
* A pass of a ticket whose `work_commit` could not be recorded is in the same
  position as finding 1.

External seats. The code does not promise the following, and no property claims it.
The first three are a few steps of the model's actions (the second needs an
instance without blockers), the last is about data the model leaves out:

* The seat on record is that of who claimed it: `_claim` re-seats before it claims so
  that the dispatcher skips the ticket, but the poll that has read the board before
  claims by force, the undo of a lost claim puts back a seat that was read earlier
  under another session's claim, and triage may seat any ticket.
* A seat holds one ticket: two calls of one seat both find nothing held and claim a
  ticket each, against the comment "hand it back rather than taking a second" of
  `request_ticket`. The MCP client gives up after 30 s and the call runs on,
  which is how one session comes to have two.
* A ticket under judgement stays closed: `release_ticket` asks for the seat only, so
  a submitted ticket is reopened while it is being judged, and the verdict then
  lands what the branch holds by then.
* A tree is its holder's: a submit resets the worktree of a ticket that a
  dispatcher's agent may have been given meanwhile.

And of smaller consequence:

* A crash between claim and lease, or between clearing the lease and the close,
  leaves a claim the sweep never sees (`lease_until` is `None`). The seat's next
  request finds it. `AbandonedReleased` speaks of leases.
* `release` deletes the pushed branch before the note and the update, either of
  which may raise, and also when the update then does nothing because the claim
  has changed hands.
* `release_to_pool` reopens a declined ticket and leaves its assignee, so no session
  can claim it, and the claim by force that takes it leaves it `open`
  (`ClaimFollowsStatus` excepts `declined`).
* A submission inserted while an older one of the ticket is being verified is
  marked verified with it. One whose verification raised or returned nothing is
  marked all the same, and one that finds its ticket judged, sent back and
  reopened is not judged.
* `submit` closes the ticket and then inserts the submission: in between, and for
  good when the call dies there, dependents may start before anything landed
  (against `dispatcher.py:1061-1066`). So they may when the housekeeping raises,
  since the tick runs all the same.
* A swept session's late push to `external/<id>` is submitted by the next holder.
* A ticket sent back for rework to an external seat whose session never returns
  is open, without a lease and skipped by the dispatcher; the `mine` pool of
  `request_ticket` does not look at its project's hold.
* The lease's comment has every call extend it; submit and get do not.

Escalations:

* `requeue_escalation` is "Bounded" by its docstring; the bound is the listing's,
  and neither the tool nor `requeue` looks at it. A session that acts twice on a
  ticket passes it.
* A listed ticket that a person answers meanwhile is requeued all the same, and
  the requeue's last step clears a decision made meanwhile.
* An answer drops the label first. An agent or the verifier that takes the ticket up
  then may park it, or judge it, after it was answered; a judgement begun before the
  answer reopens the ticket and clears its decision. A ticket left to the owner can
  be listed between its label and its mark.
* The unsets of a requeue are logged when they fail, so a requeued ticket may keep
  its decision and is then never judged. The unset of `RESOLVED_KEY` finds nothing
  as long as sessions do not overlap.
* `OWNER_KEY` is never cleared: a ticket once left to the owner never enters the
  queue again.
* A crash of `respond_to_human` after the label leaves an open ticket that is
  decided: agents take it up, and its work is never judged.

Routing and the agent graph:

* A success of a caller queued behind the failure clears the degraded mark while
  the cooldown still runs, against the comment at `routing.py:53-56`; a later
  short cooldown overwrites a longer one of the account.
* The classifier's primary and the worker's local fallback have two names, so
  one backend has two semaphores (against `routing.py:4-7`).
* `turn_budget` is an option of `build_seat_runtime` no caller of the dispatcher
  passes: of the kinds modelled only reflections have one in production.
* A batch of malformed calls only goes back to the agent without the completion
  nudge being spent; nothing bounds how often.
* A crash after a tool has run and before the checkpoint has its answer runs the
  tool again on resume.

Self-modification:

* `README.md:280` says an `allow` verdict deploys without a human gate; since
  `await_human` (`self_mod.py:144-155`) it does not.
* A proposal the loop has sandboxed before its session ended is pending no
  longer, so it is attributed to no ticket, and of several only the first is.
* An image build that fails after the commit "rolls back" with `git checkout`,
  which undoes nothing (`run_self_mod_deploy.py:231-234`): the change stays, its
  row stays approved, the loop tries it again at once (the cycle counts as
  "deployed", so there is no pause), it no longer applies, and every other
  approved proposal waits behind it until a person rejects it.
* A reject during a deployment is overwritten by `mark_deployed`. A reviewer
  that dies after `record_review` leaves a row no listing picks up again.

## 7. Not modelled, and what is left

Not modelled, with the reason:

* Acceptance checks, test output, the parsing of a toolchain's results: pure
  evaluation of text. A verdict is free in every model.
* Tool proposals: the same states as self-modification without a deployment.
* Seats' profiles, prompts, settings, metrics, Slack, wiki, avatar, dashboards:
  single-row updates, input and output.
* Creating projects, epics and tickets, and their dependencies: the board's
  tickets and blockers are constants.
* The product-owner's triage and planning, and which seat a ticket is given: a
  model's choice.

What would come next: the composition of `IntegrationBranch` with `ExternalSeats`
(its submit resets a tree the dispatcher may be preparing) and of `Escalations`
with `TicketLifecycle`; two escalation sessions at once; the sixty-second caches of
holds, parents and order keys; tool proposals with `SelfModification`'s reviewer.

## 8. Running

    tlc -workers 2 -config gated.cfg MCTicketLifecycle
    tlc -workers 2 -config external.cfg MCExternalSeats
    tlapm GatedMergeProofs.tla

The violations and `blocked` take seconds, the other runs up to two minutes each.
The proofs take some ten minutes, most of it `AgentGraphProofs` and
`IntegrationBranchProofs`.
