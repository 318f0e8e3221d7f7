------------------------- MODULE IntegrationBranch -------------------------
(***************************************************************************)
(* One project's repository: its integration branch, the checkout every    *)
(* ticket's worktree is cut from, the marker that tells the harness's own  *)
(* merges from an agent's, and the threads that work tickets beside it     *)
(* (workspaces.py; the order of the calls is dispatcher._agent_thread's    *)
(* and worker.work_one_ticket's).                                          *)
(*                                                                         *)
(* A commit is the set of commits it descends from and the edits its tree  *)
(* holds.  A ticket edits one tracked file of its own ("mod"), adds one of *)
(* its own ("add"), and leaves one in the project directory that it gives  *)
(* to git there ("staged"); which of these an edit is decides what git     *)
(* does to it.                                                             *)
(***************************************************************************)
EXTENDS Naturals, FiniteSets

CONSTANTS
  Tickets,      \* tickets of one project
  NoOne,        \* nobody holds the merge lock
  NoTip,        \* no integration tip is recorded
  MaxAgents,    \* the dispatcher's capacity
  MaxPickups,   \* bound: times one ticket is picked up
  MaxCommits,   \* bound: commits made for one ticket
  MaxTroubles,  \* bound: crashes, and moves of the branch by agents, together
  Outside,      \* tickets are judged outside the dispatcher while agents run
  Moves         \* agents move the branch: "never", "forward" only, or to "any" commit

ASSUME ConstantsAssumption ==
  /\ NoOne \notin Tickets
  /\ MaxAgents \in Nat /\ MaxPickups \in Nat /\ MaxCommits \in Nat /\ MaxTroubles \in Nat
  /\ Outside \in BOOLEAN /\ Moves \in {"never", "forward", "any"}

VARIABLES
  master,    \* the integration branch's commit
  marker,    \* the tip recorded in .worktrees/.integration_tip
  checkout,  \* the commit the project directory's index and files are at
  strays,    \* edits agents left uncommitted in the project directory
  branch,    \* ticket -> commit of its branch
  tree,      \* ticket -> edits in its worktree, committed or not
  thread,    \* ticket -> it has a checkpointed conversation to resume
  at,        \* ticket -> the step its handling is at
  outcome,   \* ticket -> how its run ended: "none" (not yet), "closed", "left"
  seen,      \* ticket -> the marker its check of the tip has read
  held,      \* tickets whose agent thread holds a slot
  lock,      \* who holds .worktrees/.merge.lock
  approved,  \* ticket -> its commits a verdict approved
  landed,    \* ticket -> its commits the gated merge put on the branch
  pickups, made, troubles

repo  == <<master, marker, checkout, strays>>
work  == <<branch, tree, made>>
judged == <<approved, landed>>
vars == <<master, marker, checkout, strays, branch, tree, thread, at, outcome, seen, held,
          lock, approved, landed, pickups, made, troubles>>

Kinds  == {"mod", "add", "staged"}
Edits  == [by : Tickets, kind : Kinds]
Nodes  == [by : Tickets, n : 0..MaxCommits, merge : BOOLEAN]
Commit == [hist : SUBSET Nodes, files : SUBSET Edits]

\* A missing tip is no commit.
ASSUME TipAssumption == NoTip \notin Commit

Steps  == {"open", "prepare", "discard", "check", "compare", "restore", "run", "absorb",
           "commit", "close", "judge", "closed", "lock", "merge", "record", "landed"}

BaseCommit == [hist |-> {}, files |-> {}]

\* git merge-base --is-ancestor a b.
Ancestor(a, b) == a.hist \subseteq b.hist

\* The commits of a ticket's own work that a commit descends from.
Works(t, commit) == {x \in commit.hist : x.by = t /\ ~x.merge}

Init ==
  /\ master = BaseCommit /\ checkout = BaseCommit
  /\ marker \in {NoTip, BaseCommit}
  /\ strays = {}
  /\ branch = [t \in Tickets |-> BaseCommit]
  /\ tree = [t \in Tickets |-> {}]
  /\ thread = [t \in Tickets |-> FALSE]
  /\ at = [t \in Tickets |-> "open"]
  /\ outcome = [t \in Tickets |-> "none"]
  /\ seen = [t \in Tickets |-> NoTip]
  /\ held = {}
  /\ lock = NoOne
  /\ approved = [t \in Tickets |-> {}] /\ landed = [t \in Tickets |-> {}]
  /\ pickups = [t \in Tickets |-> 0] /\ made = [t \in Tickets |-> 0]
  /\ troubles = 0

Go(t, step) == at' = [at EXCEPT ![t] = step]

\* The thread that handled the ticket is gone, and with it its slot.
Leave(t, step) == Go(t, step) /\ held' = held \ {t}

----------------------------------------------------------------------------
(* A pickup: the worktree, the strays of earlier runs, the tip.            *)

Landing == {t \in Tickets : at[t] \in {"lock", "merge", "record"}}

PickUp(t) ==
  /\ at[t] = "open"
  /\ Cardinality(held) < MaxAgents
  /\ pickups[t] < MaxPickups
  /\ Outside \/ Landing \subseteq held
  /\ pickups' = [pickups EXCEPT ![t] = @ + 1]
  /\ held' = held \cup {t}
  /\ outcome' = [outcome EXCEPT ![t] = "none"]
  /\ Go(t, "prepare")
  /\ UNCHANGED <<repo, work, judged, thread, seen, lock, troubles>>

\* ensure seeds a missing marker and never overwrites one.
SeedMarker == marker' = IF marker = NoTip THEN master ELSE marker

\* Mutant: the tree is put on the recorded tip, which may be missing.
ResetToMarker(t) ==
  /\ branch' = [branch EXCEPT ![t] = marker]
  /\ tree' = [tree EXCEPT ![t] = master.files]

ResetForAttempt(t) ==
  /\ branch' = [branch EXCEPT ![t] = master]
  /\ tree' = [tree EXCEPT ![t] = master.files]

\* for_ticket, then reset_for_attempt unless the ticket resumes its thread.
PrepareTree(t) ==
  /\ at[t] = "prepare"
  /\ SeedMarker
  /\ IF thread[t] THEN UNCHANGED <<branch, tree>> ELSE ResetForAttempt(t)
  /\ Go(t, "discard")
  /\ UNCHANGED <<master, checkout, strays, made, judged, thread, outcome, seen, held, lock,
                 pickups, troubles>>

\* Mutant: a killed run's strays stay in the project directory.
KeepStrayEdits(t) ==
  /\ at[t] = "discard"
  /\ Go(t, "check")
  /\ UNCHANGED <<repo, work, judged, thread, outcome, seen, held, lock, pickups, troubles>>

\* What git checkout -- leaves in the project directory: it restores a file from
\* the index, and what an agent staged is in the index.
Staged == {e \in strays : e.kind = "staged"}

DiscardStrayEdits(t) ==
  /\ at[t] = "discard"
  /\ strays' = Staged
  /\ Go(t, "check")
  /\ UNCHANGED <<master, marker, checkout, work, judged, thread, outcome, seen, held, lock,
                 pickups, troubles>>

\* revert_unexpected_integration_move, in the three steps others run between:
\* it reads the marker, then the tip, and then moves the branch back.
ReadMarker(t) ==
  /\ at[t] = "check"
  /\ seen' = [seen EXCEPT ![t] = marker]
  /\ Go(t, "compare")
  /\ UNCHANGED <<repo, work, judged, thread, outcome, held, lock, pickups, troubles>>

\* Mutant: a move is told from the ticket's own branch, which the agent moved to.
MovedElsewhere(t) == seen[t] # NoTip /\ seen[t] # master /\ master # branch[t]

Moved(t) == seen[t] # NoTip /\ seen[t] # master /\ Ancestor(seen[t], master)

\* What follows the check: the run before it, the verdict after it.
AfterCheck(t) ==
  CASE outcome[t] = "none"   -> /\ Go(t, "run")
                                /\ thread' = [thread EXCEPT ![t] = TRUE]
                                /\ UNCHANGED held
    [] outcome[t] = "closed" -> Go(t, "judge") /\ UNCHANGED <<thread, held>>
    [] outcome[t] = "left"   -> Leave(t, "open") /\ UNCHANGED thread

CompareTip(t) ==
  /\ at[t] = "compare"
  /\ IF Moved(t) THEN Go(t, "restore") /\ UNCHANGED <<thread, held>> ELSE AfterCheck(t)
  /\ UNCHANGED <<repo, work, judged, outcome, seen, lock, pickups, troubles>>

\* update-ref, then reset --hard: what is untracked survives it.
RestoreTip(t) ==
  /\ at[t] = "restore"
  /\ master' = seen[t] /\ checkout' = seen[t]
  /\ strays' = {e \in strays : e.kind = "add"}
  /\ AfterCheck(t)
  /\ UNCHANGED <<marker, work, judged, outcome, seen, lock, pickups, troubles>>

----------------------------------------------------------------------------
(* The run.                                                                *)

CommitTree(t, files) ==
  /\ made[t] < MaxCommits
  /\ made' = [made EXCEPT ![t] = @ + 1]
  /\ branch' = [branch EXCEPT ![t] =
       [hist  |-> @.hist \cup {[by |-> t, n |-> made[t] + 1, merge |-> FALSE]},
        files |-> files]]

AgentEdits(t) ==
  /\ at[t] = "run"
  /\ \E k \in Kinds :
       LET e == [by |-> t, kind |-> k]
       IN  \/ k # "staged" /\ tree' = [tree EXCEPT ![t] = @ \cup {e}] /\ UNCHANGED strays
           \/ strays' = strays \cup {e} /\ UNCHANGED tree
  /\ UNCHANGED <<master, marker, checkout, branch, made, judged, thread, at, outcome, seen,
                 held, lock, pickups, troubles>>

AgentCommits(t) ==
  /\ at[t] = "run"
  /\ tree[t] # branch[t].files
  /\ CommitTree(t, tree[t])
  /\ UNCHANGED <<repo, tree, judged, thread, at, outcome, seen, held, lock, pickups, troubles>>

\* git update-ref refs/heads/master HEAD, from the worktree: the project
\* directory's index and files stay where they were.
AgentMovesBranch(t) ==
  /\ at[t] = "run"
  /\ troubles < MaxTroubles
  /\ branch[t] # master
  /\ Moves = "any" \/ (Moves = "forward" /\ Ancestor(master, branch[t]))
  /\ master' = branch[t]
  /\ troubles' = troubles + 1
  /\ UNCHANGED <<marker, checkout, strays, work, judged, thread, at, outcome, seen, held,
                 lock, pickups>>

\* The graph returns, or raises and the rest of work_one_ticket is skipped.
RunEnds(t) ==
  /\ at[t] = "run"
  /\ \/ Go(t, "absorb") /\ UNCHANGED outcome
     \/ Go(t, "check") /\ outcome' = [outcome EXCEPT ![t] = "left"]
  /\ UNCHANGED <<repo, work, judged, thread, seen, held, lock, pickups, troubles>>

\* Files git status reports modified because the branch moved under the index.
Stale == {e \in master.files \ checkout.files : e.kind = "mod"}

\* absorb_stray_edits copies the modified, untracked and added files of the
\* project directory over the worktree's (not one that was edited again after it
\* was staged) and then clears them as the discard does.  The run then claims
\* completion or does not.
AbsorbStrayEdits(t) ==
  /\ at[t] = "absorb"
  /\ \E skipped \in SUBSET Staged :
       tree' = [tree EXCEPT ![t] = (@ \ Stale) \cup (strays \ skipped)]
  /\ strays' = Staged
  /\ \/ Go(t, "commit") /\ UNCHANGED outcome
     \/ Go(t, "check") /\ outcome' = [outcome EXCEPT ![t] = "left"]
  /\ UNCHANGED <<master, marker, checkout, branch, made, judged, thread, seen, held, lock,
                 pickups, troubles>>

CommitAll(t) ==
  /\ at[t] = "commit"
  /\ IF tree[t] = branch[t].files THEN UNCHANGED <<made, branch>> ELSE CommitTree(t, tree[t])
  /\ Go(t, "close")
  /\ UNCHANGED <<repo, tree, judged, thread, outcome, seen, held, lock, pickups, troubles>>

\* Mutant: the tip is not checked again before the verdict.
CloseUnchecked(t) ==
  /\ at[t] = "close"
  /\ outcome' = [outcome EXCEPT ![t] = "closed"]
  /\ Go(t, "judge")
  /\ UNCHANGED <<repo, work, judged, thread, seen, held, lock, pickups, troubles>>

\* bd close, which an open blocker or child refuses.
Close(t) ==
  /\ at[t] = "close"
  /\ \E o \in {"closed", "left"} : outcome' = [outcome EXCEPT ![t] = o]
  /\ Go(t, "check")
  /\ UNCHANGED <<repo, work, judged, thread, seen, held, lock, pickups, troubles>>

----------------------------------------------------------------------------
(* The verdict, and the merge under the lock.                              *)

\* In the slot, or afterwards by the scheduled verifier or a person.
MayJudge(t) == \/ at[t] = "judge"
               \/ at[t] = "closed" /\ (Outside \/ held = {})

Pass(t) ==
  /\ MayJudge(t)
  /\ approved' = [approved EXCEPT ![t] = @ \cup Works(t, branch[t])]
  /\ Go(t, "lock")
  /\ UNCHANGED <<repo, work, landed, thread, outcome, seen, held, lock, pickups, troubles>>

\* requeue_for_rework, which deletes the thread.
Rework(t) ==
  /\ thread' = [thread EXCEPT ![t] = FALSE]
  /\ Leave(t, "open")

Fail(t) ==
  /\ MayJudge(t)
  /\ Rework(t)
  /\ UNCHANGED <<repo, work, judged, outcome, seen, lock, pickups, troubles>>

\* Mutant: a verification that errors lands the ticket.
JudgeRaisesLands(t) ==
  /\ at[t] = "judge"
  /\ Go(t, "lock")
  /\ UNCHANGED <<repo, work, judged, thread, outcome, seen, held, lock, pickups, troubles>>

\* verify_now's error: the ticket is left to the scheduled verifier.
JudgeRaises(t) ==
  /\ at[t] = "judge"
  /\ Leave(t, "closed")
  /\ UNCHANGED <<repo, work, judged, thread, outcome, seen, lock, pickups, troubles>>

\* reset --hard HEAD and clean -fd, once the lock is held.
TakeLock(t) ==
  /\ at[t] = "lock"
  /\ lock = NoOne
  /\ lock' = t
  /\ checkout' = master
  /\ strays' = {}
  /\ Go(t, "merge")
  /\ UNCHANGED <<master, marker, work, judged, thread, outcome, seen, held, pickups, troubles>>

Merged(t) ==
  IF Ancestor(branch[t], master)
    THEN master
    ELSE [hist  |-> master.hist \cup branch[t].hist
                      \cup {[by |-> t, n |-> made[t], merge |-> TRUE]},
          files |-> master.files \cup branch[t].files]

Merge(t) ==
  /\ at[t] = "merge"
  /\ master' = Merged(t) /\ checkout' = Merged(t)
  /\ landed' = [u \in Tickets |-> landed[u] \cup Works(u, Merged(t))]
  /\ Go(t, "record")
  /\ UNCHANGED <<marker, strays, work, approved, thread, outcome, seen, held, lock, pickups,
                 troubles>>

\* Both sides changed, or a stray written since the clean is in the way: the
\* merge is aborted and land requeues the ticket.
MergeConflicts(t) ==
  /\ at[t] = "merge"
  /\ ~Ancestor(branch[t], master)
  /\ ~Ancestor(master, branch[t]) \/ strays # {}
  /\ lock' = NoOne
  /\ Rework(t)
  /\ UNCHANGED <<repo, work, judged, outcome, seen, pickups, troubles>>

RecordTip(t) ==
  /\ at[t] = "record"
  /\ marker' = master
  /\ lock' = NoOne
  /\ Leave(t, "landed")
  /\ UNCHANGED <<master, checkout, strays, work, judged, thread, outcome, seen, pickups,
                 troubles>>

----------------------------------------------------------------------------
(* A restart of the container.                                             *)

\* Where a ticket is found afterwards: bd has it closed, or open and orphaned.
Found(t) ==
  CASE at[t] = "landed" -> "landed"
    [] at[t] \in {"judge", "closed", "lock", "merge", "record"} -> "closed"
    [] at[t] \in {"check", "compare", "restore"} /\ outcome[t] = "closed" -> "closed"
    [] OTHER -> "open"

\* The kernel drops the lock; a marker being written may be left empty.
Crash ==
  /\ troubles < MaxTroubles
  /\ troubles' = troubles + 1
  /\ \E t \in Tickets : at[t] \notin {"open", "closed", "landed"}
  /\ at' = [t \in Tickets |-> Found(t)]
  /\ held' = {} /\ lock' = NoOne
  /\ marker' \in {marker} \cup IF \E t \in Tickets : at[t] = "record" THEN {NoTip} ELSE {}
  /\ UNCHANGED <<master, checkout, strays, work, judged, thread, outcome, seen, pickups>>

Harness(t) ==
  \/ PickUp(t) \/ PrepareTree(t) \/ DiscardStrayEdits(t)
  \/ ReadMarker(t) \/ CompareTip(t) \/ RestoreTip(t)
  \/ RunEnds(t) \/ AbsorbStrayEdits(t) \/ CommitAll(t) \/ Close(t)
  \/ Pass(t) \/ Fail(t) \/ JudgeRaises(t)
  \/ TakeLock(t) \/ Merge(t) \/ MergeConflicts(t) \/ RecordTip(t)

Agent(t) == AgentEdits(t) \/ AgentCommits(t) \/ AgentMovesBranch(t)

Next == (\E t \in Tickets : Harness(t) \/ Agent(t)) \/ Crash

Spec == Init /\ [][Next]_vars

----------------------------------------------------------------------------
(* Properties.                                                             *)

\* The shapes of the state.
TypeOK ==
  /\ master \in Commit /\ checkout \in Commit
  /\ marker \in Commit \cup {NoTip}
  /\ strays \subseteq Edits
  /\ branch \in [Tickets -> Commit]
  /\ tree \in [Tickets -> SUBSET Edits]
  /\ thread \in [Tickets -> BOOLEAN]
  /\ at \in [Tickets -> Steps]
  /\ outcome \in [Tickets -> {"none", "closed", "left"}]
  /\ seen \in [Tickets -> Commit \cup {NoTip}]
  /\ held \subseteq Tickets
  /\ lock \in Tickets \cup {NoOne}
  /\ approved \in [Tickets -> SUBSET Nodes] /\ landed \in [Tickets -> SUBSET Nodes]
  /\ pickups \in [Tickets -> 0..MaxPickups]
  /\ made \in [Tickets -> 0..MaxCommits]
  /\ troubles \in 0..MaxTroubles

\* A ticket's branch and worktree hold its own edits and those of tickets that
\* landed: neither absorbing strays nor a killed run's leftovers hand it
\* another ticket's unlanded work (workspaces.py:470-640), but for edits an
\* agent staged in the project directory, which nothing takes away before the
\* next merge.
OwnWork ==
  \A t \in Tickets : \A e \in branch[t].files \cup tree[t] :
    e.by # t /\ e.kind # "staged" => landed[e.by] # {}

\* A ticket is actioned from accepted work: its branch descends from no commit
\* of another ticket that the gated merge did not land (dispatcher.py:692-697).
BaseAccepted ==
  \A t, u \in Tickets : u # t => Works(u, branch[t]) \subseteq landed[u]

\* When a ticket closed by its agent is judged in its slot, a branch the agent
\* moved itself is back where the harness put it (dispatcher.py:759-764).
MoveUndone ==
  \A t \in held : at[t] \in {"judge", "lock", "merge"} /\ marker # NoTip => master = marker

\* "Restore the integration branch if it moved outside the gated merge"
\* (workspaces.py:406): where no agent moves it, work the gated merge put on it
\* stays there.
KeepsLanded == \A t \in Tickets : Moves = "never" => landed[t] \subseteq master.hist

\* The steps of the merge under the lock, with the branch the agents can reach,
\* do what the harness promises about it.
Gate == INSTANCE GatedMerge WITH Commits <- {x \in Nodes : ~x.merge}, exempt <- {}
MergeIsGated == Gate!Spec

=============================================================================
