-------------------------- MODULE SelfModification --------------------------
(***************************************************************************)
(* The harness changing its own source: an agent's session proposes a diff *)
(* (self_modifier.py, self_mod_ticket.py), the trusted loop sandboxes and  *)
(* deploys (run_self_mod_loop.py and the two scripts it drives), the       *)
(* reviewer script judges (reviewer.py), a person says yes or no (api.py); *)
(* they meet in the proposals table (self_mod.py).                         *)
(*                                                                         *)
(* Source text is a set of edits.  Proposals are numbered as they are      *)
(* created, which is the order every listing has.                          *)
(***************************************************************************)
EXTENDS Naturals, FiniteSets

CONSTANTS
  Tickets,           \* tickets of the project that targets the harness
  NoTicket,
  MaxDeploys,        \* SELF_MOD_MAX_DEPLOYS_PER_DAY
  MaxAgents,         \* the dispatcher's agent limit
  MaxProposals, MaxEdits, MaxFaults            \* bounds of the instance

ASSUME SelfModAssumption ==
  /\ IsFiniteSet(Tickets) /\ NoTicket \notin Tickets
  /\ MaxDeploys \in Nat /\ MaxAgents \in Nat
  /\ MaxProposals \in Nat /\ MaxEdits \in Nat /\ MaxFaults \in Nat

VARIABLES
  \* the rows of self_mod_proposals
  status, diff, base, owner, result, verdict,
  \* who raised a row, which the row does not say
  raiser,
  \* the board: the label and the state of each ticket
  flagged, closed,
  \* the self-modifier's checkout, shared by all sessions
  checkout, made,
  \* each ticket's session in the dispatcher, and its checkpointed thread
  session, thread,
  \* the real tree: committed and uncommitted edits, and what each deployment committed
  head, uncommitted, commit,
  \* the loop, the reviewer script, what was deployed in the last 24 hours
  loop, reviewer, recent,
  \* history: what a dashboard has shown, what a person has ever said yes to,
  \* the faults so far
  seen, yes, faults

rows  == <<status, diff, base, owner, result, verdict, raiser>>
board == <<flagged, closed>>
agent == <<checkout, made, session, thread>>
tree  == <<head, uncommitted, commit>>
vars  == <<rows, board, agent, tree, loop, reviewer, recent, seen, yes, faults>>

Ids   == 1..MaxProposals
Edits == 1..MaxEdits

Stages == {"absent", "pending", "sandboxed", "reviewed", "awaiting_human",
           "approved", "rejected", "deployed"}

IdleSession == [pc |-> "idle", before |-> {}, id |-> 0]
IdleLoop    == [pc |-> "idle", id |-> 0]

RowsOK ==
  /\ status  \in [Ids -> Stages]
  /\ diff    \in [Ids -> SUBSET Edits]
  /\ base    \in [Ids -> SUBSET Edits]
  /\ owner   \in [Ids -> Tickets \cup {NoTicket}]
  /\ raiser  \in [Ids -> Tickets \cup {NoTicket}]
  /\ result  \in [Ids -> {"none", "clean", "unclean"}]
  /\ verdict \in [Ids -> {"none", "allow", "deny"}]

AgentOK ==
  /\ checkout \in [base : SUBSET Edits, edits : SUBSET Edits]
  /\ made     \in 0..MaxEdits
  /\ session  \in [Tickets -> [pc : {"idle", "running", "ended", "attribute"},
                               before : SUBSET Ids, id : 0..MaxProposals]]
  /\ thread   \in [Tickets -> {"none", "live", "ended"}]

PipelineOK ==
  /\ head \subseteq Edits /\ uncommitted \subseteq Edits
  /\ commit   \in [Ids -> SUBSET Edits]
  /\ loop     \in [pc : {"idle", "sandbox", "chosen", "applied", "tested",
                         "committed", "built", "over"}, id : 0..MaxProposals]
  /\ reviewer \in [queue : SUBSET Ids, recorded : BOOLEAN]
  /\ recent \subseteq Ids /\ seen \subseteq Ids /\ yes \subseteq Ids

TypeOK ==
  /\ RowsOK /\ AgentOK /\ PipelineOK
  /\ flagged \in [Tickets -> BOOLEAN] /\ closed \in [Tickets -> BOOLEAN]
  /\ faults \in 0..MaxFaults

\* The checkout has been synced before, from the tree as it stands.
Init ==
  /\ status  = [p \in Ids |-> "absent"]
  /\ diff    = [p \in Ids |-> {}]
  /\ base    = [p \in Ids |-> {}]
  /\ owner   = [p \in Ids |-> NoTicket]
  /\ raiser  = [p \in Ids |-> NoTicket]
  /\ result  = [p \in Ids |-> "none"]
  /\ verdict = [p \in Ids |-> "none"]
  /\ flagged = [t \in Tickets |-> FALSE]
  /\ closed  = [t \in Tickets |-> FALSE]
  /\ checkout = [base |-> {}, edits |-> {}]
  /\ made = 0
  /\ session = [t \in Tickets |-> IdleSession]
  /\ thread  = [t \in Tickets |-> "none"]
  /\ head = {} /\ uncommitted = {}
  /\ commit = [p \in Ids |-> {}]
  /\ loop = IdleLoop
  /\ reviewer = [queue |-> {}, recorded |-> FALSE]
  /\ recent = {} /\ seen = {} /\ yes = {}
  /\ faults = 0

\* list_by_status: the rows of one status, the oldest first.
ByStatus(stage) == {p \in Ids : status[p] = stage}
Oldest(S) == CHOOSE p \in S : \A q \in S : p <= q

\* The bound on proposals: a session with none left to make leaves the
\* checkout as it is.
MayPropose == ByStatus("absent") # {}

-----------------------------------------------------------------------------
\* A ticket's session.

InSession == {t \in Tickets : session[t].pc # "idle"}

\* start_self_modification and the opening of work_ticket; a thread that has
\* reached its end returns at once. An orphaned ticket comes back here as well.
StartSession(t) ==
  /\ session[t].pc = "idle" /\ Cardinality(InSession) < MaxAgents
  /\ ~closed[t] /\ ~flagged[t]
  /\ session' = [session EXCEPT ![t] =
       [pc     |-> IF thread[t] = "ended" THEN "ended" ELSE "running",
        before |-> ByStatus("pending"), id |-> 0]]
  /\ thread' = [thread EXCEPT ![t] = IF @ = "none" THEN "live" ELSE @]
  /\ UNCHANGED <<rows, board, checkout, made, tree, loop, reviewer, recent, seen, yes, faults>>

\* sync_checkout_from_live copies the tree as it stands, and refuses to when
\* the checkout has changes.
SyncCheckout(t) ==
  /\ session[t].pc = "running" /\ MayPropose
  /\ checkout.edits = {}
  /\ checkout' = [checkout EXCEPT !.base = head \cup uncommitted]
  /\ UNCHANGED <<rows, board, made, session, thread, tree, loop, reviewer, recent,
                 seen, yes, faults>>

\* write_checkout_file: a new edit, or everything written back as it was.
WriteCheckout(t) ==
  /\ session[t].pc = "running" /\ MayPropose
  /\ \/ /\ made < MaxEdits
        /\ made' = made + 1
        /\ checkout' = [checkout EXCEPT !.edits = @ \cup {made + 1}]
     \/ /\ checkout.edits # {}
        /\ checkout' = [checkout EXCEPT !.edits = {}]
        /\ UNCHANGED made
  /\ UNCHANGED <<rows, board, session, thread, tree, loop, reviewer, recent, seen, yes, faults>>

\* propose_self_modification: the checkout's whole diff, which stays there.
Propose(t) ==
  /\ session[t].pc = "running" /\ MayPropose
  /\ checkout.edits # {}
  /\ LET p == Oldest(ByStatus("absent")) IN
       /\ status' = [status EXCEPT ![p] = "pending"]
       /\ diff'   = [diff   EXCEPT ![p] = checkout.edits]
       /\ base'   = [base   EXCEPT ![p] = checkout.base]
       /\ raiser' = [raiser EXCEPT ![p] = t]
  /\ UNCHANGED <<owner, result, verdict, board, agent, tree, loop, reviewer, recent,
                 seen, yes, faults>>

EndSession(t) ==
  /\ session[t].pc = "running"
  /\ session' = [session EXCEPT ![t].pc = "ended"]
  /\ thread'  = [thread EXCEPT ![t] = "ended"]
  /\ UNCHANGED <<rows, board, checkout, made, tree, loop, reviewer, recent, seen, yes, faults>>

\* What is pending now and was not when the session began is taken as its own.
FindRaised(t) ==
  LET raised == ByStatus("pending") \ session[t].before IN
  /\ session[t].pc = "ended"
  /\ session' = [session EXCEPT ![t] =
       IF raised = {} THEN IdleSession
       ELSE [@ EXCEPT !.pc = "attribute", !.id = Oldest(raised)]]
  /\ UNCHANGED <<rows, board, checkout, made, thread, tree, loop, reviewer, recent,
                 seen, yes, faults>>

Attribute(t) ==
  /\ session[t].pc = "attribute"
  /\ owner'   = [owner EXCEPT ![session[t].id] = t]
  /\ session' = [session EXCEPT ![t] = IdleSession]
  /\ UNCHANGED <<status, diff, base, result, verdict, raiser, board, checkout, made,
                 thread, tree, loop, reviewer, recent, seen, yes, faults>>

-----------------------------------------------------------------------------
\* The trusted loop: sandbox first, deploy when nothing is pending.

SandboxPending ==
  /\ loop.pc = "idle"
  /\ ByStatus("pending") # {}
  /\ loop' = [pc |-> "sandbox", id |-> Oldest(ByStatus("pending"))]
  /\ UNCHANGED <<rows, board, agent, tree, reviewer, recent, seen, yes, faults>>

\* Mutant: a run that could not complete is not recorded.
RecordCompleteRun(outcome) ==
  /\ loop.pc = "sandbox"
  /\ result' = [result EXCEPT ![loop.id] = outcome]
  /\ status' = [status EXCEPT ![loop.id] = IF outcome = "clean" THEN "sandboxed" ELSE @]
  /\ loop'   = IdleLoop
  /\ UNCHANGED <<diff, base, owner, verdict, raiser, board, agent, tree, reviewer,
                 recent, seen, yes, faults>>

\* The isolated run's counts are stored: a failed test, an incomplete run and a
\* diff that did not apply are all unclean.
RecordSandboxResult(outcome) ==
  /\ loop.pc = "sandbox"
  /\ result' = [result EXCEPT ![loop.id] = outcome]
  /\ status' = [status EXCEPT ![loop.id] = "sandboxed"]
  /\ loop'   = IdleLoop
  /\ UNCHANGED <<diff, base, owner, verdict, raiser, board, agent, tree, reviewer,
                 recent, seen, yes, faults>>

\* Mutant: the cap is one too high.
RoomToday == Cardinality(recent) <= MaxDeploys

\* Fewer than the cap were deployed in the last 24 hours.
UnderCap == Cardinality(recent) < MaxDeploys

HasCleanSandboxResult(p) == result[p] = "clean"

\* Mutant: whatever lies in the tree is deployed with the diff.
AnyTree == TRUE

CleanTree == uncommitted = {}

\* The oldest approved proposal, and no other, is tried; it is refused when
\* its run was not clean or the tree is dirty.
DeployApproved ==
  /\ loop.pc = "idle"
  /\ ByStatus("pending") = {} /\ ByStatus("approved") # {}
  /\ UnderCap
  /\ HasCleanSandboxResult(Oldest(ByStatus("approved")))
  /\ CleanTree
  /\ loop' = [pc |-> "chosen", id |-> Oldest(ByStatus("approved"))]
  /\ UNCHANGED <<rows, board, agent, tree, reviewer, recent, seen, yes, faults>>

\* git apply: never what the tree already has, surely what was made on it as
\* it stands, and on a tree that moved it depends.
ApplyDiff ==
  LET p == loop.id IN
  /\ loop.pc = "chosen"
  /\ \/ /\ diff[p] \cap (head \cup uncommitted) = {}
        /\ uncommitted' = uncommitted \cup diff[p]
        /\ loop' = [loop EXCEPT !.pc = "applied"]
     \/ /\ head # base[p] \/ diff[p] \cap head # {}
        /\ loop' = [loop EXCEPT !.pc = "over"]
        /\ UNCHANGED uncommitted
  /\ UNCHANGED <<rows, board, agent, head, commit, reviewer, recent, seen, yes, faults>>

\* Mutant: a failed final run is not rolled back.
FinalTestKeeps(ok) ==
  /\ loop.pc = "applied"
  /\ loop' = [loop EXCEPT !.pc = IF ok THEN "tested" ELSE "over"]
  /\ UNCHANGED <<rows, board, agent, tree, reviewer, recent, seen, yes, faults>>

\* The suite runs against the real tree; a failure is rolled back.
FinalTest(ok) ==
  /\ loop.pc = "applied"
  /\ loop' = [loop EXCEPT !.pc = IF ok THEN "tested" ELSE "over"]
  /\ uncommitted' = IF ok THEN uncommitted ELSE {}
  /\ UNCHANGED <<rows, board, agent, head, commit, reviewer, recent, seen, yes, faults>>

\* git add -A, git commit.
CommitChange ==
  /\ loop.pc = "tested"
  /\ head' = head \cup uncommitted
  /\ commit' = [commit EXCEPT ![loop.id] = uncommitted]
  /\ uncommitted' = {}
  /\ loop' = [loop EXCEPT !.pc = "committed"]
  /\ UNCHANGED <<rows, board, agent, reviewer, recent, seen, yes, faults>>

\* The image is built and the services recreated, the dispatcher and its
\* sessions with them; a failure to recreate them is only logged. If the build
\* fails the change stays committed, and its row approved.
RebuildServices(ok) ==
  /\ loop.pc = "committed"
  /\ loop' = [loop EXCEPT !.pc = IF ok THEN "built" ELSE "over"]
  /\ \/ ok /\ session' = [t \in Tickets |-> IdleSession]
     \/ UNCHANGED session
  /\ UNCHANGED <<rows, board, checkout, made, thread, tree, reviewer, recent, seen, yes, faults>>

MarkDeployed ==
  /\ loop.pc = "built"
  /\ status' = [status EXCEPT ![loop.id] = "deployed"]
  /\ recent' = recent \cup {loop.id}
  /\ loop' = [loop EXCEPT !.pc = "over"]
  /\ UNCHANGED <<diff, base, owner, result, verdict, raiser, board, agent, tree,
                 reviewer, seen, yes, faults>>

\* Mutant: the row is not read again.
ReportAnyway(taken) ==
  /\ loop.pc = "over"
  /\ closed' = [t \in Tickets |-> closed[t] \/ (taken /\ owner[loop.id] = t)]
  /\ loop' = IdleLoop
  /\ UNCHANGED <<rows, flagged, agent, tree, reviewer, recent, seen, yes, faults>>

\* The row is read again; only a deployment closes the ticket on the row. A
\* board that refuses is only logged.
ReportDeployment(taken) ==
  /\ loop.pc = "over"
  /\ closed' = [t \in Tickets |->
       closed[t] \/ (taken /\ status[loop.id] = "deployed" /\ owner[loop.id] = t)]
  /\ loop' = IdleLoop
  /\ UNCHANGED <<rows, flagged, agent, tree, reviewer, recent, seen, yes, faults>>

\* A deployment is more than 24 hours old.
Ages(p) ==
  /\ p \in recent
  /\ recent' = recent \ {p}
  /\ UNCHANGED <<rows, board, agent, tree, loop, reviewer, seen, yes, faults>>

-----------------------------------------------------------------------------
\* The reviewer script, run by hand: lists what is sandboxed, then goes through
\* the list.

StartReview ==
  /\ reviewer.queue = {} /\ ByStatus("sandboxed") # {}
  /\ reviewer' = [queue |-> ByStatus("sandboxed"), recorded |-> FALSE]
  /\ UNCHANGED <<rows, board, agent, tree, loop, recent, seen, yes, faults>>

\* Mutant: a word that is neither allow nor deny is stored as it came.
RecordAnyWord(word) ==
  /\ reviewer.queue # {} /\ ~reviewer.recorded
  /\ LET p == Oldest(reviewer.queue) IN
       /\ \/ verdict' = [verdict EXCEPT ![p] = word]
          \/ verdict' = [verdict EXCEPT ![p] = "perhaps"]
       /\ status'  = [status  EXCEPT ![p] = "reviewed"]
  /\ reviewer' = [reviewer EXCEPT !.recorded = TRUE]
  /\ UNCHANGED <<diff, base, owner, result, raiser, board, agent, tree, loop, recent,
                 seen, yes, faults>>

\* The reviewer's word is stored, an answer that is no word as a deny.
RecordReview(word) ==
  /\ reviewer.queue # {} /\ ~reviewer.recorded
  /\ LET p == Oldest(reviewer.queue) IN
       /\ verdict' = [verdict EXCEPT ![p] = word]
       /\ status'  = [status  EXCEPT ![p] = "reviewed"]
  /\ reviewer' = [reviewer EXCEPT !.recorded = TRUE]
  /\ UNCHANGED <<diff, base, owner, result, raiser, board, agent, tree, loop, recent,
                 seen, yes, faults>>

\* Mutant: an allow approves, as it did before a person was asked.
ActOnReviewAlone ==
  /\ reviewer.recorded
  /\ LET p == Oldest(reviewer.queue) IN
       /\ status' = [status EXCEPT ![p] =
            IF verdict[p] = "allow" THEN "approved" ELSE "rejected"]
       /\ reviewer' = [queue |-> reviewer.queue \ {p}, recorded |-> FALSE]
  /\ UNCHANGED <<diff, base, owner, result, verdict, raiser, board, agent, tree, loop,
                 recent, seen, yes, faults>>

\* An allow parks the proposal for a person, and its ticket; a deny
\* rejects it.
ActOnReview ==
  /\ reviewer.recorded
  /\ LET p == Oldest(reviewer.queue)
         allowed == verdict[p] = "allow"
     IN /\ status' = [status EXCEPT ![p] = IF allowed THEN "awaiting_human" ELSE "rejected"]
        /\ seen'   = IF allowed THEN seen \cup {p} ELSE seen
        /\ flagged' = [t \in Tickets |-> flagged[t] \/ (allowed /\ owner[p] = t)]
        /\ reviewer' = [queue |-> reviewer.queue \ {p}, recorded |-> FALSE]
  /\ UNCHANGED <<diff, base, owner, result, verdict, raiser, closed, agent, tree, loop,
                 recent, yes, faults>>

-----------------------------------------------------------------------------
\* A person answers a proposal the dashboard has shown. Neither endpoint looks
\* at the row: a page left open answers whatever has become of it.

Approve(p) ==
  /\ p \in seen
  /\ status' = [status EXCEPT ![p] = "approved"]
  /\ yes' = yes \cup {p}
  /\ UNCHANGED <<diff, base, owner, result, verdict, raiser, board, agent, tree, loop,
                 reviewer, recent, seen, faults>>

Reject(p) ==
  /\ p \in seen
  /\ status' = [status EXCEPT ![p] = "rejected"]
  /\ UNCHANGED <<diff, base, owner, result, verdict, raiser, board, agent, tree, loop,
                 reviewer, recent, seen, yes, faults>>

-----------------------------------------------------------------------------
\* Faults: a process dies, or a call of its cycle raises.

Fault == faults < MaxFaults /\ faults' = faults + 1

LoopFails ==
  /\ Fault /\ loop.pc # "idle"
  /\ loop' = IdleLoop
  /\ UNCHANGED <<rows, board, agent, tree, reviewer, recent, seen, yes>>

ReviewerFails ==
  /\ Fault /\ reviewer.queue # {}
  /\ reviewer' = [queue |-> {}, recorded |-> FALSE]
  /\ UNCHANGED <<rows, board, agent, tree, loop, recent, seen, yes>>

SessionFails(t) ==
  /\ Fault /\ session[t].pc # "idle"
  /\ session' = [session EXCEPT ![t] = IdleSession]
  /\ UNCHANGED <<rows, board, checkout, made, thread, tree, loop, reviewer, recent, seen, yes>>

-----------------------------------------------------------------------------
Session(t) ==
  \/ StartSession(t) \/ SyncCheckout(t) \/ WriteCheckout(t) \/ Propose(t)
  \/ EndSession(t) \/ FindRaised(t) \/ Attribute(t)

RunOneCycle ==
  \/ SandboxPending \/ (\E outcome \in {"clean", "unclean"} : RecordSandboxResult(outcome))
  \/ DeployApproved \/ ApplyDiff \/ CommitChange \/ MarkDeployed
  \/ \E ok \in BOOLEAN : FinalTest(ok) \/ RebuildServices(ok) \/ ReportDeployment(ok)

Review == StartReview \/ (\E word \in {"allow", "deny"} : RecordReview(word)) \/ ActOnReview

Faults == LoopFails \/ ReviewerFails \/ \E t \in Tickets : SessionFails(t)

Next ==
  \/ \E t \in Tickets : Session(t)
  \/ RunOneCycle
  \/ Review
  \/ \E p \in Ids : Approve(p) \/ Reject(p) \/ Ages(p)
  \/ Faults

Spec == Init /\ [][Next]_vars

\* Only the loop is a service: its main has no exit and catches everything.
FairSpec == Spec /\ WF_vars(RunOneCycle)

-----------------------------------------------------------------------------
\* Properties.

Landed == {p \in Ids : commit[p] # {}}

\* "approved is reachable only by a human saying yes" and "a proposal whose
\* sandbox run was not clean never deploys" (run_self_mod_loop.py 22, 34):
\* what was committed to the real tree ran clean, was allowed by the reviewer
\* and was said yes to, whatever order answers, cycles and crashes come in.
Earned == \A p \in Landed : result[p] = "clean" /\ verdict[p] = "allow" /\ p \in yes

\* "Deployment refuses to run onto a dirty tree" (run_self_mod_loop.py 36): a
\* proposal's commit holds its diff and nothing a crash left behind.
CommitIsDiff == \A p \in Landed : commit[p] = diff[p]

\* "...and rolls the applied diff back if the final run fails" (36-37): short of
\* a crash, the loop leaves nothing uncommitted in the tree between cycles.
TreeRestored == faults = 0 /\ loop.pc = "idle" => uncommitted = {}

\* SELF_MOD_MAX_DEPLOYS_PER_DAY (run_self_mod_loop.py 41-43, 87-97).
DeployCap == Cardinality(recent) <= MaxDeploys

\* "A ticket must not be closed for a deployment that did not happen"
\* (run_self_mod_loop.py 105-108).
ClosedWasDeployed ==
  [][\A t \in Tickets :
       closed'[t] /\ ~closed[t] => \E p \in Landed : owner[p] = t]_vars

\* "Close the ticket a deployed proposal came from" (self_mod_ticket.py 97): a
\* ticket is closed by a change its own session proposed.
ClosedByOwnChange ==
  \A t \in Tickets : closed[t] => \E p \in Landed : raiser[p] = t

\* "pending -> sandbox it" (run_self_mod_loop.py 15): every proposal is tested
\* in the end, behind however many others and after a failed cycle.
PendingSandboxed == \A p \in Ids : status[p] = "pending" ~> status[p] # "pending"

=============================================================================
