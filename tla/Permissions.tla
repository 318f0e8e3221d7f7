---------------------------- MODULE Permissions ----------------------------
(***************************************************************************)
(* What the permission layer decides about a tool call without asking a    *)
(* model (permissions.py).  A shell command is the sequence of the commands *)
(* the shell makes of it; each is the class of its verb, of its subcommand *)
(* and flags, and of where its path arguments and redirects reach.  The    *)
(* lexer of the layer splits at operators and groups and takes a newline   *)
(* for a space, so a command on a line of its own is more arguments of the *)
(* one before it; a command it cannot lex has no segments.                 *)
(***************************************************************************)
EXTENDS Naturals, Sequences

\* "wrapper": env, xargs and others that run the command in their arguments.
Verbs    == {"dev", "reader", "interpreter", "wrapper", "git", "bd", "denied", "unknown"}
Subs     == {"local", "remote", "refs", "readonly", "flagged", "mutation", "inline"}
Reaches  == {"workspace", "toolchain", "outside"}
Segment  == [verb : Verbs, sub : Subs, reach : Reaches, newline : BOOLEAN]
Tools    == {"shell_exec", "read_file", "write_file", "control", "terminal"}
ToolCall == [tool : Tools, segs : Seq(Segment), lexed : BOOLEAN, grouped : BOOLEAN,
             reach : Reaches]

\* Where the lexer begins a segment, and the commands that are its words.
Heads(call) == {i \in 1..Len(call.segs) : i = 1 \/ ~call.segs[i].newline}

Words(call, i) ==
  {j \in i..Len(call.segs) : \A k \in i + 1..j : call.segs[k].newline}

\* git that moves refs, HEAD, the index or the tree (its read-only forms are
\* let through), and bd that changes the board.
SegmentForbidden(seg) ==
  \/ seg.verb = "git" /\ seg.sub \in {"refs", "flagged"}
  \/ seg.verb = "bd" /\ seg.sub = "mutation"

\* Mutant: only the command's first segment is looked at.
FirstSegmentForbidden(call) ==
  /\ call.tool = "shell_exec" /\ call.lexed /\ call.segs # <<>>
  /\ SegmentForbidden(call.segs[1])

\* forbidden_reason: a hard denial, whatever the classifier would say.
Forbidden(call) ==
  /\ call.tool = "shell_exec" /\ call.lexed
  /\ \E i \in Heads(call) : SegmentForbidden(call.segs[i])

\* READONLY_ROOTS extend the workspace for reading only.
Readable(reach) == reach \in {"workspace", "toolchain"}

SegmentOk(call, i) ==
  LET seg == call.segs[i] IN
    /\ seg.verb \notin {"denied", "unknown"}
    /\ ~(seg.verb = "git" /\ seg.sub = "remote")
    /\ \A j \in Words(call, i) :
         /\ ~(seg.verb = "interpreter" /\ call.segs[j].sub = "inline")
         /\ IF seg.verb = "reader" THEN Readable(call.segs[j].reach)
                                   ELSE call.segs[j].reach = "workspace"

\* Groups and substitutions are too much for the fast path.
ShellAllowlisted(call) ==
  /\ call.lexed /\ call.segs # <<>> /\ ~call.grouped
  /\ \A i \in Heads(call) : SegmentOk(call, i)

\* is_statically_safe: the call may skip the classifier.
StaticallySafe(call) ==
  \/ call.tool \in {"control", "terminal"}
  \/ call.tool = "read_file" /\ Readable(call.reach)
  \/ call.tool = "shell_exec" /\ ShellAllowlisted(call)
=============================================================================
