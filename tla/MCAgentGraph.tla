---------------------------- MODULE MCAgentGraph ----------------------------
(* Instances of AgentGraph for TLC.                                        *)
EXTENDS AgentGraph

CONSTANTS a1, o1, main, small, worker, classifier

Chains == [r \in {worker, classifier} |-> IF r = worker THEN <<main, small>> ELSE <<small>>]
Sizes == [p \in {main, small} |-> IF p = main THEN 7 ELSE 5]
OneEach == [p \in {main, small} |-> 1]

Seg(v, s, newline) == [verb |-> v, sub |-> s, reach |-> "workspace", newline |-> newline]
Call(t, segs) ==
  [tool |-> t, segs |-> segs, lexed |-> TRUE, grouped |-> FALSE, reach |-> "workspace"]
Plain(t) == Call(t, <<>>)

Move    == Call("shell_exec", <<Seg("dev", "local", FALSE), Seg("git", "refs", FALSE)>>)
Lines   == Call("shell_exec", <<Seg("dev", "local", FALSE), Seg("git", "refs", TRUE)>>)
Write   == Plain("write_file")
Finish  == Plain("terminal")

Turn(calls, bad) == [calls |-> calls, bad |-> bad]
SomeTurns == {Turn({}, "none"), Turn({}, "named"), Turn({Move, Write}, "named"),
              Turn({Lines}, "nameless"), Turn({Finish, Write}, "none")}
=============================================================================
