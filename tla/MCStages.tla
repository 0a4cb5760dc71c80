------------------------------- MODULE MCStages -------------------------------
\* Instances of Stages: calls enough for each mode to reach its delivery.
EXTENDS Stages
Item(mode, outputs, checks, auto, limit) ==
  [mode |-> mode, outputs |-> outputs, checks |-> checks, auto |-> auto, limit |-> limit]
EveryMode ==
  {Item("run", "none", FALSE, TRUE, 7), Item("run", "shared", FALSE, FALSE, 8),
   Item("fix", "none", TRUE, FALSE, 5), Item("fix", "shared", FALSE, FALSE, 5),
   Item("fix", "own", FALSE, FALSE, 4), Item("collab", "none", FALSE, FALSE, 4),
   Item("collab", "shared", TRUE, FALSE, 3)}
OneFix == {Item("fix", "own", FALSE, FALSE, 4)}
===============================================================================
