----------------------------- MODULE MCWorkflow -----------------------------
(***************************************************************************)
(* Instances of Workflow for TLC.                                          *)
(***************************************************************************)
EXTENDS Workflow, TLC

CONSTANTS a1, a2, a3, dot, o1, o2, o3

MCAigFiles  == {a1, a2, a3}
MCOthers    == {dot}
MCOutNames  == {o1, o2, o3}
MCStem      == (a1 :> o2) @@ (a2 :> o1) @@ (a3 :> o3)
MCSortedNames == <<o1, o2, o3>>

\* No two neurons agree on both vectors.
MCValue  == (a1 :> <<0, 1>>) @@ (a2 :> <<1, 0>>) @@ (a3 :> <<1, 1>>)
MCBanner == [f \in MCAigFiles |-> 78 - 48]
MCGarbage == {0, 72}

\* Before aigsim has printed anything; before the output file exists; before the
\* join has deleted anything.
EarlyKillPoints == {"readdir", "read", "open", "redirect"}
BeforeOutput == {"readdir", "read", "open"}
EarlyJoinKillPoints == {"count"}
=============================================================================
