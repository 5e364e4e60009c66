------------------------- MODULE MCNeuronSimulator -------------------------
(***************************************************************************)
(* Instances of NeuronSimulator for TLC.                                   *)
(***************************************************************************)
EXTENDS NeuronSimulator, TLC

CONSTANTS a1, a2, a3, a4, dot, o1, o2, o3, o4

MCAigFiles2 == {a1, a2}
MCAigFiles3 == {a1, a2, a3}
MCAigFiles4 == {a1, a2, a3, a4}
MCOthers    == {dot}
MCOutNames  == {o1, o2, o3, o4}

\* Distinct stems; and "x.aig" and ".aigx", which both give "x".
MCStem2      == (a1 :> o1) @@ (a2 :> o2)
MCStem3      == (a1 :> o1) @@ (a2 :> o2) @@ (a3 :> o3)
MCStem4      == MCStem3 @@ (a4 :> o4)
MCStemShared == (a1 :> o1) @@ (a2 :> o1) @@ (a3 :> o3)

\* No two neurons agree on both vectors.
MCValue2 == (a1 :> <<0, 1>>) @@ (a2 :> <<1, 0>>)
MCValue3 == (a1 :> <<0, 1>>) @@ (a2 :> <<1, 0>>) @@ (a3 :> <<1, 1>>)
MCValue4 == MCValue3 @@ (a4 :> <<0, 0>>)

\* "L1N1", "L1N2", ...: the next to last character is 'N'.
MCBanner2 == [f \in MCAigFiles2 |-> 78 - 48]
MCBanner3 == [f \in MCAigFiles3 |-> 78 - 48]
MCBanner4 == [f \in MCAigFiles4 |-> 78 - 48]

AllKillPoints == ProgramPoints
\* Before aigsim has printed anything.
EarlyKillPoints == {"readdir", "read", "open", "redirect"}
=============================================================================
