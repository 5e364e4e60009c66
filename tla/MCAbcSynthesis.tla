--------------------------- MODULE MCAbcSynthesis ---------------------------
(***************************************************************************)
(* Instances of AbcSynthesis and AbcScript for TLC: one of the two ways to *)
(* synthesise a folder is taken.                                           *)
(***************************************************************************)
EXTENDS AbcScript, TLC

CONSTANTS p1, p2, p3, g1, g2, g3

MCPlaFiles == {p1, p2, p3}
MCAigNames == {g1, g2, g3}
MCAigName  == (p1 :> g1) @@ (p2 :> g2) @@ (p3 :> g3)

Init ==
    /\ SynthInit
    /\ \/ ScriptInit
       \/ phase = "none" /\ script = <<>> /\ unlisted = {} /\ ip = 1 /\ failed = FALSE

WayOfSynthesis == phase = "none" /\ UNCHANGED scriptVars
Next ==
    \/ ParseArguments /\ WayOfSynthesis
    \/ ParseArgumentsFails /\ WayOfSynthesis
    \/ SynthStep /\ WayOfSynthesis
    \/ SynthKill /\ WayOfSynthesis
    \/ ScriptStep
    \/ SynthIdle /\ WayOfSynthesis
    \/ phase = "over" /\ UNCHANGED <<synthVars, scriptVars>>
Spec == /\ Init /\ [][Next]_<<synthVars, scriptVars>>
        /\ WF_<<synthVars, scriptVars>>(SynthStep /\ WayOfSynthesis)
=============================================================================
