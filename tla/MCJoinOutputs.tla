--------------------------- MODULE MCJoinOutputs ---------------------------
(***************************************************************************)
(* Instances of JoinHistory for TLC: folders with complete, short, empty   *)
(* and missing files.                                                      *)
(***************************************************************************)
EXTENDS JoinHistory, TLC

CONSTANTS o1, o2, o3

MCOutNames == {o1, o2, o3}
MCSortedNames == <<o1, o2, o3>>
MCGarbage == {0, 72}
MCUnreadable == {o2}

Bit(b) == [kind |-> "row", val |-> b]
Blank  == [kind |-> "blank", val |-> 0]
Banner == [kind |-> "banner", val |-> 30]

\* Two rows; one row; none; a row with the banner flushed behind it.
Contents == { <<Bit(0), Bit(1)>>, <<Bit(1)>>, <<>>, <<Bit(1), Blank, Banner>> }
Folders == UNION { [files : {S}, lines : [S -> Contents]] : S \in SUBSET MCOutNames }

MCInit ==
    /\ \E f \in Folders :
         /\ simFiles = f.files
         /\ simOut = [n \in OutNames |-> IF n \in f.files THEN f.lines[n] ELSE <<>>]
    /\ given = Folder
    /\ JoinInit
MCSpec == MCInit /\ [][HistoryNext]_<<joinVars, given>> /\ WF_joinVars(JoinStep)
=============================================================================
