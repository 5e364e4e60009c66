----------------------------- MODULE AbcScript -----------------------------
(***************************************************************************)
(* abcExe.cpp: writes exe.rc, a script that has the ABC shell translate    *)
(* every PLA of a folder.  The program is run first and the shell after    *)
(* it, on whatever the program has left.                                   *)
(*                                                                         *)
(* The folder, the files and the networks are those of AbcSynthesis; ABC   *)
(* is external, and known by the way the script uses it.                   *)
(***************************************************************************)
EXTENDS AbcSynthesis, Sequences

CONSTANT ShellFails  \* the commands that may fail in the shell

ASSUME ShellAssumption == ShellFails \subseteq Commands

VARIABLES
    script,   \* the lines of exe.rc
    unlisted, \* files of plaFiles without commands
    phase,    \* "write", "shell" or "over"
    ip,       \* the line the shell executes next
    failed    \* has a command failed that the shell could have executed?

scriptVars == <<script, unlisted, phase, ip, failed>>

Command(name, f) == [name |-> name, file |-> f]

\* Mutant: the current network is not emptied.
CommandsForKeeping(f) ==
    [k \in 1..4 |-> Command(<<"read_pla", "print_stats", "strash", "write_aiger">>[k], f)]

\* Mutant: the AIG is written before it is one.
CommandsForSwapped(f) ==
    [k \in 1..5 |-> Command(<<"read_pla", "print_stats", "write_aiger", "strash", "empty">>[k], f)]

\* optimize is false and never set, so it is always strash.
CommandsFor(f) ==
    [k \in 1..5 |-> Command(<<"read_pla", "print_stats", "strash", "write_aiger", "empty">>[k], f)]

(***************************************************************************)
(* The program.                                                            *)
(***************************************************************************)
\* The commands of the next file.
WriteCommands ==
    /\ phase = "write"
    /\ \E f \in unlisted \ Nameless :
         /\ script' = script \o CommandsFor(f)
         /\ unlisted' = unlisted \ {f}
    /\ UNCHANGED <<phase, ip, failed, synthVars>>

\* substr throws for a path without "output", or the program is killed: endl
\* has written every line before, and the last file lacks some commands.
BreakOff ==
    /\ phase = "write"
    /\ \E f \in unlisted, n \in 0..4 :
         /\ f \in Nameless => n <= 3
         /\ script' = script \o SubSeq(CommandsFor(f), 1, n)
    /\ phase' = "shell"
    /\ UNCHANGED <<unlisted, ip, failed, synthVars>>

EndScript ==
    /\ phase = "write" /\ unlisted = {}
    /\ phase' = "shell"
    /\ UNCHANGED <<script, unlisted, ip, failed, synthVars>>

(***************************************************************************)
(* The shell.  A command that needs a network of some form fails without.  *)
(***************************************************************************)
Line == script[ip]
Executable ==
    CASE Line.name = "read_pla"    -> Line.file \in pla
      [] Line.name = "print_stats" -> network # NoNetwork
      [] Line.name = "strash"      -> network # NoNetwork
      [] Line.name = "write_aiger" -> network.form = "hash"
      [] Line.name = "empty"       -> TRUE

Execute ==
    /\ phase = "shell" /\ ip <= Len(script) /\ Executable
    /\ network' = CASE Line.name = "read_pla" -> [of |-> {Line.file}, form |-> "sop"]
                    [] Line.name = "strash"   -> [network EXCEPT !.form = "hash"]
                    [] Line.name = "empty"    -> NoNetwork
                    [] OTHER                  -> network
    /\ aigs' = IF Line.name # "write_aiger" THEN aigs
               ELSE [aigs EXCEPT ![AigName[Line.file]] = network]
    /\ ip' = ip + 1
    /\ UNCHANGED <<script, unlisted, phase, failed, pla, optimize, todo, synthPc, syntheses>>

\* The shell gives up the script or goes on behind a command that fails; a
\* read that fails leaves the network that was there.
GoOnOrGiveUp == \/ ip' = ip + 1 /\ phase' = phase
                \/ ip' = ip /\ phase' = "over"
Refuse ==
    /\ phase = "shell" /\ ip <= Len(script) /\ ~Executable
    /\ GoOnOrGiveUp
    /\ UNCHANGED <<script, unlisted, failed, synthVars>>

FailToExecute ==
    /\ phase = "shell" /\ ip <= Len(script) /\ Executable /\ Line.name \in ShellFails
    /\ GoOnOrGiveUp
    /\ failed' = TRUE
    /\ UNCHANGED <<script, unlisted, synthVars>>

EndShell ==
    /\ phase = "shell" /\ ip > Len(script)
    /\ phase' = "over"
    /\ UNCHANGED <<script, unlisted, ip, failed, synthVars>>

\* The script is written once, from the folder as it is at first.
ScriptInit ==
    /\ script = <<>> /\ ip = 1 /\ failed = FALSE
    /\ phase = "write" /\ unlisted = pla

ScriptStep == \/ WriteCommands \/ BreakOff \/ EndScript
              \/ Execute \/ Refuse \/ FailToExecute \/ EndShell

ScriptSpec == SynthInit /\ ScriptInit /\ [][ScriptStep]_<<synthVars, scriptVars>>

(***************************************************************************)
(* Properties.                                                             *)
(***************************************************************************)
\* An AIG the script wrote has the network of its own PLA, whatever command
\* fails and wherever the script breaks off: a read that fails must not leave
\* the network of the file before to be written under the wrong name.
AigsOfTheirPlas == \A f \in PlaFiles : aigs[AigName[f]].of \subseteq {f}

\* The order of the commands is one ABC can execute: when none of them failed by
\* itself, every file of the list the program got through has its AIG.
ScriptTranslates ==
    phase = "over" /\ ~failed =>
      \A f \in pla \ unlisted : aigs[AigName[f]] = [of |-> {f}, form |-> "hash"]
=============================================================================
