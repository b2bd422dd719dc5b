------------------------------- MODULE Skills -------------------------------
(***************************************************************************)
(* The skills directory and the registries that are loaded from it.  The   *)
(* daemon and every "nexmind skill" command have a registry of their own,  *)
(* in memory: it is filled when the process starts, with the built-in      *)
(* skills and with what the directory holds, and goes when the process     *)
(* ends.  Installing copies a directory file by file.                      *)
(*                                                                         *)
(* A skill is its manifest skill.yaml and its script; the manifest of the  *)
(* source is valid.  Searching, showing and listing change nothing.        *)
(***************************************************************************)
EXTENDS Naturals, FiniteSets

CONSTANTS
  SkillIds,
  Builtin,    \* the ids of the skills that come with the program
  Daemons,    \* processes of the daemon
  Commands,   \* processes of the command line
  MaxSkillRuns \* bound: process starts

ASSUME SkillsAssumption ==
  SkillIds # {} /\ Builtin \subseteq SkillIds /\ Daemons \cap Commands = {} /\ MaxSkillRuns \in Nat

SkillProcesses == Daemons \cup Commands
Files == {"skill.yaml", "main.py"}

VARIABLES
  directory, \* directory[s]: is there one of this name, and its files
  registry,  \* registry[p][s]: the registry of the process
  skillPc,   \* skillPc[p]: [at, skill, left]: where the process is, the skill it
             \* installs and the files it has yet to copy
  skillRuns, \* how many process starts there were
  reported,  \* reported[s]: the latest message of the command line about s
  clashed \* the skills that two processes installed at the same time

skillVars == <<directory, registry, skillPc, skillRuns, reported, clashed>>

NoDirectory == [exists |-> FALSE, files |-> {}]
Whole == [exists |-> TRUE, files |-> Files]
Empty == [s \in SkillIds |-> "absent"]
AnySkill == CHOOSE s \in SkillIds : TRUE
Off == [at |-> "off", skill |-> AnySkill, left |-> {}]

SkillsInit ==
  /\ directory = [s \in SkillIds |-> NoDirectory]
  /\ registry = [p \in SkillProcesses |-> Empty]
  /\ skillPc = [p \in SkillProcesses |-> Off]
  /\ skillRuns = 0
  /\ reported = [s \in SkillIds |-> "nothing"]
  /\ clashed = {}

-----------------------------------------------------------------------------
(* load_from_dir, after the built-in skills. *)
Loaded ==
  [s \in SkillIds |->
     IF s \in Builtin \/ "skill.yaml" \in directory[s].files THEN "active" ELSE "absent"]

StartProcess(p) ==
  /\ skillPc[p].at = "off"
  /\ skillRuns < MaxSkillRuns
  /\ skillRuns' = skillRuns + 1
  /\ registry' = [registry EXCEPT ![p] = Loaded]
  /\ skillPc' = [skillPc EXCEPT ![p].at = "loaded"]
  /\ UNCHANGED <<directory, reported, clashed>>

(* The process ends, and its registry with it. *)
Ends(p) ==
  /\ skillPc' = [skillPc EXCEPT ![p] = Off]
  /\ registry' = [registry EXCEPT ![p] = Empty]
  /\ UNCHANGED skillRuns

Report(s, message) == reported' = [reported EXCEPT ![s] = message]

-----------------------------------------------------------------------------
(* nexmind skill install: install_from_dir.                                *)

Installers(s) == {q \in Commands : skillPc[q].at \in {"checked", "copying"}
                                   /\ skillPc[q].skill = s}

(* Slip: a skill whose directory is there is reported as installed. *)
AcceptTarget(p, s) ==
  /\ skillPc[p].at = "loaded" /\ p \in Commands
  /\ directory[s].exists
  /\ Report(s, "installed")
  /\ Ends(p)
  /\ UNCHANGED <<directory, clashed>>

(* The target directory exists: AlreadyInstalled. *)
RefuseTarget(p, s) ==
  /\ skillPc[p].at = "loaded" /\ p \in Commands
  /\ directory[s].exists
  /\ Ends(p)
  /\ UNCHANGED <<directory, reported, clashed>>

(* It does not; nothing keeps another process from the same result. *)
CheckTarget(p, s) ==
  /\ skillPc[p].at = "loaded" /\ p \in Commands
  /\ ~directory[s].exists
  /\ skillPc' = [skillPc EXCEPT ![p] = [at |-> "checked", skill |-> s, left |-> Files]]
  /\ clashed' = clashed \cup (IF Installers(s) = {} THEN {} ELSE {s})
  /\ UNCHANGED <<directory, registry, skillRuns, reported>>

(* copy_dir_recursive: the directory, then its files in any order.  A copy *)
(* truncates the file that is there before it writes it.                   *)
CreateTarget(p) ==
  /\ skillPc[p].at = "checked"
  /\ skillPc' = [skillPc EXCEPT ![p].at = "copying"]
  /\ directory' = [directory EXCEPT ![skillPc[p].skill].exists = TRUE]
  /\ UNCHANGED <<registry, skillRuns, reported, clashed>>

TruncateFile(p, f) ==
  /\ skillPc[p].at = "copying" /\ f \in skillPc[p].left
  /\ f \in directory[skillPc[p].skill].files
  /\ directory' = [directory EXCEPT ![skillPc[p].skill].files = @ \ {f}]
  /\ UNCHANGED <<registry, skillPc, skillRuns, reported, clashed>>

CopyFile(p, f) ==
  /\ skillPc[p].at = "copying" /\ f \in skillPc[p].left
  /\ f \notin directory[skillPc[p].skill].files
  /\ directory' = [directory EXCEPT ![skillPc[p].skill].files = @ \cup {f}]
  /\ skillPc' = [skillPc EXCEPT ![p].left = @ \ {f}]
  /\ UNCHANGED <<registry, skillRuns, reported, clashed>>

(* All is copied.  The skill is entered into the registry of the command,  *)
(* which fails if the registry has it, as a built-in skill; the command    *)
(* reports, and its process ends.                                          *)
Register(p) ==
  /\ skillPc[p].at = "copying" /\ skillPc[p].left = {}
  /\ IF registry[p][skillPc[p].skill] = "absent"
     THEN Report(skillPc[p].skill, "installed") ELSE UNCHANGED reported
  /\ Ends(p)
  /\ UNCHANGED <<directory, clashed>>

-----------------------------------------------------------------------------
(* The other commands, on the registry of their own process, which ends.   *)

(* "Skill uninstalled: {}" *)
Uninstall(p, s) ==
  /\ skillPc[p].at = "loaded" /\ p \in Commands
  /\ IF registry[p][s] = "absent" THEN UNCHANGED reported ELSE Report(s, "uninstalled")
  /\ Ends(p)
  /\ UNCHANGED <<directory, clashed>>

(* "Skill enabled: {}", "Skill disabled: {}" *)
SetStatus(p, s, status) ==
  /\ skillPc[p].at = "loaded" /\ p \in Commands
  /\ IF registry[p][s] = "absent" THEN UNCHANGED reported ELSE Report(s, status)
  /\ Ends(p)
  /\ UNCHANGED <<directory, clashed>>

(* The daemon stops, or a command dies where it is or fails to copy. *)
StopProcess(p) ==
  /\ skillPc[p].at # "off"
  /\ Ends(p)
  /\ UNCHANGED <<directory, reported, clashed>>

SkillsNext == \E p \in SkillProcesses :
  \/ StartProcess(p) \/ CreateTarget(p) \/ Register(p) \/ StopProcess(p)
  \/ \E f \in Files : TruncateFile(p, f) \/ CopyFile(p, f)
  \/ \E s \in SkillIds :
       \/ RefuseTarget(p, s) \/ CheckTarget(p, s) \/ Uninstall(p, s)
       \/ \E status \in {"active", "disabled"} : SetStatus(p, s, status)

SkillsSpec == SkillsInit /\ [][SkillsNext]_skillVars

-----------------------------------------------------------------------------
SkillsTypeOK ==
  /\ directory \in [SkillIds -> [exists : BOOLEAN, files : SUBSET Files]]
  /\ registry \in [SkillProcesses -> [SkillIds -> {"absent", "active"}]]
  /\ skillPc \in [SkillProcesses -> [at : {"off", "loaded", "checked", "copying"},
                                     skill : SkillIds, left : SUBSET Files]]
  /\ skillRuns \in 0 .. MaxSkillRuns
  /\ reported \in [SkillIds -> {"nothing", "installed", "uninstalled", "active", "disabled"}]
  /\ clashed \subseteq SkillIds

(* A skill that install reported as installed is there with all its files, *)
(* whichever commands died in the middle of a copy before, unless another  *)
(* process was installing it at the same time.                             *)
InstalledIsWhole ==
  \A s \in SkillIds : reported[s] = "installed" =>
    directory[s] = Whole \/ s \in clashed

(* "Skill uninstalled: {}" (apps/cli/src/main.rs:1610): a process that     *)
(* starts after this message does not load the skill.                      *)
UninstalledIsGone ==
  [][\A p \in SkillProcesses, s \in SkillIds :
       reported[s] = "uninstalled" /\ StartProcess(p) => registry'[p][s] = "absent"]_skillVars
=============================================================================
