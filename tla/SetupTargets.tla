---------------------------- MODULE SetupTargets ----------------------------
(***************************************************************************)
(* What `mnemon setup` writes into, registers with and removes from each   *)
(* of the seventeen agent hosts it supports: one row of the table per host *)
(* and per function of the code.  The rows hold what the hosts differ in;  *)
(* module Setup holds the machine that executes them.                      *)
(*                                                                         *)
(* A plan is the sequence of the steps a command takes.  A step that       *)
(* `must` succeed ends the command when it fails, the others are reported  *)
(* and passed over.                                                        *)
(***************************************************************************)
EXTENDS Sequences

(* The scripts of the four lifecycle hooks. *)
Scripts == {"prime", "remind", "nudge", "compact"}

Local == {"local"}
Global == {"global"}
Both == Local \cup Global

Write(a)    == [op |-> "write", items |-> {a}, must |-> TRUE]
TryWrite(a) == [op |-> "write", items |-> {a}, must |-> FALSE]
Register    == [op |-> "register", items |-> {}, must |-> TRUE]
TryRegister == [op |-> "register", items |-> {}, must |-> FALSE]
Seed        == [op |-> "seed", items |-> {}, must |-> FALSE]
Drop(as)    == [op |-> "drop", items |-> as, must |-> FALSE]
ThenDrop(a) == [op |-> "then", items |-> {a}, must |-> FALSE]
Unregister  == [op |-> "unregister", items |-> {}, must |-> FALSE]
Strip       == [op |-> "strip", items |-> {}, must |-> FALSE]
AskStrip    == [op |-> "ask", items |-> {}, must |-> FALSE]

(* initDefaultStore: the legacy database is migrated, a failure of which is *)
(* only warned of, and the default store is opened when it has no directory. *)
initDefaultStore == [op |-> "init", items |-> {"store"}, must |-> TRUE]

(* WritePromptFiles and PiWritePromptFiles: guide.md and skill.md. *)
WritePromptFiles == Write("prompts")

PiWritePromptFiles == Write("pi-prompts")

-----------------------------------------------------------------------------
(* The hosts: the artifacts the writers put under the configuration         *)
(* directory, whether reading the configuration can fail on its syntax, and *)
(* the commands that overwrite the configuration in place instead of        *)
(* renaming a finished copy over it.                                        *)

Host(owns, parses, inPlace) ==
    [owns |-> owns, parses |-> parses, inPlace |-> inPlace]

Claude    == Host({"skill"} \cup Scripts, TRUE, {})
Codex     == Host({"skill", "prime", "remind", "nudge"}, TRUE, {})
Cursor    == Host({"skill", "prime", "nudge", "compact"}, TRUE, {})
ZCode     == Host({"skill", "prime", "remind", "nudge"}, TRUE, {})
MiniMax   == Host({"skill"}, FALSE, {})
Trae      == Host({"skill", "prime", "remind", "nudge"}, TRUE, {})
Qoder     == Host({"skill", "prime", "remind", "nudge"}, TRUE, {})
QoderWork == Qoder
CodeBuddy == Host({"skill", "prime", "remind", "nudge"}, TRUE, {})
WorkBuddy == Host({"skill", "prime", "remind", "nudge"}, TRUE, {})
Kimi      == Host({"skill", "prime", "remind", "nudge"}, FALSE, {"eject"})
OpenCode  == Host({"skill", "plugin"}, TRUE, {})
OpenClaw  == Host({"skill", "hook", "plugin"}, TRUE, {"install", "eject"})
Nanobot   == Host({"skill"}, FALSE, {})
Pi        == Host({"skill", "extension"}, FALSE, {})
Hermes    == Host({"skill", "state"} \cup Scripts, TRUE, {})
Alma      == Host({"skill", "shim", "prime"}, TRUE, {})

(* The optional hooks the user is asked about; every other hook is written  *)
(* whenever its host is set up.                                             *)
selectOptionalHooks         == {"remind", "nudge", "compact"}
selectCursorOptionalHooks   == {"nudge", "compact"}
selectOpenClawOptionalHooks == {"remind", "nudge", "compact"}
selectHermesOptionalHooks   == {"remind", "nudge", "compact"}

-----------------------------------------------------------------------------
(* What registering leaves in the configuration besides the user's entries: *)
(* the hooks it names, given the selection, and the key it adds: "version"  *)
(* and "$schema" when the file has none, "enabled" over what is there.      *)

Registers(hooks, key) == [hooks |-> hooks, key |-> key]

addClaudeHooksSelective(sel) == Registers({"prime"} \cup sel, "none")

addCodexHooks == Registers({"prime", "remind", "nudge"}, "none")

addCursorHooks(sel) ==
    Registers({"prime"} \cup (sel \cap {"nudge", "compact"}), "version")

addZCodeHooks == Registers({"prime", "remind", "nudge"}, "enabled")

addTraeHooks == Registers({"prime", "remind", "nudge"}, "version")

addQoderHooks == Registers({"prime", "remind", "nudge"}, "none")

addCodeBuddyHooks == Registers({"prime", "remind", "nudge"}, "none")

addWorkBuddyHooks == Registers({"prime", "remind", "nudge"}, "none")

addKimiHooks == Registers({"prime", "remind", "nudge"}, "none")

addOpenCodeInstruction == Registers({"guide"}, "schema")

OpenClawRegisterPlugin == Registers({"entry"}, "none")

addHermesHooks(sel) == Registers({"prime"} \cup sel, "none")

addAlmaHooks == Registers({"prime"}, "none")

-----------------------------------------------------------------------------
(* The install plans. *)

installClaudeCode ==
    << Write("skill"), WritePromptFiles, Write("prime"), TryWrite("remind"),
       TryWrite("nudge"), TryWrite("compact"), TryRegister >>

installCodex ==
    << Write("skill"), WritePromptFiles, Write("prime"), Write("remind"),
       Write("nudge"), Register >>

installCursor ==
    << Write("skill"), WritePromptFiles, Write("prime"), Write("nudge"),
       Write("compact"), Register >>

(* ZCode reads no project-level hooks: a local install is the skill alone. *)
installZCode(scope) ==
    IF scope = "local"
    THEN << Write("skill"), WritePromptFiles >>
    ELSE << Write("skill"), WritePromptFiles, Write("prime"), Write("remind"),
            Write("nudge"), Register >>

installMiniMaxCode == << Write("skill"), WritePromptFiles >>

installTrae ==
    << Write("skill"), WritePromptFiles, Write("prime"), Write("remind"),
       Write("nudge"), Register >>

installQoderLike ==
    << Write("skill"), WritePromptFiles, Write("prime"), Write("remind"),
       Write("nudge"), Register >>

installQoder == installQoderLike

installQoderWork == installQoderLike

installCodeBuddy ==
    << Write("skill"), WritePromptFiles, Write("prime"), Write("remind"),
       Write("nudge"), Register >>

installWorkBuddy ==
    << Write("skill"), WritePromptFiles, Write("prime"), Write("remind"),
       Write("nudge"), Register >>

installKimi ==
    << Write("skill"), WritePromptFiles, Write("prime"), Write("remind"),
       Write("nudge"), Register >>

installOpenCode ==
    << Write("skill"), WritePromptFiles, Register, Write("plugin") >>

installOpenClaw ==
    << Write("skill"), WritePromptFiles, TryWrite("hook"), TryWrite("plugin"),
       TryRegister >>

installNanobot == << Write("skill"), WritePromptFiles >>

installPi == << Write("skill"), PiWritePromptFiles, Write("extension") >>

installHermes ==
    << Write("skill"), WritePromptFiles, Write("prime"), Write("remind"),
       Write("nudge"), Write("compact"), Register >>

(* Alma's block of MEMORY.md is seeded from the store, by the shim. *)
installAlma ==
    << Write("skill"), Write("shim"), Write("prime"), Register, Seed >>

-----------------------------------------------------------------------------
(* The eject plans: every step is tried, whatever became of the ones before *)
(* it.                                                                      *)

ClaudeEject == << Drop(Scripts), Unregister, Drop({"skill"}) >>

CodexEject == << Drop(Scripts), Unregister, Drop({"skill"}) >>

CursorEject == << Drop(Scripts), Unregister, Drop({"skill"}) >>

ZCodeEject == << Drop(Scripts), Unregister, Drop({"skill"}) >>

MiniMaxCodeEject == << Drop({"skill"}) >>

TraeEject == << Drop(Scripts), Unregister, Drop({"skill"}) >>

ejectQoder == << Drop(Scripts), Unregister, Drop({"skill"}) >>

CodeBuddyEject == << Drop(Scripts), Unregister, Drop({"skill"}) >>

WorkBuddyEject == << Drop(Scripts), Unregister, Drop({"skill"}) >>

KimiEject == << Drop(Scripts), Unregister, Drop({"skill"}) >>

OpenCodeEject == << Drop({"skill"}), Drop({"plugin"}), Unregister >>

OpenClawEject ==
    << Drop({"skill"}), Drop({"hook"}), Drop({"plugin"}), Unregister >>

NanobotEject == << Drop({"skill"}) >>

PiEject == << Drop({"extension"}), Drop({"skill"}) >>

(* Mutant: the state the hooks keep is forgotten. *)
HermesEjectForgetting == << Drop(Scripts), Unregister, Drop({"skill"}) >>

HermesEject ==
    << Drop(Scripts), Unregister, Drop({"skill"}), Drop({"state"}) >>

(* The shim is left when the hook could not be removed. *)
AlmaEject ==
    << Drop({"prime"}), ThenDrop("shim"), Unregister, Drop({"skill"}), Strip >>

-----------------------------------------------------------------------------
(* Detection: the scopes a host has a configuration directory for, and what *)
(* shows that the host is there (a binary on the path, its global           *)
(* directory, the directory of an older release, its application bundle).   *)

Environment(scopes, shows) == [scopes |-> scopes, shows |-> shows]

detectClaude      == Environment(Both, {"binary", "home"})
detectCodex       == Environment(Both, {"binary", "home"})
detectCursor      == Environment(Both, {"binary", "home"})
detectZCode       == Environment(Both, {"binary", "home"})
detectMiniMaxCode == Environment(Both, {"binary", "home", "legacy"})
detectTrae        == Environment(Both, {"binary", "home"})
detectQoder       == Environment(Both, {"binary", "home"})
detectQoderWork   == Environment(Global, {"binary", "home"})
detectCodeBuddy   == Environment(Both, {"binary", "home"})
detectWorkBuddy   == Environment(Both, {"binary", "home"})
detectKimi        == Environment(Global, {"binary", "home"})
detectOpenCode    == Environment(Both, {"binary", "home"})
detectOpenClaw    == Environment(Both, {"binary", "home"})
detectNanobot     == Environment(Both, {"binary", "home"})
detectPi          == Environment(Both, {"binary", "home"})
detectHermes      == Environment(Global, {"binary", "home"})
detectAlma        == Environment(Global, {"binary", "application"})
=============================================================================
