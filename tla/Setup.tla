------------------------------- MODULE Setup -------------------------------
(***************************************************************************)
(* `mnemon setup` and `mnemon setup --eject` on one agent host: the        *)
(* commands execute the host's plan step by step over its configuration    *)
(* directory, any step may fail, and the process may be stopped in the     *)
(* middle of a step.  Between commands the user edits the configuration    *)
(* and the host runs.  The commands of a behaviour work on one of the      *)
(* host's directories, the project's or the user's.                        *)
(*                                                                         *)
(* An artifact is absent, cut short by a write that did not finish, or     *)
(* whole.  A configuration file is what the user keeps in it, how often    *)
(* each hook of mnemon's is registered, and the key registering adds;      *)
(* `bad` says that its syntax cannot be read.  A file without any of these *)
(* is absent.  The user keeps unrelated keys, an entry of their own among  *)
(* the hooks, an entry that mentions mnemon, and, for ZCode, hooks that    *)
(* are switched off.                                                       *)
(***************************************************************************)
EXTENDS SetupTargets, Integers

CONSTANTS Targets,      \* the hosts to set up
          MaxCommands,  \* bound on commands
          MaxFaults     \* bound on failures and interruptions

VARIABLES host,     \* the one set up
          named,    \* the data directory's name ends in "mnemon" (OpenCode)
          scope,    \* of the directory the commands work on
          disk,     \* [files, config, tmp, note, shared]
          command,  \* the command being executed
          last,     \* the last command, when none of its steps failed
          budget    \* commands and faults so far

setupVars == <<host, named, scope, disk, command, last, budget>>

Hooks == Scripts \cup {"guide", "entry"}
Shared == {"prompts", "pi-prompts", "store"}
Zero == [h \in Hooks |-> 0]
Nothing == [cmd |-> "none", sel |-> {}, found |-> FALSE]
NoCommand ==
    [cmd |-> "idle", sel |-> {}, found |-> FALSE, i |-> 0, failed |-> FALSE]

-----------------------------------------------------------------------------
(* The switches over the hosts. *)

HostOf(t) ==
    CASE t = "claude-code" -> Claude     [] t = "codex" -> Codex
      [] t = "cursor" -> Cursor          [] t = "zcode" -> ZCode
      [] t = "minimax-code" -> MiniMax   [] t = "trae" -> Trae
      [] t = "qoder" -> Qoder            [] t = "qoderwork" -> QoderWork
      [] t = "codebuddy" -> CodeBuddy    [] t = "workbuddy" -> WorkBuddy
      [] t = "kimi" -> Kimi              [] t = "opencode" -> OpenCode
      [] t = "openclaw" -> OpenClaw      [] t = "nanobot" -> Nanobot
      [] t = "pi" -> Pi                  [] t = "hermes" -> Hermes
      [] t = "alma" -> Alma

Options(t) ==
    CASE t = "claude-code" -> selectOptionalHooks
      [] t = "cursor" -> selectCursorOptionalHooks
      [] t = "openclaw" -> selectOpenClawOptionalHooks
      [] t = "hermes" -> selectHermesOptionalHooks
      [] OTHER -> {}

Registration(t, sel) ==
    CASE t = "claude-code" -> addClaudeHooksSelective(sel)
      [] t = "codex" -> addCodexHooks
      [] t = "cursor" -> addCursorHooks(sel)
      [] t = "zcode" -> addZCodeHooks
      [] t = "trae" -> addTraeHooks
      [] t \in {"qoder", "qoderwork"} -> addQoderHooks
      [] t = "codebuddy" -> addCodeBuddyHooks
      [] t = "workbuddy" -> addWorkBuddyHooks
      [] t = "kimi" -> addKimiHooks
      [] t = "opencode" -> addOpenCodeInstruction
      [] t = "openclaw" -> OpenClawRegisterPlugin
      [] t = "hermes" -> addHermesHooks(sel)
      [] t = "alma" -> addAlmaHooks
      [] OTHER -> Registers({}, "none")

(* Every install ends by initialising the default store; Alma's begins so. *)
installEnv(t, s) ==
    CASE t = "claude-code" -> Append(installClaudeCode, initDefaultStore)
      [] t = "codex" -> Append(installCodex, initDefaultStore)
      [] t = "cursor" -> Append(installCursor, initDefaultStore)
      [] t = "zcode" -> Append(installZCode(s), initDefaultStore)
      [] t = "minimax-code" -> Append(installMiniMaxCode, initDefaultStore)
      [] t = "trae" -> Append(installTrae, initDefaultStore)
      [] t = "qoder" -> Append(installQoder, initDefaultStore)
      [] t = "qoderwork" -> Append(installQoderWork, initDefaultStore)
      [] t = "codebuddy" -> Append(installCodeBuddy, initDefaultStore)
      [] t = "workbuddy" -> Append(installWorkBuddy, initDefaultStore)
      [] t = "kimi" -> Append(installKimi, initDefaultStore)
      [] t = "opencode" -> Append(installOpenCode, initDefaultStore)
      [] t = "openclaw" -> Append(installOpenClaw, initDefaultStore)
      [] t = "nanobot" -> Append(installNanobot, initDefaultStore)
      [] t = "pi" -> Append(installPi, initDefaultStore)
      [] t = "hermes" -> Append(installHermes, initDefaultStore)
      [] t = "alma" -> <<initDefaultStore>> \o installAlma

(* Ejecting also offers to clean the project's notes of the block that      *)
(* earlier releases put there.                                              *)
ejectEnv(t) ==
    CASE t = "claude-code" -> Append(ClaudeEject, AskStrip)
      [] t = "codex" -> Append(CodexEject, AskStrip)
      [] t = "cursor" -> CursorEject
      [] t = "zcode" -> ZCodeEject
      [] t = "minimax-code" -> MiniMaxCodeEject
      [] t = "trae" -> Append(TraeEject, AskStrip)
      [] t \in {"qoder", "qoderwork"} -> Append(ejectQoder, AskStrip)
      [] t = "codebuddy" -> Append(CodeBuddyEject, AskStrip)
      [] t = "workbuddy" -> Append(WorkBuddyEject, AskStrip)
      [] t = "kimi" -> Append(KimiEject, AskStrip)
      [] t = "opencode" -> Append(OpenCodeEject, AskStrip)
      [] t = "openclaw" -> Append(OpenClawEject, AskStrip)
      [] t = "nanobot" -> Append(NanobotEject, AskStrip)
      [] t = "pi" -> Append(PiEject, AskStrip)
      [] t = "hermes" -> Append(HermesEject, AskStrip)
      [] t = "alma" -> AlmaEject

EnvironmentOf(t) ==
    CASE t = "claude-code" -> detectClaude      [] t = "codex" -> detectCodex
      [] t = "cursor" -> detectCursor           [] t = "zcode" -> detectZCode
      [] t = "minimax-code" -> detectMiniMaxCode
      [] t = "trae" -> detectTrae               [] t = "qoder" -> detectQoder
      [] t = "qoderwork" -> detectQoderWork
      [] t = "codebuddy" -> detectCodeBuddy
      [] t = "workbuddy" -> detectWorkBuddy     [] t = "kimi" -> detectKimi
      [] t = "opencode" -> detectOpenCode       [] t = "openclaw" -> detectOpenClaw
      [] t = "nanobot" -> detectNanobot         [] t = "pi" -> detectPi
      [] t = "hermes" -> detectHermes           [] t = "alma" -> detectAlma

PlanOf(cmd, t, sel) ==
    IF cmd = "eject"
    THEN ejectEnv(t)
    ELSE SelectSeq(installEnv(t, scope),
                   LAMBDA step : step.items \cap Options(t) \subseteq sel)

-----------------------------------------------------------------------------
(* Reading and writing a configuration.  filterHookArray and its relatives  *)
(* drop every entry in which some string mentions mnemon.  Every hook of    *)
(* mnemon's does, for it lies in a directory named after mnemon, save       *)
(* OpenCode's guide, which lies in the data directory; and so may an entry  *)
(* of the user's.  OpenCode and OpenClaw look for mnemon's own entry only.  *)

containsMnemon(h) == h # "guide" \/ named

filterHookArray(c) ==
    [c EXCEPT
      !.ours = [h \in Hooks |-> IF containsMnemon(h) THEN 0 ELSE @[h]],
      !.user = IF host \in {"opencode", "openclaw"} THEN @ ELSE @ \ {"mention"}]

(* ZCode's hooks are switched on, whatever the user had chosen. *)
Registered(c, sel) ==
    LET r == Registration(host, sel)
        left == filterHookArray(c)
    IN  [left EXCEPT
          !.ours = [h \in Hooks |-> @[h] + IF h \in r.hooks THEN 1 ELSE 0],
          !.user = IF r.key = "enabled" THEN @ \ {"off"} ELSE @,
          !.key = @ \/ r.key # "none"]

(* The added key goes with the last entry: "version" and "$schema" when     *)
(* they are all that is left of the file, "enabled" when it is all that is  *)
(* left of the hooks.                                                       *)
KeyGoes(c) ==
    LET kind == Registration(host, {}).key
        left == filterHookArray(c)
        dropped == left.ours # c.ours \/ left.user # c.user
    IN  \/ kind = "schema" /\ left.user = {} /\ left.ours = Zero
        \/ kind = "version" /\ left.user = {} /\ dropped
        \/ kind = "enabled" /\ "entry" \notin left.user /\ dropped

Unregistered(c) == [filterHookArray(c) EXCEPT !.key = @ /\ ~KeyGoes(c)]

Absent(c) == ~c.bad /\ c.user = {} /\ c.ours = Zero /\ ~c.key

Unreadable(c) == c.bad /\ HostOf(host).parses

(* What a write in place that was cut short leaves of a configuration. *)
CutShort(c) ==
    IF HostOf(host).parses
    THEN {[bad |-> TRUE, user |-> {}, ours |-> Zero, key |-> FALSE]}
    ELSE {[bad |-> FALSE, user |-> u, ours |-> Zero, key |-> FALSE] :
            u \in SUBSET c.user}

-----------------------------------------------------------------------------
(* The notes: a marker-delimited block beside the user's own text.  A block *)
(* without its end marker is left alone, and is an error to Alma's.         *)

EjectMemoryBlock(n) ==
    CASE n = "block" -> "none" [] n = "both" -> "text" [] OTHER -> n

Seeded(n) ==
    CASE n = "none" -> "block" [] n = "text" -> "both" [] OTHER -> n

-----------------------------------------------------------------------------
(* The steps. *)

WithFiles(d, as, v) ==
    [d EXCEPT !.files = [a \in DOMAIN @ |-> IF a \in as THEN v ELSE @[a]],
              !.shared = [a \in DOMAIN @ |-> IF a \in as THEN v ELSE @[a]]]

(* Can the step succeed at all, given what it reads? *)
Readable(step) ==
    /\ step.op \in {"register", "unregister"} => ~Unreadable(disk.config)
    /\ step.op = "strip" => disk.note # "open"

InPlace == command.cmd \in HostOf(host).inPlace

Rewritten(step, sel) ==
    IF step.op = "register" THEN Registered(disk.config, sel)
                            ELSE Unregistered(disk.config)

(* A configuration that is not overwritten in place is written beside the   *)
(* old one and renamed over it, which takes an earlier copy along; one with *)
(* nothing left in it is removed.                                           *)
Saved(c) ==
    [disk EXCEPT !.config = c, !.tmp = @ /\ (InPlace \/ Absent(c))]

(* The store is initialised when it has no directory yet. *)
Effects(step, sel) ==
    CASE step.op = "write" -> {WithFiles(disk, step.items, "whole")}
      [] step.op = "init" ->
           {IF disk.shared["store"] = "absent"
            THEN WithFiles(disk, step.items, "whole") ELSE disk}
      [] step.op = "drop" -> {WithFiles(disk, step.items, "absent")}
      [] step.op = "then" ->
           {IF command.failed THEN disk ELSE WithFiles(disk, step.items, "absent")}
      [] step.op \in {"register", "unregister"} -> {Saved(Rewritten(step, sel))}
      [] step.op = "seed" -> {[disk EXCEPT !.note = Seeded(@)]}
      [] step.op = "strip" -> {[disk EXCEPT !.note = EjectMemoryBlock(@)]}
      [] OTHER (* ask *) -> {disk, [disk EXCEPT !.note = EjectMemoryBlock(@)]}

(* What a step that failed or was interrupted may leave behind: a file that *)
(* is overwritten in place has been truncated, a configuration that was not *)
(* yet renamed is left beside the old one.                                  *)
Partly(step, sel) ==
    {disk} \cup
    CASE step.op = "write" -> {WithFiles(disk, step.items, "torn")}
      [] step.op = "init" ->
           {WithFiles(disk, step.items, "torn") :
              x \in {"store"} \cap {a \in Shared : disk.shared[a] = "absent"}}
      [] step.op = "drop" -> {WithFiles(disk, as, "absent") : as \in SUBSET step.items}
      [] step.op \in {"register", "unregister"} /\ Readable(step)
         /\ ~Absent(Rewritten(step, sel)) ->
           IF InPlace
           THEN {[disk EXCEPT !.config = c] : c \in CutShort(disk.config)}
           ELSE {[disk EXCEPT !.tmp = TRUE]}
      [] step.op \in {"strip", "ask"} /\ disk.note = "both" ->
           {[disk EXCEPT !.note = "none"]}
      [] OTHER -> {}

-----------------------------------------------------------------------------
(* Init: nothing of mnemon's, and whatever the user has. *)

NewDisk(t, user, bad, note) ==
    [files  |-> [a \in HostOf(t).owns |-> "absent"],
     config |-> [bad |-> bad, user |-> user, ours |-> Zero, key |-> FALSE],
     tmp    |-> FALSE,
     note   |-> note,
     shared |-> [a \in Shared |-> "absent"]]

SetupInit ==
    /\ host \in Targets
    /\ named \in IF host = "opencode" THEN BOOLEAN ELSE {TRUE}
    /\ scope \in EnvironmentOf(host).scopes
    /\ \E user \in {{}, {"key"}}, bad \in BOOLEAN,
          note \in {"none", "open", IF host = "alma" THEN "text" ELSE "both"} :
          /\ bad => HostOf(host).parses /\ user # {}
          /\ disk = NewDisk(host, user, bad, note)
    /\ command = NoCommand
    /\ last = Nothing
    /\ budget = [commands |-> 0, faults |-> 0]

(* A host shows itself by its binary, an application or a directory of an   *)
(* older release, or by its global directory, which is there while anything *)
(* is in it.                                                                *)
Detected(shown) ==
    \/ shown # {}
    \/ /\ scope = "global" /\ "home" \in EnvironmentOf(host).shows
       /\ \/ ~Absent(disk.config) \/ disk.tmp
          \/ \E a \in HostOf(host).owns : disk.files[a] # "absent"

(* Without --target a command only takes the hosts it detects. *)
Begin(cmd, sel) ==
    /\ command = NoCommand
    /\ budget.commands < MaxCommands
    /\ \E flagged \in BOOLEAN,
          shown \in SUBSET (EnvironmentOf(host).shows \ {"home"}) :
          flagged \/ Detected(shown)
    /\ cmd = "eject" => sel = {}
    /\ command' = [cmd |-> cmd, sel |-> sel, found |-> disk.config.ours # Zero,
                   i |-> 1, failed |-> FALSE]
    /\ last' = Nothing
    /\ budget' = [budget EXCEPT !.commands = @ + 1]
    /\ UNCHANGED <<host, named, scope, disk>>

(* The next step, or the end of the command. *)
Advance(plan, failed) ==
    IF command.i < Len(plan)
    THEN /\ command' = [command EXCEPT !.i = @ + 1, !.failed = failed]
         /\ UNCHANGED last
    ELSE /\ command' = NoCommand
         /\ last' = IF failed THEN Nothing
                    ELSE [cmd |-> command.cmd, sel |-> command.sel,
                          found |-> command.found]

CurrentStep(plan) == plan[command.i]

Succeed ==
    /\ command # NoCommand
    /\ LET plan == PlanOf(command.cmd, host, command.sel)
       IN  /\ Readable(CurrentStep(plan))
           /\ disk' \in Effects(CurrentStep(plan), command.sel)
           /\ Advance(plan, command.failed)
    /\ UNCHANGED <<host, named, scope, budget>>

(* A failed step ends an install that cannot do without it.  Notes that     *)
(* could not be cleaned or seeded are only warned of.                       *)
Fail ==
    /\ command # NoCommand
    /\ LET plan == PlanOf(command.cmd, host, command.sel)
           step == CurrentStep(plan)
       IN  /\ \/ ~Readable(step) /\ disk' = disk /\ UNCHANGED budget
              \/ /\ budget.faults < MaxFaults
                 /\ disk' \in Partly(step, command.sel)
                 /\ budget' = [budget EXCEPT !.faults = @ + 1]
           /\ IF step.must
              THEN command' = NoCommand /\ UNCHANGED last
              ELSE Advance(plan, command.failed \/ step.op \notin {"seed", "ask"})
    /\ UNCHANGED <<host, named, scope>>

(* The process is stopped before, in or after the step. *)
Interrupt ==
    /\ command # NoCommand
    /\ budget.faults < MaxFaults
    /\ LET step == CurrentStep(PlanOf(command.cmd, host, command.sel))
       IN  \/ disk' \in Partly(step, command.sel)
           \/ Readable(step) /\ disk' \in Effects(step, command.sel)
    /\ command' = NoCommand
    /\ budget' = [budget EXCEPT !.faults = @ + 1]
    /\ UNCHANGED <<host, named, scope, last>>

(* The user edits or repairs the configuration. *)
Edit ==
    /\ command = NoCommand
    /\ budget.commands < MaxCommands
    /\ \E user \in {{}, {"key", "entry"},
                    {"mention"} \cup IF host = "zcode" THEN {"off"} ELSE {}} :
          disk' = [disk EXCEPT
                    !.config = [@ EXCEPT !.user = user, !.bad = FALSE,
                                         !.key = @ /\ "off" \notin user]]
    /\ last' = Nothing
    /\ UNCHANGED <<host, named, scope, command, budget>>

(* Hermes runs its hooks, which keep their state beside the configuration. *)
HooksRun ==
    /\ command = NoCommand
    /\ host = "hermes" /\ disk.config.ours # Zero
    /\ disk.files["state"] # "whole"
    /\ disk' = WithFiles(disk, {"state"}, "whole")
    /\ last' = IF last.cmd = "eject" THEN Nothing ELSE last
    /\ UNCHANGED <<host, named, scope, command, budget>>

SetupNext ==
    \/ \E cmd \in {"install", "eject"}, sel \in SUBSET Options(host) :
          Begin(cmd, sel)
    \/ Succeed \/ Fail \/ Interrupt
    \/ Edit \/ HooksRun

SetupSpec == SetupInit /\ [][SetupNext]_setupVars

-----------------------------------------------------------------------------
(* What setup and --eject promise, whatever happened before. *)

(* A command every step of which succeeded leaves exactly its result,       *)
(* whatever selections, failures, interruptions, installs, ejects and edits *)
(* came before it.  An install: the artifacts of its plan are on disk, the  *)
(* configuration registers exactly the hooks that were selected, each once, *)
(* each with its script, and the default store has its directory, though a  *)
(* store that an earlier command left half made is not made whole           *)
(* (installEnv, add*Hooks: "idempotently sets mnemon hooks").  An eject: no *)
(* artifact and no registration is left; a key that registering added goes  *)
(* with the last entry unless it stands beside something else; a copy that  *)
(* an earlier write of the configuration left beside it is gone, unless the *)
(* eject removes the file or overwrites it in place (the *Eject functions,  *)
(* WriteOrRemoveJSONFile).  The exception is OpenCode's guide in a data     *)
(* directory that isOpenCodeMnemonInstruction does not know: every install  *)
(* registers it once more and no eject removes it.                          *)
Installed(sel) ==
    LET plan == PlanOf("install", host, sel)
        wants == IF \E i \in DOMAIN plan : plan[i].op = "register"
                 THEN Registration(host, sel).hooks ELSE {}
        There(a) ==
            IF a = "store" THEN disk.shared[a] # "absent"
            ELSE "whole" = IF a \in Shared THEN disk.shared[a] ELSE disk.files[a]
    IN  /\ \A i \in DOMAIN plan : \A a \in plan[i].items : There(a)
        /\ \A h \in Hooks :
              IF containsMnemon(h)
              THEN disk.config.ours[h] = IF h \in wants THEN 1 ELSE 0
              ELSE h \in wants => disk.config.ours[h] > 0
        /\ \A h \in Scripts \cap wants : disk.files[h] = "whole"

Ejected(found) ==
    /\ \A a \in HostOf(host).owns : disk.files[a] = "absent"
    /\ \A h \in Hooks : containsMnemon(h) => disk.config.ours[h] = 0
    /\ found /\ disk.config.key =>
          disk.config.user # {} \/ disk.config.ours # Zero
    /\ disk.tmp => Absent(disk.config) \/ "eject" \in HostOf(host).inPlace
    /\ host = "alma" => disk.note \in {"none", "text"}

DoneIsDone ==
    /\ last.cmd = "install" => Installed(last.sel)
    /\ last.cmd = "eject" => Ejected(last.found)
=============================================================================
