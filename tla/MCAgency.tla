------------------------------ MODULE MCAgency ------------------------------
(***************************************************************************)
(* The parts around an Agent, for TLC, each on an instance of its own: the *)
(* claims on its Handlings, the Agent terminal's journal, one object of    *)
(* the Artifact store, the Pi projection, the node's provisioning, and the *)
(* integrations of `mnemon setup`.  They share no state; a behaviour is    *)
(* one of one part, so the state spaces add up.                            *)
(***************************************************************************)
EXTENDS MCClaims, Journal, ObjectStore, PiInstall, Provisioning, Setup

VARIABLE part

\* One Intent names a candidate, the other none.
MCArtifacts == [i \in Intents |-> IF i = "plain" THEN {} ELSE {"h1"}]

\* The journal, then two of the three projected files.
MCPlan == <<"ownership.json", "mnemond.ts", "SKILL.md">>

MCTargets == {"claude-code", "codex", "cursor", "zcode", "minimax-code",
              "trae", "qoder", "qoderwork", "codebuddy", "workbuddy", "kimi",
              "opencode", "openclaw", "nanobot", "pi", "hermes", "alma"}

\* The integrations of an untouched machine.
Untouched ==
    /\ host = "codex" /\ named = TRUE /\ scope = "global"
    /\ disk = NewDisk("codex", {}, FALSE, "none")

AgencyInit ==
    /\ part \in {"claims", "journal", "object", "install", "provision", "integrate"}
    /\ Init /\ JInit /\ OInit /\ IInit /\ PInit /\ SetupInit
    /\ part = "integrate" \/ Untouched

AgencyNext ==
    /\ \/ part = "claims" /\ Next /\ UNCHANGED <<jvars, ovars, ivars, pvars, setupVars>>
       \/ part = "journal" /\ JNext /\ UNCHANGED <<vars, ovars, ivars, pvars, setupVars>>
       \/ part = "object" /\ ONext /\ UNCHANGED <<vars, jvars, ivars, pvars, setupVars>>
       \/ part = "install" /\ INext /\ UNCHANGED <<vars, jvars, ovars, pvars, setupVars>>
       \/ part = "provision" /\ PNext /\ UNCHANGED <<vars, jvars, ovars, ivars, setupVars>>
       \/ part = "integrate" /\ SetupNext /\ UNCHANGED <<vars, jvars, ovars, ivars, pvars>>
    /\ UNCHANGED part

AgencySpec ==
    AgencyInit /\ [][AgencyNext]_<<vars, jvars, ovars, ivars, pvars, setupVars, part>>

Symmetries == Permutations(Procs) \cup Permutations(Boundaries)
=============================================================================
