--------------------------- MODULE Provisioning ---------------------------
(***************************************************************************)
(* One node's durable setup (internal/daemon/provision*.go,                *)
(* exchange_identity*.go, exchange_config.go, peer_enrollment.go):         *)
(* `agency setup` provisions the node, `agency peer prepare` provisions it *)
(* and then persists the exchange configuration, `agency peer enroll` adds *)
(* a route while no daemon runs.  Every command works under the provision  *)
(* lock and can be killed between any two of its writes.  A file is 0 when *)
(* it is not there and Torn when it was created and not completely         *)
(* written; a pending file and its final that hold the same value are two  *)
(* links of one inode, which every strict read refuses.                    *)
(***************************************************************************)
EXTENDS Integers, FiniteSets

CONSTANTS
    Owners,        \* commands that can run at once
    Addresses,     \* exchange addresses, positive numbers
    MaxKeys        \* bound: identity keys generated

ASSUME ProvisioningAssumption ==
    /\ Addresses \subseteq Nat \ {0} /\ MaxKeys \in Nat
    /\ {"free", "daemon"} \cap Owners = {}

Torn == -1

VARIABLES
    keyPending, keyFinal,      \* .peer-identity.pending, peer-identity.json
    confPending, confFinal,    \* .exchange.pending, exchange.json
    ensureLock, cas,           \* .ensure.lock and the object tree are there
    db,                        \* agency.db: "absent", "files" (no schema yet), "ready"
    principal,                 \* the authority's Principal, by its key; 0 for none
    route,                     \* a peer route is enrolled
    keys,                      \* identity keys generated so far
    provLock,                  \* holder of .provision.lock
    writer,                    \* holder of the authority's writer lock
    cmd,                       \* what each command is doing
    cards                      \* history: <<key, address>> handed out as peer cards

pvars == <<keyPending, keyFinal, confPending, confFinal, ensureLock, cas, db, principal,
           route, keys, provLock, writer, cmd, cards>>

Free == "free"
AtRest == [at |-> "rest", does |-> "none", addr |-> 0, had |-> FALSE]

PInit ==
    /\ keyPending = 0 /\ keyFinal = 0 /\ confPending = 0 /\ confFinal = 0
    /\ ensureLock = FALSE /\ cas = FALSE /\ db = "absent" /\ principal = 0
    /\ route = FALSE /\ keys = 0 /\ provLock = Free /\ writer = Free
    /\ cmd = [o \in Owners |-> AtRest] /\ cards = {}

identity == <<keyPending, keyFinal, keys>>
config == <<confPending, confFinal>>
layout == <<ensureLock, cas>>
authority == <<db, principal, route>>

ToStep(o, at) == cmd' = [cmd EXCEPT ![o].at = at]

Holds(o, at) == provLock = o /\ cmd[o].at = at

\* sameIdentityLink
Linked(pending, fin) == pending # 0 /\ pending = fin

-----------------------------------------------------------------------------
(* Provision. *)

authorityStatePresent == db # "absent"

rejectAuthorityWithoutIdentity == ~(keyFinal = 0 /\ authorityStatePresent)

\* The lock, then the checks; an authority that is there is adopted with the
\* ensure lock and the object tree it was made with.
Provision(o, what, a) ==
    /\ cmd[o] = AtRest /\ provLock = Free /\ provLock' = o
    /\ rejectAuthorityWithoutIdentity
    /\ authorityStatePresent => ensureLock
    /\ ensureLock' = TRUE
    /\ cmd' = [cmd EXCEPT ![o] =
         [at |-> "identity", does |-> what, addr |-> a, had |-> authorityStatePresent]]
    /\ UNCHANGED <<identity, config, cas, authority, writer, cards>>

\* provisionTransportIdentityLocked: settle a link, replay, recover, create.
Identity(o) ==
    /\ Holds(o, "identity")
    /\ \/ /\ Linked(keyPending, keyFinal)
          /\ keyPending' = 0 /\ UNCHANGED <<keyFinal, keys, cmd>>
       \/ /\ keyFinal # 0 /\ keyPending = 0
          /\ ToStep(o, "cas") /\ UNCHANGED identity
       \/ /\ keyFinal = 0 /\ keyPending = Torn
          /\ keyPending' = 0 /\ UNCHANGED <<keyFinal, keys, cmd>>
       \/ /\ keyFinal = 0 /\ keyPending > 0
          /\ ToStep(o, "publish") /\ UNCHANGED identity
       \/ /\ keyFinal = 0 /\ keyPending = 0 /\ keys < MaxKeys
          /\ keyPending' = Torn /\ keys' = keys + 1
          /\ ToStep(o, "key") /\ UNCHANGED keyFinal
    /\ UNCHANGED <<config, layout, authority, provLock, writer, cards>>

\* createPrivateFile's bytes and sync.
WritesKey(o) ==
    /\ Holds(o, "key")
    /\ keyPending' = keys
    /\ ToStep(o, "publish")
    /\ UNCHANGED <<keyFinal, keys, config, layout, authority, provLock, writer, cards>>

\* publishTransportIdentity links; the pending name goes in a second step.
publishTransportIdentity(o) ==
    /\ Holds(o, "publish")
    /\ keyFinal' = keyPending
    /\ ToStep(o, "identity")
    /\ UNCHANGED <<keyPending, keys, config, layout, authority, provLock, writer, cards>>

openProvisionCAS(o) ==
    /\ Holds(o, "cas")
    /\ cmd[o].had => cas
    /\ cas' = TRUE
    /\ ToStep(o, "open")
    /\ UNCHANGED <<identity, config, ensureLock, authority, provLock, writer, cards>>

\* Mutant: the authority is opened before the object tree is made.
openAuthorityFirst(o) ==
    /\ provLock = o /\ cmd[o].at \in {"cas", "open"} /\ writer = Free
    /\ writer' = o /\ db' = IF db = "absent" THEN "files" ELSE db
    /\ cas' = (cas \/ cmd[o].at = "open")
    /\ ToStep(o, "schema")
    /\ UNCHANGED <<identity, config, ensureLock, principal, route, provLock, cards>>

\* The writer lock and the files come before the schema.
openAuthority(o) ==
    /\ Holds(o, "open") /\ writer = Free
    /\ writer' = o /\ db' = IF db = "absent" THEN "files" ELSE db
    /\ ToStep(o, "schema")
    /\ UNCHANGED <<identity, config, layout, principal, route, provLock, cards>>

CreatesSchema(o) ==
    /\ Holds(o, "schema")
    /\ db' = "ready"
    /\ ToStep(o, "principal")
    /\ UNCHANGED <<identity, config, layout, principal, route, provLock, writer, cards>>

\* ProvisionInitialPrincipal replays the same one and refuses another.
ProvisionInitialPrincipal(o) ==
    /\ Holds(o, "principal") /\ principal \in {0, keyFinal}
    /\ principal' = keyFinal
    /\ writer' = Free /\ provLock' = Free
    /\ cmd' = [cmd EXCEPT ![o] = IF cmd[o].does = "prepare"
                                 THEN [@ EXCEPT !.at = "prepared"] ELSE AtRest]
    /\ UNCHANGED <<identity, config, layout, db, route, cards>>

-----------------------------------------------------------------------------
(* ConfigureExchange and EnrollPeer. *)

\* requireProvisionedLayout and loadTransportIdentity.
Provisioned == ensureLock /\ cas /\ keyFinal # 0 /\ ~Linked(keyPending, keyFinal)

ConfigureExchange(o) ==
    /\ cmd[o].at = "prepared" /\ provLock = Free /\ provLock' = o
    /\ Provisioned
    /\ ToStep(o, "config")
    /\ UNCHANGED <<identity, config, layout, authority, writer, cards>>

\* Mutant: a committed configuration is not compared with the requested one.
recoverExchangeConfigAny(o) ==
    /\ Holds(o, "config") /\ confPending # Torn
    /\ \/ /\ Linked(confPending, confFinal)
          /\ confPending' = 0 /\ UNCHANGED <<confFinal, provLock, cmd, cards>>
       \/ /\ confFinal # 0 /\ confPending = 0
          /\ cards' = cards \cup {<<keyFinal, cmd[o].addr>>}
          /\ provLock' = Free /\ cmd' = [cmd EXCEPT ![o] = AtRest]
          /\ UNCHANGED config
       \/ /\ confFinal = 0 /\ confPending > 0
          /\ ToStep(o, "settle") /\ UNCHANGED <<config, provLock, cards>>
       \/ /\ confFinal = 0 /\ confPending = 0
          /\ confPending' = Torn
          /\ ToStep(o, "address") /\ UNCHANGED <<confFinal, provLock, cards>>
    /\ UNCHANGED <<identity, layout, authority, writer>>

\* recoverExchangeConfigLocked, then the requested one is compared or made.
\* A pending document that does not parse ends the command.
recoverExchangeConfigLocked(o) ==
    /\ Holds(o, "config") /\ confPending # Torn
    /\ \/ /\ Linked(confPending, confFinal)
          /\ confPending' = 0 /\ UNCHANGED <<confFinal, provLock, cmd, cards>>
       \/ /\ confFinal # 0 /\ confPending = 0
          /\ confFinal = cmd[o].addr
          /\ cards' = cards \cup {<<keyFinal, confFinal>>}
          /\ provLock' = Free /\ cmd' = [cmd EXCEPT ![o] = AtRest]
          /\ UNCHANGED config
       \/ /\ confFinal = 0 /\ confPending > 0
          /\ ToStep(o, "settle") /\ UNCHANGED <<config, provLock, cards>>
       \/ /\ confFinal = 0 /\ confPending = 0
          /\ confPending' = Torn
          /\ ToStep(o, "address") /\ UNCHANGED <<confFinal, provLock, cards>>
    /\ UNCHANGED <<identity, layout, authority, writer>>

WritesAddress(o) ==
    /\ Holds(o, "address")
    /\ confPending' = cmd[o].addr
    /\ ToStep(o, "settle")
    /\ UNCHANGED <<identity, confFinal, layout, authority, provLock, writer, cards>>

publishPendingExchangeConfig(o) ==
    /\ Holds(o, "settle")
    /\ confFinal' = confPending
    /\ ToStep(o, "config")
    /\ UNCHANGED <<identity, confPending, layout, authority, provLock, writer, cards>>

\* readExchangeConfigLocked: nothing pending, and a final that is one link.
readExchangeConfigLocked == confPending = 0

\* enrollPeerLocked: offline, and only once the configuration is committed.
EnrollPeer(o) ==
    /\ cmd[o] = AtRest /\ provLock = Free /\ writer = Free
    /\ Provisioned /\ readExchangeConfigLocked /\ confFinal # 0
    /\ db = "ready" /\ principal = keyFinal
    /\ route' = TRUE
    /\ UNCHANGED <<identity, config, layout, db, principal, keys, provLock, writer, cmd, cards>>

-----------------------------------------------------------------------------
(* A daemon, and the faults. *)

OpenProvisioned ==
    /\ provLock = Free /\ writer = Free
    /\ Provisioned /\ readExchangeConfigLocked
    /\ db = "ready" /\ principal = keyFinal
    /\ writer' = "daemon"
    /\ UNCHANGED <<identity, config, layout, authority, provLock, cmd, cards>>

DaemonEnds ==
    /\ writer = "daemon" /\ writer' = Free
    /\ UNCHANGED <<identity, config, layout, authority, provLock, cmd, cards>>

\* A command is killed, or returns an error: its locks are released, what it
\* had written stays.
Killed(o) ==
    /\ cmd[o] # AtRest
    /\ cmd' = [cmd EXCEPT ![o] = AtRest]
    /\ provLock' = IF provLock = o THEN Free ELSE provLock
    /\ writer' = IF writer = o THEN Free ELSE writer
    /\ UNCHANGED <<identity, config, layout, authority, cards>>

PNext ==
    \/ \E o \in Owners :
         \/ Provision(o, "setup", 0)
         \/ \E a \in Addresses : Provision(o, "prepare", a)
         \/ Identity(o) \/ WritesKey(o) \/ publishTransportIdentity(o)
         \/ openProvisionCAS(o) \/ openAuthority(o) \/ CreatesSchema(o)
         \/ ProvisionInitialPrincipal(o)
         \/ ConfigureExchange(o) \/ recoverExchangeConfigLocked(o) \/ WritesAddress(o)
         \/ publishPendingExchangeConfig(o) \/ EnrollPeer(o) \/ Killed(o)
    \/ OpenProvisioned \/ DaemonEnds

-----------------------------------------------------------------------------
(* Properties. *)

\* An interrupted setup converges forward: wherever a command was killed, the
\* next Provision is not refused for what the first one left behind (an
\* authority without its identity, its lock or its object tree, or with
\* another Principal), and a daemon never opens a node that is half made.
ConvergesForward ==
    /\ provLock = Free =>
         /\ authorityStatePresent => keyFinal # 0 /\ ensureLock /\ cas
         /\ principal \in {0, keyFinal}
    /\ writer = "daemon" => Provisioned /\ principal = keyFinal

\* The node a peer was told of is the node for good: every card handed out
\* names the one identity and the one address that are still on the disk,
\* whichever of several prepares was killed or came second, and a route is
\* only enrolled beside them.
CardsHold ==
    /\ \A c \in cards : c = <<keyFinal, confFinal>>
    /\ route => confFinal # 0 /\ keyFinal # 0
=============================================================================
