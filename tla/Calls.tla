-------------------------------- MODULE Calls --------------------------------
(***************************************************************************)
(* The metered model calls of one provider (internal/memoryagent:          *)
(* resilience.go, provider.go, budget.go), from a call's first attempt to  *)
(* the settlement of the last request it abandoned, with the provider's    *)
(* close, a crash of the process and the next start's SettleHolds.         *)
(*                                                                         *)
(* A caller's goroutine runs the attempts of its call one at a time.  An   *)
(* admitted attempt starts a flight, a goroutine of its own that owns the  *)
(* bulkhead permit and the budget reservation until its request ends; an   *)
(* Interactive or Flush attempt may stop waiting and leave its flight      *)
(* behind.  The close waits for the provider's wait group, and cuts what   *)
(* still runs at its deadline.                                             *)
(*                                                                         *)
(* Abstracted: a request's body, its price and its credential are one      *)
(* reservation of R and one input estimate of E; waits between attempts    *)
(* have no length, and the retry budget allows or denies freely; the       *)
(* breaker is failsafe-go's, external.                                     *)
(***************************************************************************)
EXTENDS Integers, FiniteSets, FiniteSetsExt

CONSTANTS
    Callers,        \* goroutines that call the model
    ClassOf,        \* their call class
    Flights,        \* names of concurrent flights; also names their rows
    Permits,        \* bulkhead permits of a class
    Worlds,         \* instances to explore: [callers, maxAttempts, throttledRetries,
                    \* impatient (callers that may give up), faults (of the budget file),
                    \* caps (the ones an operator sets)]
    Trip,           \* consecutive failures that open the breaker
    R, E,           \* reservation and input estimate of one request
    Kind            \* "openai" calls may cost more than they reserve

Classes == {"interactive", "flush", "background"}
None == "none"

\* A request settles at its estimate at most at what it reserved (inputEstimate,
\* SettleHolds); an operator's caps have a highest one.
ASSUME CallsAssumption ==
    /\ IsFiniteSet(Callers) /\ IsFiniteSet(Flights)
    /\ ClassOf \in [Callers -> Classes]
    /\ R \in Nat /\ E \in Nat /\ E <= R
    /\ \A w \in Worlds : /\ w.callers \subseteq Callers
                         /\ w.caps \subseteq Nat
                         /\ \E m \in w.caps : \A cap \in w.caps : cap <= m

VARIABLES
    world,          \* the instance, chosen once
    call,           \* modelCall of each caller
    flight,         \* the flights' goroutines
    row,            \* attempts table: "free" once resolved, else "held"
    account,        \* the budget file's spent and held
    caps,           \* the cap the process enforces now (Budget.caps)
    breaker,        \* the provider's circuit breaker
    used,           \* bulkhead permits taken, by class
    wg,             \* Provider.flights, the wait group
    close,          \* Provider.closed, cutting and the close's progress
    stuck           \* history: rows whose settlement the budget file failed

vars == <<world, call, flight, row, account, caps, breaker, used, wg, close, stuck>>
budget == <<row, account, caps, stuck>>

Idle == [pc |-> "idle", n |-> 0, throttled |-> 0, revalid |-> FALSE,
         gaveUp |-> FALSE, fl |-> None, cap |-> 0]

NoFlight == [pc |-> "none", class |-> None, cut |-> None, res |-> None]

Init ==
    /\ world \in Worlds
    /\ call = [c \in Callers |-> Idle]
    /\ flight = [f \in Flights |-> NoFlight]
    /\ row = [f \in Flights |-> "free"]
    /\ account = [spent |-> 0, held |-> 0]
    /\ caps = Max(world.caps)
    /\ breaker = [st |-> "closed", fails |-> 0]
    /\ used = [k \in Classes |-> 0]
    /\ wg = 0
    /\ close = [st |-> "open", cutting |-> FALSE, cut |-> FALSE, held |-> 0]
    /\ stuck = {}

(***************************************************************************)
(* How an attempt ended (flightResult): "throttled" a 429 that names no    *)
(* wait, "waits" another refusal a retry may pass, "down" a failure of the *)
(* provider's availability (no connection, a timeout, a 5xx), "invalid" a  *)
(* reply that does not parse or validate, "failed" anything else.          *)
(***************************************************************************)
Retryable(res) == res \in {"throttled", "waits", "down"}
Failed(res) == res = "down"

(***************************************************************************)
(* failsafe-go's circuit breaker as resilience.go uses it (external): open *)
(* refuses until its delay is over, half-open lets some calls probe.       *)
(***************************************************************************)
Recorded(b, failed) ==
    CASE b.st = "open" -> {b}
      [] b.st = "half" -> IF failed THEN {[st |-> "open", fails |-> 0]}
                          ELSE {b, [st |-> "closed", fails |-> 0]}
      [] OTHER -> IF ~failed THEN {[b EXCEPT !.fails = 0]}
                  ELSE IF b.fails + 1 = Trip THEN {[st |-> "open", fails |-> 0]}
                  ELSE {[b EXCEPT !.fails = @ + 1]}

BreakerDelayOver ==
    /\ breaker.st = "open"
    /\ breaker' = [breaker EXCEPT !.st = "half"]
    /\ UNCHANGED <<call, flight, budget, used, wg, close>>

(***************************************************************************)
(* The budget file.  Each of its transactions may fail, leaving the file   *)
(* as it was; a resolution that fails leaves its row held for good.        *)
(***************************************************************************)
Share(class, cap) == IF class = "background" THEN 9 * cap ELSE 10 * cap

\* Mutant: what is held does not count against the cap.
AdmitsIgnoringHeld(cap, class) == 10 * (account.spent + R) <= Share(class, cap)

Admits(cap, class) == 10 * (account.spent + account.held + R) <= Share(class, cap)

Reserve(f) ==
    /\ row[f] = "free"
    /\ row' = [row EXCEPT ![f] = "held"]
    /\ account' = [account EXCEPT !.held = @ + R]
    /\ UNCHANGED <<caps, stuck>>

Resolve(f, cost) ==
    /\ row[f] = "held"
    /\ row' = [row EXCEPT ![f] = "free"]
    /\ account' = [spent |-> account.spent + cost, held |-> account.held - R]
    /\ UNCHANGED <<caps, stuck>>

StaysHeld(f) ==
    /\ world.faults
    /\ stuck' = stuck \cup {f}
    /\ UNCHANGED <<row, account, caps>>

AcceptsMetering(cost) == cost <= R \/ Kind = "openai"

(***************************************************************************)
(* A call: send's retry policy around attempt.                             *)
(***************************************************************************)
Send(c) ==
    /\ close.st # "down"
    /\ call[c].pc = "idle"
    /\ call' = [call EXCEPT ![c].pc = "attempt"]
    /\ UNCHANGED <<flight, budget, breaker, used, wg, close>>

\* A class's patient retries of a 429 that names no wait.
Patience(c) == IF ClassOf[c] = "background" THEN 0 ELSE world.throttledRetries

\* Whether stop ends a call after an attempt a retry may pass.
Stop(k, patience, res) ==
    IF res = "throttled" /\ patience > 0
    THEN k.throttled >= patience
    ELSE k.n - k.throttled >= world.maxAttempts

\* attempt's tail, stop and result, for a call k that made its attempt: it waits for
\* another one or ends, as it may at any retry for a deadline.
After(k, patience, res) ==
    {Idle} \cup
    IF (Retryable(res) \/ (res = "invalid" /\ ~k.revalid)) /\ ~Stop(k, patience, res)
    THEN {[k EXCEPT !.pc = "attempt", !.fl = None, !.cap = 0,
                    !.revalid = @ \/ res = "invalid",
                    !.throttled = IF res = "throttled" /\ patience > 0 THEN @ + 1 ELSE @]}
    ELSE {}

Ended(c, res) == \E k \in After(call[c], Patience(c), res) : call' = [call EXCEPT ![c] = k]

\* attempt, try and admit up to begin: a retry the budget denies ends the call, ...
AttemptEnds(c) ==
    /\ call[c].pc = "attempt"
    /\ call[c].n > 0 \/ call[c].gaveUp \/ breaker.st = "open" \/ close.st # "open"
    /\ call' = [call EXCEPT ![c] = Idle]
    /\ UNCHANGED <<flight, budget, breaker, used, wg, close>>

\* ... else it joins the provider's flights unless the provider is closed.
Begin(c) ==
    /\ call[c].pc = "attempt"
    /\ ~call[c].gaveUp
    /\ breaker.st # "open"
    /\ close.st = "open"
    /\ wg' = wg + 1
    /\ call' = [call EXCEPT ![c].pc = "acquire", ![c].n = @ + 1]
    /\ UNCHANGED <<flight, budget, breaker, used, close>>

Acquire(c) ==
    /\ call[c].pc = "acquire"
    /\ used[ClassOf[c]] < Permits[ClassOf[c]]
    /\ used' = [used EXCEPT ![ClassOf[c]] = @ + 1]
    /\ call' = [call EXCEPT ![c].pc = "reserve", ![c].cap = caps]
    /\ UNCHANGED <<flight, budget, breaker, wg, close>>

\* A full bulkhead past the attempt timeout, the caller's end or the close's cut.
AcquireFails(c) ==
    /\ call[c].pc = "acquire"
    /\ used[ClassOf[c]] >= Permits[ClassOf[c]] \/ call[c].gaveUp \/ close.cutting
    /\ wg' = wg - 1
    /\ Ended(c, "failed")
    /\ UNCHANGED <<flight, budget, breaker, used, close>>

\* reserveWithin read the cap before its transaction: call[c].cap may be stale.
ReserveWithin(c, f) ==
    /\ call[c].pc = "reserve"
    /\ flight[f].pc = "none"
    /\ Admits(call[c].cap, ClassOf[c])
    /\ Reserve(f)
    /\ call' = [call EXCEPT ![c].pc = "permit", ![c].fl = f, ![c].cap = 0]
    /\ UNCHANGED <<flight, breaker, used, wg, close>>

\* A refused or failed reservation aborts: abort returns the permit, then the count.
ReserveFails(c) ==
    /\ call[c].pc = "reserve"
    /\ used' = [used EXCEPT ![ClassOf[c]] = @ - 1]
    /\ wg' = wg - 1
    /\ Ended(c, "failed")
    /\ UNCHANGED <<flight, budget, breaker, close>>

\* The breaker opened meanwhile: abort releases the reservation too.
PermitRefused(c) ==
    /\ call[c].pc = "permit"
    /\ breaker.st # "closed"
    /\ Resolve(call[c].fl, 0) \/ StaysHeld(call[c].fl)
    /\ used' = [used EXCEPT ![ClassOf[c]] = @ - 1]
    /\ wg' = wg - 1
    /\ Ended(c, "failed")
    /\ UNCHANGED <<flight, breaker, close>>

\* admit ends and run starts; track cuts at once when the close is cutting.
Fly(c) ==
    /\ call[c].pc = "permit"
    /\ breaker.st # "open"
    /\ flight' = [flight EXCEPT ![call[c].fl] =
          [NoFlight EXCEPT !.pc = "flying", !.class = ClassOf[c],
                           !.cut = IF close.cutting THEN "cutByClose"
                                   ELSE IF call[c].gaveUp THEN "cutByCaller" ELSE None]]
    /\ call' = [call EXCEPT ![c].pc = "wait"]
    /\ UNCHANGED <<budget, breaker, used, wg, close>>

(***************************************************************************)
(* A flight: exchange, then run's tail.                                    *)
(***************************************************************************)
Answers(f, res) ==
    flight' = [flight EXCEPT ![f] = [NoFlight EXCEPT !.pc = "resolved", !.class = flight[f].class,
                                                     !.res = res]]

\* A request that never got a connection (broken, not sent) and one the endpoint
\* answered outside 2xx (refused) cost nothing: their reservation is released.
CostsNothing(f) ==
    /\ flight[f].pc = "flying"
    /\ \/ Answers(f, IF flight[f].cut = None THEN "down" ELSE flight[f].cut)
       \/ \E res \in {"throttled", "waits", "down", "failed"} : Answers(f, res)
    /\ Resolve(f, 0) \/ StaysHeld(f)
    /\ UNCHANGED <<call, breaker, used, wg, close>>

\* broken, sent; a 2xx that is no 200; an oversized reply; a panic: settleEstimate.
SettlesEstimate(f) ==
    /\ flight[f].pc = "flying"
    /\ \/ Answers(f, IF flight[f].cut = None THEN "down" ELSE flight[f].cut)
       \/ \E res \in {"failed", "invalid"} : Answers(f, res)
    /\ Resolve(f, E) \/ StaysHeld(f)
    /\ UNCHANGED <<call, breaker, used, wg, close>>

\* meter: a 200 reply settles at its metering, else at the input estimate.
Meter(f, cost) ==
    /\ flight[f].pc = "flying"
    /\ \/ /\ AcceptsMetering(cost)
          /\ \/ \E res \in {"ok", "invalid"} : Answers(f, res) /\ Resolve(f, cost)
             \/ Answers(f, "failed") /\ StaysHeld(f)
       \/ /\ ~AcceptsMetering(cost)
          /\ Answers(f, "invalid")
          /\ Resolve(f, E) \/ StaysHeld(f)
    /\ UNCHANGED <<call, breaker, used, wg, close>>

Waited(f) == \E c \in Callers : call[c].pc = "wait" /\ call[c].fl = f

\* Mutant: a flight ends without handing over its result.
FinishSilently(f) ==
    /\ flight[f].pc = "resolved"
    /\ used' = [used EXCEPT ![flight[f].class] = @ - 1]
    /\ wg' = wg - 1
    /\ flight' = [flight EXCEPT ![f] = NoFlight]
    /\ UNCHANGED <<call, budget, breaker, close>>

\* run's tail: what the close cut is counted, the permit returned, the result handed over.
Finish(f) ==
    /\ flight[f].pc = "resolved"
    /\ close' = IF flight[f].res # "cutByClose" THEN close
                ELSE [close EXCEPT !.cut = TRUE, !.held = @ + IF f \in stuck THEN 1 ELSE 0]
    /\ used' = [used EXCEPT ![flight[f].class] = @ - 1]
    /\ wg' = wg - 1
    /\ flight' = [flight EXCEPT ![f] =
          IF Waited(f) THEN [@ EXCEPT !.pc = "done"] ELSE NoFlight]
    /\ UNCHANGED <<call, budget, breaker>>

(***************************************************************************)
(* The attempt waits for its flight.                                       *)
(***************************************************************************)
Receive(c) ==
    LET f == call[c].fl IN
    /\ call[c].pc = "wait"
    /\ flight[f].pc = "done"
    /\ breaker' \in Recorded(breaker, Failed(flight[f].res))
    /\ Ended(c, flight[f].res)
    /\ flight' = [flight EXCEPT ![f] = NoFlight]
    /\ UNCHANGED <<budget, used, wg, close>>

Abandon(c) ==
    /\ call[c].pc = "wait"
    /\ ClassOf[c] # "background"
    /\ ~call[c].gaveUp
    /\ flight[call[c].fl].pc # "done"
    /\ breaker' \in Recorded(breaker, TRUE)
    /\ Ended(c, "down")
    /\ UNCHANGED <<flight, budget, used, wg, close>>

\* The caller's context ends; a waiting attempt cuts its flight.
GiveUp(c) ==
    /\ c \in world.impatient
    /\ call[c].pc # "idle"
    /\ ~call[c].gaveUp
    /\ call' = [call EXCEPT ![c].gaveUp = TRUE]
    /\ flight' = IF call[c].pc = "wait" /\ flight[call[c].fl].cut = None
                 THEN [flight EXCEPT ![call[c].fl].cut = "cutByCaller"] ELSE flight
    /\ UNCHANGED <<budget, breaker, used, wg, close>>

(***************************************************************************)
(* CloseWithin: refuse, drain until the deadline, cutAll, drain, then the  *)
(* budget file closes.                                                     *)
(***************************************************************************)
Refuse ==
    /\ close.st = "open"
    /\ close' = [close EXCEPT !.st = "draining"]
    /\ UNCHANGED <<call, flight, budget, breaker, used, wg>>

CutAll ==
    /\ close.st = "draining"
    /\ ~close.cutting
    /\ wg > 0
    /\ close' = [close EXCEPT !.cutting = TRUE]
    /\ flight' = [f \in Flights |-> IF flight[f].pc = "flying" /\ flight[f].cut = None
                                    THEN [flight[f] EXCEPT !.cut = "cutByClose"] ELSE flight[f]]
    /\ UNCHANGED <<call, budget, breaker, used, wg>>

\* Mutant: the close waits for its deadline to cut something.
DrainedOnceCut ==
    /\ close.st = "draining"
    /\ close.cutting
    /\ wg = 0
    /\ close' = [close EXCEPT !.st = "closed"]
    /\ UNCHANGED <<call, flight, budget, breaker, used, wg>>

Drained ==
    /\ close.st = "draining"
    /\ wg = 0
    /\ close' = [close EXCEPT !.st = "closed"]
    /\ UNCHANGED <<call, flight, budget, breaker, used, wg>>

(***************************************************************************)
(* The process ends, crashed or closed, and a next one starts: it settles  *)
(* what its budget file still holds.                                       *)
(***************************************************************************)
Crash ==
    /\ close.st # "down"
    /\ close' = [st |-> "down", cutting |-> FALSE, cut |-> FALSE, held |-> 0]
    /\ call' = [c \in Callers |-> Idle]
    /\ flight' = [f \in Flights |-> NoFlight]
    /\ used' = [k \in Classes |-> 0]
    /\ wg' = 0
    /\ breaker' = [st |-> "closed", fails |-> 0]
    /\ UNCHANGED budget

SettleHolds ==
    LET holds == {f \in Flights : row[f] = "held"} IN
    /\ row' = [f \in Flights |-> "free"]
    /\ account' = [spent |-> account.spent + E * Cardinality(holds), held |-> 0]

Restart ==
    /\ close.st = "down"
    /\ SettleHolds
    /\ stuck' = {}
    /\ close' = [close EXCEPT !.st = "open"]
    /\ UNCHANGED <<call, flight, caps, breaker, used, wg>>

\* An operator's new cap reaches the budget (module Settings has the settings file).
SetCaps(cap) ==
    /\ close.st # "down"
    /\ cap # caps
    /\ caps' = cap
    /\ UNCHANGED <<call, flight, row, account, breaker, used, wg, close, stuck>>

CallStep(c) ==
    \/ AttemptEnds(c) \/ Begin(c) \/ Acquire(c) \/ AcquireFails(c)
    \/ (\E f \in Flights : ReserveWithin(c, f)) \/ ReserveFails(c)
    \/ PermitRefused(c) \/ Fly(c) \/ Receive(c)

FlightStep(f) ==
    \/ CostsNothing(f) \/ SettlesEstimate(f)
    \/ (\E cost \in 1..(R + 1) : Meter(f, cost)) \/ Finish(f)

Step ==
    \/ \E c \in world.callers : Send(c) \/ CallStep(c) \/ Abandon(c) \/ GiveUp(c)
    \/ \E f \in Flights : FlightStep(f)
    \/ BreakerDelayOver
    \/ Refuse \/ CutAll \/ Drained
    \/ Crash \/ Restart
    \/ \E cap \in world.caps : SetCaps(cap)

Next == Step /\ UNCHANGED world

\* Goroutines run; a request ends by its hard timeout; the close's context ends.
Fairness ==
    /\ \A c \in Callers : WF_vars(CallStep(c) /\ UNCHANGED world)
    /\ \A f \in Flights : WF_vars(FlightStep(f) /\ UNCHANGED world)
    /\ WF_vars((CutAll \/ Drained \/ Restart) /\ UNCHANGED world)

Spec == Init /\ [][Next]_vars /\ Fairness
=============================================================================
