----------------------------- MODULE CallsProofs -----------------------------
(***************************************************************************)
(* The books of the metered model calls balance, for every set of callers, *)
(* flights, prices and caps.  Counts are cardinalities of sets of callers  *)
(* and of flights; a step changes one caller's or one flight's membership, *)
(* so every count moves by what that one gained less what it had.          *)
(***************************************************************************)
EXTENDS CallsProperties, FiniteSetTheorems, TLAPS

One(b) == IF b THEN 1 ELSE 0

CountedPcs == {"acquire", "reserve", "permit"}
HoldingPcs == {"reserve", "permit"}
RunningPcs == {"flying", "resolved"}

\* The counts, of a table of calls, of flights or of rows.
CountedIn(cl) == Cardinality({c \in Callers : cl[c].pc \in CountedPcs})
HoldingIn(cl, k) == Cardinality({c \in Callers : cl[c].pc \in HoldingPcs /\ ClassOf[c] = k})
RunningIn(fl) == Cardinality({f \in Flights : fl[f].pc \in RunningPcs})
RunningOf(fl, k) == Cardinality({f \in Flights : fl[f].pc \in RunningPcs /\ fl[f].class = k})
HeldIn(rw) == Cardinality({f \in Flights : rw[f] = "held"})

\* A set that differs from a finite one at x alone.
LEMMA Swap ==
    ASSUME NEW S, IsFiniteSet(S), NEW T, NEW x, \A y : y # x => (y \in T <=> y \in S)
    PROVE  /\ IsFiniteSet(T)
           /\ Cardinality(S) \in Nat
           /\ Cardinality(T) = Cardinality(S) + One(x \in T) - One(x \in S)
<1>0. Cardinality(S) \in Nat  BY FS_CardinalityType, Zenon
<1>1. CASE x \in T
  <2>1. T = S \cup {x}  BY <1>1, Zenon
  <2>2. IsFiniteSet(T) /\ Cardinality(T) = IF x \in S THEN Cardinality(S) ELSE Cardinality(S) + 1
    BY <2>1, FS_AddElement, Zenon
  <2> QED  BY <1>0, <1>1, <2>2 DEF One
<1>2. CASE x \notin T
  <2>1. T = S \ {x}  BY <1>2, Zenon
  <2>2. IsFiniteSet(T) /\ Cardinality(T) = IF x \in S THEN Cardinality(S) - 1 ELSE Cardinality(S)
    BY <2>1, FS_RemoveElement, Zenon
  <2> QED  BY <1>0, <1>2, <2>2 DEF One
<1> QED  BY <1>1, <1>2, Zenon

LEMMA Balance ==
    ASSUME NEW a \in Int, NEW b \in Int, NEW x \in Int, NEW y \in Int, NEW u, NEW v, NEW w,
           u = a + b, v = u + x - y, w = a + x - y
    PROVE  v = w + b
OBVIOUS

\* Callers and flights are finite: their counts are numbers.
LEMMA Countable ==
    ASSUME NEW U, IsFiniteSet(U), NEW S, S \subseteq U
    PROVE  Cardinality(S) \in Nat
BY FS_Subset, FS_CardinalityType, Zenon

LEMMA CountTypes ==
    ASSUME NEW cl, NEW fl, NEW rw
    PROVE  /\ CountedIn(cl) \in Nat
           /\ RunningIn(fl) \in Nat
           /\ HeldIn(rw) \in Nat
           /\ \A k : HoldingIn(cl, k) \in Nat /\ RunningOf(fl, k) \in Nat
<1>1. CountedIn(cl) \in Nat
  <2>1. {c \in Callers : cl[c].pc \in CountedPcs} \subseteq Callers  BY Zenon
  <2> QED  BY <2>1, CallsAssumption, Countable, Zenon DEF CountedIn
<1>2. RunningIn(fl) \in Nat
  <2>1. {f \in Flights : fl[f].pc \in RunningPcs} \subseteq Flights  BY Zenon
  <2> QED  BY <2>1, CallsAssumption, Countable, Zenon DEF RunningIn
<1>3. HeldIn(rw) \in Nat
  <2>1. {f \in Flights : rw[f] = "held"} \subseteq Flights  BY Zenon
  <2> QED  BY <2>1, CallsAssumption, Countable, Zenon DEF HeldIn
<1>4. ASSUME NEW k  PROVE HoldingIn(cl, k) \in Nat /\ RunningOf(fl, k) \in Nat
  <2>1. {c \in Callers : cl[c].pc \in HoldingPcs /\ ClassOf[c] = k} \subseteq Callers  BY Zenon
  <2>2. {f \in Flights : fl[f].pc \in RunningPcs /\ fl[f].class = k} \subseteq Flights  BY Zenon
  <2>3. HoldingIn(cl, k) \in Nat  BY <2>1, CallsAssumption, Countable, Zenon DEF HoldingIn
  <2>4. RunningOf(fl, k) \in Nat  BY <2>2, CallsAssumption, Countable, Zenon DEF RunningOf
  <2> QED  BY <2>3, <2>4, Zenon
<1> QED  BY <1>1, <1>2, <1>3, <1>4, Zenon

\* One caller's record changes.
LEMMA CallerCounts ==
    ASSUME NEW cl, cl = [d \in Callers |-> cl[d]], NEW c \in Callers, NEW r,
           NEW new, new = [cl EXCEPT ![c] = r]
    PROVE  /\ CountedIn(cl) \in Nat
           /\ CountedIn(new) = CountedIn(cl) + One(r.pc \in CountedPcs) - One(cl[c].pc \in CountedPcs)
           /\ \A k : /\ HoldingIn(cl, k) \in Nat
                     /\ ClassOf[c] # k => HoldingIn(new, k) = HoldingIn(cl, k)
                     /\ ClassOf[c] = k =>
                          HoldingIn(new, k) = HoldingIn(cl, k) + One(r.pc \in HoldingPcs)
                                                - One(cl[c].pc \in HoldingPcs)
<1>0. /\ \A d \in Callers : d # c => new[d] = cl[d]
      /\ new[c] = r
  BY Zenon
<1>1. /\ CountedIn(cl) \in Nat
      /\ CountedIn(new) = CountedIn(cl) + One(r.pc \in CountedPcs) - One(cl[c].pc \in CountedPcs)
  <2> DEFINE S == {d \in Callers : cl[d].pc \in CountedPcs}
             T == {d \in Callers : new[d].pc \in CountedPcs}
  <2>1. \A y : y # c => (y \in T <=> y \in S)  BY <1>0, Zenon
  <2>2. IsFiniteSet(S)  BY CallsAssumption, FS_Subset, Zenon
  <2>3. (c \in S <=> cl[c].pc \in CountedPcs) /\ (c \in T <=> r.pc \in CountedPcs)  BY <1>0, Zenon
  <2>4. CountedIn(cl) = Cardinality(S) /\ CountedIn(new) = Cardinality(T)  BY Zenon DEF CountedIn
  <2> HIDE DEF S, T
  <2>5. /\ Cardinality(S) \in Nat
        /\ Cardinality(T) = Cardinality(S) + One(c \in T) - One(c \in S)
    BY <2>1, <2>2, Swap, Zenon
  <2> QED  BY <2>3, <2>4, <2>5, Zenon DEF One
<1>2. ASSUME NEW k
      PROVE  /\ HoldingIn(cl, k) \in Nat
             /\ ClassOf[c] # k => HoldingIn(new, k) = HoldingIn(cl, k)
             /\ ClassOf[c] = k =>
                  HoldingIn(new, k) = HoldingIn(cl, k) + One(r.pc \in HoldingPcs)
                                        - One(cl[c].pc \in HoldingPcs)
  <2> DEFINE S == {d \in Callers : cl[d].pc \in HoldingPcs /\ ClassOf[d] = k}
             T == {d \in Callers : new[d].pc \in HoldingPcs /\ ClassOf[d] = k}
  <2>1. \A y : y # c => (y \in T <=> y \in S)  BY <1>0, Zenon
  <2>2. IsFiniteSet(S)  BY CallsAssumption, FS_Subset, Zenon
  <2>3. /\ c \in S <=> (cl[c].pc \in HoldingPcs /\ ClassOf[c] = k)
        /\ c \in T <=> (r.pc \in HoldingPcs /\ ClassOf[c] = k)
    BY <1>0, Zenon
  <2>4. HoldingIn(cl, k) = Cardinality(S) /\ HoldingIn(new, k) = Cardinality(T)  BY Zenon DEF HoldingIn
  <2> HIDE DEF S, T
  <2>5. /\ Cardinality(S) \in Nat
        /\ Cardinality(T) = Cardinality(S) + One(c \in T) - One(c \in S)
    BY <2>1, <2>2, Swap, Zenon
  <2> QED  BY <2>3, <2>4, <2>5 DEF One
<1> QED  BY <1>1, <1>2, Zenon

LEMMA CallerKeepsCounts ==
    ASSUME NEW cl, cl = [d \in Callers |-> cl[d]], NEW c \in Callers, NEW r,
           NEW new, new = [cl EXCEPT ![c] = r],
           r.pc \in CountedPcs <=> cl[c].pc \in CountedPcs,
           r.pc \in HoldingPcs <=> cl[c].pc \in HoldingPcs
    PROVE  CountedIn(new) = CountedIn(cl) /\ \A k : HoldingIn(new, k) = HoldingIn(cl, k)
<1>1. /\ CountedIn(cl) \in Nat
      /\ CountedIn(new) = CountedIn(cl) + One(r.pc \in CountedPcs) - One(cl[c].pc \in CountedPcs)
      /\ \A k : /\ HoldingIn(cl, k) \in Nat
                /\ ClassOf[c] # k => HoldingIn(new, k) = HoldingIn(cl, k)
                /\ ClassOf[c] = k =>
                     HoldingIn(new, k) = HoldingIn(cl, k) + One(r.pc \in HoldingPcs)
                                           - One(cl[c].pc \in HoldingPcs)
  BY CallerCounts
<1>2. CountedIn(new) = CountedIn(cl)  BY <1>1 DEF One
<1>3. ASSUME NEW k  PROVE HoldingIn(new, k) = HoldingIn(cl, k)  BY <1>1 DEF One
<1> QED  BY <1>2, <1>3, Zenon

LEMMA CallerLeavesCounts ==
    ASSUME NEW cl, cl = [d \in Callers |-> cl[d]], NEW c \in Callers, NEW r,
           NEW new, new = [cl EXCEPT ![c] = r], cl[c].pc = "permit",
           r.pc \notin CountedPcs
    PROVE  /\ CountedIn(cl) \in Nat /\ CountedIn(new) = CountedIn(cl) - 1
           /\ \A k : /\ HoldingIn(cl, k) \in Nat
                     /\ HoldingIn(new, k) = IF ClassOf[c] = k THEN HoldingIn(cl, k) - 1
                                            ELSE HoldingIn(cl, k)
<1>1. /\ CountedIn(cl) \in Nat
      /\ CountedIn(new) = CountedIn(cl) + One(r.pc \in CountedPcs) - One(cl[c].pc \in CountedPcs)
      /\ \A k : /\ HoldingIn(cl, k) \in Nat
                /\ ClassOf[c] # k => HoldingIn(new, k) = HoldingIn(cl, k)
                /\ ClassOf[c] = k =>
                     HoldingIn(new, k) = HoldingIn(cl, k) + One(r.pc \in HoldingPcs)
                                           - One(cl[c].pc \in HoldingPcs)
  BY CallerCounts
<1>2. /\ r.pc \notin HoldingPcs /\ cl[c].pc \in HoldingPcs /\ cl[c].pc \in CountedPcs
  BY Zenon DEF HoldingPcs, CountedPcs
<1>3. CountedIn(new) = CountedIn(cl) - 1  BY <1>1, <1>2 DEF One
<1>4. ASSUME NEW k
      PROVE  HoldingIn(new, k) = IF ClassOf[c] = k THEN HoldingIn(cl, k) - 1 ELSE HoldingIn(cl, k)
  BY <1>1, <1>2 DEF One
<1> QED  BY <1>1, <1>3, <1>4, Zenon

\* One flight changes.
LEMMA FlightCounts ==
    ASSUME NEW fl, fl = [g \in Flights |-> fl[g]], NEW f \in Flights, NEW r,
           NEW new, new = [fl EXCEPT ![f] = r]
    PROVE  /\ RunningIn(fl) \in Nat
           /\ RunningIn(new) = RunningIn(fl) + One(r.pc \in RunningPcs) - One(fl[f].pc \in RunningPcs)
           /\ \A k : /\ RunningOf(fl, k) \in Nat
                     /\ RunningOf(new, k) = RunningOf(fl, k)
                          + One(r.pc \in RunningPcs /\ r.class = k)
                          - One(fl[f].pc \in RunningPcs /\ fl[f].class = k)
<1>0. /\ \A g \in Flights : g # f => new[g] = fl[g]
      /\ new[f] = r
  BY Zenon
<1>1. /\ RunningIn(fl) \in Nat
      /\ RunningIn(new) = RunningIn(fl) + One(r.pc \in RunningPcs) - One(fl[f].pc \in RunningPcs)
  <2> DEFINE S == {g \in Flights : fl[g].pc \in RunningPcs}
             T == {g \in Flights : new[g].pc \in RunningPcs}
  <2>1. \A y : y # f => (y \in T <=> y \in S)  BY <1>0, Zenon
  <2>2. IsFiniteSet(S)  BY CallsAssumption, FS_Subset, Zenon
  <2>3. (f \in S <=> fl[f].pc \in RunningPcs) /\ (f \in T <=> r.pc \in RunningPcs)  BY <1>0, Zenon
  <2>4. RunningIn(fl) = Cardinality(S) /\ RunningIn(new) = Cardinality(T)  BY Zenon DEF RunningIn
  <2> HIDE DEF S, T
  <2>5. /\ Cardinality(S) \in Nat
        /\ Cardinality(T) = Cardinality(S) + One(f \in T) - One(f \in S)
    BY <2>1, <2>2, Swap, Zenon
  <2> QED  BY <2>3, <2>4, <2>5, Zenon DEF One
<1>2. ASSUME NEW k
      PROVE  /\ RunningOf(fl, k) \in Nat
             /\ RunningOf(new, k) = RunningOf(fl, k)
                          + One(r.pc \in RunningPcs /\ r.class = k)
                          - One(fl[f].pc \in RunningPcs /\ fl[f].class = k)
  <2> DEFINE S == {g \in Flights : fl[g].pc \in RunningPcs /\ fl[g].class = k}
             T == {g \in Flights : new[g].pc \in RunningPcs /\ new[g].class = k}
  <2>1. \A y : y # f => (y \in T <=> y \in S)  BY <1>0, Zenon
  <2>2. IsFiniteSet(S)  BY CallsAssumption, FS_Subset, Zenon
  <2>3. /\ f \in S <=> (fl[f].pc \in RunningPcs /\ fl[f].class = k)
        /\ f \in T <=> (r.pc \in RunningPcs /\ r.class = k)
    BY <1>0, Zenon
  <2>4. RunningOf(fl, k) = Cardinality(S) /\ RunningOf(new, k) = Cardinality(T)  BY Zenon DEF RunningOf
  <2> HIDE DEF S, T
  <2>5. /\ Cardinality(S) \in Nat
        /\ Cardinality(T) = Cardinality(S) + One(f \in T) - One(f \in S)
    BY <2>1, <2>2, Swap, Zenon
  <2> QED  BY <2>3, <2>4, <2>5, Zenon DEF One
<1> QED  BY <1>1, <1>2, Zenon

LEMMA FlightJoins ==
    ASSUME NEW fl, fl = [g \in Flights |-> fl[g]], NEW f \in Flights, NEW r,
           NEW new, new = [fl EXCEPT ![f] = r],
           r.pc \in RunningPcs, fl[f].pc \notin RunningPcs
    PROVE  /\ RunningIn(fl) \in Nat /\ RunningIn(new) = RunningIn(fl) + 1
           /\ \A k : /\ RunningOf(fl, k) \in Nat
                     /\ RunningOf(new, k) = IF r.class = k THEN RunningOf(fl, k) + 1 ELSE RunningOf(fl, k)
<1>1. /\ RunningIn(fl) \in Nat
      /\ RunningIn(new) = RunningIn(fl) + One(r.pc \in RunningPcs) - One(fl[f].pc \in RunningPcs)
      /\ \A k : /\ RunningOf(fl, k) \in Nat
                /\ RunningOf(new, k) = RunningOf(fl, k)
                     + One(r.pc \in RunningPcs /\ r.class = k)
                     - One(fl[f].pc \in RunningPcs /\ fl[f].class = k)
  BY FlightCounts
<1>2. RunningIn(new) = RunningIn(fl) + 1  BY <1>1 DEF One
<1>3. ASSUME NEW k
      PROVE  RunningOf(new, k) = IF r.class = k THEN RunningOf(fl, k) + 1 ELSE RunningOf(fl, k)
  BY <1>1 DEF One
<1> QED  BY <1>1, <1>2, <1>3, Zenon

LEMMA FlightLeaves ==
    ASSUME NEW fl, fl = [g \in Flights |-> fl[g]], NEW f \in Flights, NEW r,
           NEW new, new = [fl EXCEPT ![f] = r],
           r.pc \notin RunningPcs, fl[f].pc \in RunningPcs
    PROVE  /\ RunningIn(fl) \in Nat /\ RunningIn(new) = RunningIn(fl) - 1
           /\ \A k : /\ RunningOf(fl, k) \in Nat
                     /\ RunningOf(new, k) = IF fl[f].class = k THEN RunningOf(fl, k) - 1 ELSE RunningOf(fl, k)
<1>1. /\ RunningIn(fl) \in Nat
      /\ RunningIn(new) = RunningIn(fl) + One(r.pc \in RunningPcs) - One(fl[f].pc \in RunningPcs)
      /\ \A k : /\ RunningOf(fl, k) \in Nat
                /\ RunningOf(new, k) = RunningOf(fl, k)
                     + One(r.pc \in RunningPcs /\ r.class = k)
                     - One(fl[f].pc \in RunningPcs /\ fl[f].class = k)
  BY FlightCounts
<1>2. RunningIn(new) = RunningIn(fl) - 1  BY <1>1 DEF One
<1>3. ASSUME NEW k
      PROVE  RunningOf(new, k) = IF fl[f].class = k THEN RunningOf(fl, k) - 1 ELSE RunningOf(fl, k)
  BY <1>1 DEF One
<1> QED  BY <1>1, <1>2, <1>3, Zenon

LEMMA FlightKeepsCounts ==
    ASSUME NEW fl, fl = [g \in Flights |-> fl[g]], NEW f \in Flights, NEW r,
           NEW new, new = [fl EXCEPT ![f] = r],
           r.pc \in RunningPcs <=> fl[f].pc \in RunningPcs, r.pc \in RunningPcs => r.class = fl[f].class
    PROVE  /\ RunningIn(fl) \in Nat /\ RunningIn(new) = RunningIn(fl)
           /\ \A k : /\ RunningOf(fl, k) \in Nat
                     /\ RunningOf(new, k) = RunningOf(fl, k)
<1>1. /\ RunningIn(fl) \in Nat
      /\ RunningIn(new) = RunningIn(fl) + One(r.pc \in RunningPcs) - One(fl[f].pc \in RunningPcs)
      /\ \A k : /\ RunningOf(fl, k) \in Nat
                /\ RunningOf(new, k) = RunningOf(fl, k)
                     + One(r.pc \in RunningPcs /\ r.class = k)
                     - One(fl[f].pc \in RunningPcs /\ fl[f].class = k)
  BY FlightCounts
<1>2. RunningIn(new) = RunningIn(fl)  BY <1>1 DEF One
<1>3. ASSUME NEW k
      PROVE  RunningOf(new, k) = RunningOf(fl, k)
  BY <1>1 DEF One
<1> QED  BY <1>1, <1>2, <1>3, Zenon

\* One row changes.
LEMMA RowCounts ==
    ASSUME NEW rw, rw = [g \in Flights |-> rw[g]], NEW f \in Flights, NEW r,
           NEW new, new = [rw EXCEPT ![f] = r]
    PROVE  /\ HeldIn(rw) \in Nat
           /\ HeldIn(new) = HeldIn(rw) + One(r = "held") - One(rw[f] = "held")
<1>0. /\ \A g \in Flights : g # f => new[g] = rw[g]
      /\ new[f] = r
  BY Zenon
<1> DEFINE S == {g \in Flights : rw[g] = "held"}
           T == {g \in Flights : new[g] = "held"}
<1>1. \A y : y # f => (y \in T <=> y \in S)  BY <1>0, Zenon
<1>2. IsFiniteSet(S)  BY CallsAssumption, FS_Subset, Zenon
<1>3. (f \in S <=> rw[f] = "held") /\ (f \in T <=> r = "held")  BY <1>0, Zenon
<1>4. HeldIn(rw) = Cardinality(S) /\ HeldIn(new) = Cardinality(T)  BY Zenon DEF HeldIn
<1> HIDE DEF S, T
<1>5. /\ Cardinality(S) \in Nat
      /\ Cardinality(T) = Cardinality(S) + One(f \in T) - One(f \in S)
  BY <1>1, <1>2, Swap, Zenon
<1> QED  BY <1>3, <1>4, <1>5, Zenon DEF One

-----------------------------------------------------------------------------
\* The inductive invariant.  A call's record has its fields; an attempt about to fly, or
\* waiting, names a flight; the cap an attempt read is one an operator set.
CallShape(r) == r = [pc |-> r.pc, n |-> r.n, throttled |-> r.throttled, revalid |-> r.revalid,
                     gaveUp |-> r.gaveUp, fl |-> r.fl, cap |-> r.cap]

CallSound(r, m) ==
    /\ CallShape(r)
    /\ r.pc \in {"permit", "wait"} => r.fl \in Flights
    /\ r.pc = "reserve" => r.cap \in Nat /\ r.cap <= m

FlightShape(x) == x = [pc |-> x.pc, class |-> x.class, cut |-> x.cut, res |-> x.res]

FlightSound(x) == FlightShape(x) /\ (x.pc \in RunningPcs => x.class \in Classes)

CloseShape(x) == x = [st |-> x.st, cutting |-> x.cutting, cut |-> x.cut, held |-> x.held]

CTypes ==
    /\ world \in Worlds
    /\ call = [c \in Callers |-> call[c]]
    /\ flight = [f \in Flights |-> flight[f]]
    /\ row = [f \in Flights |-> row[f]]
    /\ used = [k \in Classes |-> used[k]]
    /\ account = [spent |-> account.spent, held |-> account.held]
    /\ account.spent \in Nat
    /\ caps \in world.caps
    /\ CloseShape(close)
    /\ \A c \in Callers : CallSound(call[c], Max(world.caps))
    /\ \A f \in Flights : FlightSound(flight[f])

\* Who a held reservation belongs to, and that it belongs to one.
Owners ==
    /\ \A c \in Callers : call[c].pc = "permit" =>
          /\ row[call[c].fl] = "held"
          /\ call[c].fl \notin stuck
          /\ flight[call[c].fl].pc = "none"
    /\ \A c, d \in Callers :
          call[c].pc = "permit" /\ call[d].pc = "permit" /\ call[c].fl = call[d].fl => c = d
    /\ \A f \in Flights : flight[f].pc = "flying" => row[f] = "held" /\ f \notin stuck
    /\ \A f \in Flights : f \in stuck => row[f] = "held"
    /\ close.st # "down" =>
         \A f \in Flights : row[f] = "held" =>
            \/ f \in stuck
            \/ flight[f].pc = "flying"
            \/ \E c \in Callers : call[c].pc = "permit" /\ call[c].fl = f
    /\ close.st = "down" => /\ \A c \in Callers : call[c].pc = "idle"
                            /\ \A f \in Flights : flight[f].pc = "none"

\* The budget file, the bulkhead's permits and the wait group.
Money ==
    /\ account.held = R * HeldIn(row)
    /\ Kind # "openai" => account.spent + account.held <= Max(world.caps)

Counts ==
    /\ \A k \in Classes : used[k] = HoldingIn(call, k) + RunningOf(flight, k)
    /\ wg = CountedIn(call) + RunningIn(flight)

CInv == CTypes /\ Owners /\ Money /\ Counts

-----------------------------------------------------------------------------
\* What the updates of a record leave in it.
LEMMA AfterFacts ==
    ASSUME NEW r, CallShape(r), NEW patience, NEW res, NEW k \in After(r, patience, res)
    PROVE  CallShape(k) /\ k.pc \in {"idle", "attempt"}
<1>1. CASE k = Idle  BY <1>1, Zenon DEF CallShape, Idle
<1>2. CASE k # Idle
  <2>1. k = [r EXCEPT !.pc = "attempt", !.fl = None, !.cap = 0,
                      !.revalid = @ \/ res = "invalid",
                      !.throttled = IF res = "throttled" /\ patience > 0 THEN @ + 1 ELSE @]
    BY <1>2, Zenon DEF After
  <2> QED  BY <2>1, Zenon DEF CallShape
<1> QED  BY <1>1, <1>2, Zenon

Sent(r) == [r EXCEPT !.pc = "attempt"]
Begun(r) == [r EXCEPT !.pc = "acquire", !.n = @ + 1]
Acquired(r, cap) == [r EXCEPT !.pc = "reserve", !.cap = cap]
Reserved(r, f) == [r EXCEPT !.pc = "permit", !.fl = f, !.cap = 0]
Flown(r) == [r EXCEPT !.pc = "wait"]
GivenUp(r) == [r EXCEPT !.gaveUp = TRUE]

LEMMA CallUpdates ==
    ASSUME NEW r, CallShape(r)
    PROVE  /\ CallShape(Sent(r)) /\ Sent(r).pc = "attempt"
           /\ CallShape(Begun(r)) /\ Begun(r).pc = "acquire"
           /\ \A cap : CallShape(Acquired(r, cap)) /\ Acquired(r, cap).pc = "reserve" /\ Acquired(r, cap).cap = cap
           /\ \A f : CallShape(Reserved(r, f)) /\ Reserved(r, f).pc = "permit" /\ Reserved(r, f).fl = f
           /\ CallShape(Flown(r)) /\ Flown(r).pc = "wait" /\ Flown(r).fl = r.fl
           /\ CallShape(GivenUp(r)) /\ GivenUp(r).pc = r.pc /\ GivenUp(r).fl = r.fl /\ GivenUp(r).cap = r.cap
<1>1. ASSUME NEW k, k = Sent(r)
      PROVE  CallShape(k) /\ k.pc = "attempt"
  BY <1>1, Zenon DEF CallShape, Sent
<1>2. ASSUME NEW k, k = Begun(r)
      PROVE  CallShape(k) /\ k.pc = "acquire"
  BY <1>2, Zenon DEF CallShape, Begun
<1>3. ASSUME NEW k, NEW cap, k = Acquired(r, cap)
      PROVE  CallShape(k) /\ k.pc = "reserve" /\ k.cap = cap
  BY <1>3, Zenon DEF CallShape, Acquired
<1>4. ASSUME NEW k, NEW f, k = Reserved(r, f)
      PROVE  CallShape(k) /\ k.pc = "permit" /\ k.fl = f
  BY <1>4, Zenon DEF CallShape, Reserved
<1>5. ASSUME NEW k, k = Flown(r)
      PROVE  CallShape(k) /\ k.pc = "wait" /\ k.fl = r.fl
  BY <1>5, Zenon DEF CallShape, Flown
<1>6. ASSUME NEW k, k = GivenUp(r)
      PROVE  CallShape(k) /\ k.pc = r.pc /\ k.fl = r.fl /\ k.cap = r.cap
  BY <1>6, Zenon DEF CallShape, GivenUp
<1> QED  BY <1>1, <1>2, <1>3, <1>4, <1>5, <1>6, Zenon

Launched(class, cut) == [NoFlight EXCEPT !.pc = "flying", !.class = class, !.cut = cut]
Answered(class, res) == [NoFlight EXCEPT !.pc = "resolved", !.class = class, !.res = res]
Handed(x) == [x EXCEPT !.pc = "done"]
CutBy(x, who) == [x EXCEPT !.cut = who]

LEMMA FlightUpdates ==
    /\ \A class, cut : /\ FlightShape(Launched(class, cut))
                       /\ Launched(class, cut).pc = "flying" /\ Launched(class, cut).class = class
    /\ \A class, res : /\ FlightShape(Answered(class, res))
                       /\ Answered(class, res).pc = "resolved" /\ Answered(class, res).class = class
    /\ \A x : FlightShape(x) => FlightShape(Handed(x)) /\ Handed(x).pc = "done"
    /\ \A x, who : FlightShape(x) => /\ FlightShape(CutBy(x, who))
                                     /\ CutBy(x, who).pc = x.pc /\ CutBy(x, who).class = x.class
<1>1. ASSUME NEW class, NEW cut, NEW y, y = Launched(class, cut)
      PROVE  FlightShape(y) /\ y.pc = "flying" /\ y.class = class
  BY <1>1, Zenon DEF FlightShape, Launched, NoFlight
<1>2. ASSUME NEW class, NEW res, NEW y, y = Answered(class, res)
      PROVE  FlightShape(y) /\ y.pc = "resolved" /\ y.class = class
  BY <1>2, Zenon DEF FlightShape, Answered, NoFlight
<1>3. ASSUME NEW x, FlightShape(x), NEW y, y = Handed(x)
      PROVE  FlightShape(y) /\ y.pc = "done"
  BY <1>3, Zenon DEF FlightShape, Handed
<1>4. ASSUME NEW x, FlightShape(x), NEW who, NEW y, y = CutBy(x, who)
      PROVE  FlightShape(y) /\ y.pc = x.pc /\ y.class = x.class
  BY <1>4, Zenon DEF FlightShape, CutBy
<1> QED  BY <1>1, <1>2, <1>3, <1>4

\* A call that ended an attempt: no permit, no reservation, no flight.
LEMMA EndedFacts ==
    ASSUME CTypes, NEW c \in Callers, NEW res, Ended(c, res)
    PROVE  \E r : /\ call' = [call EXCEPT ![c] = r]
                  /\ \A m : CallSound(r, m)
                  /\ r.pc \in {"idle", "attempt"}
<1>1. CallShape(call[c])  BY Zenon DEF CTypes, CallSound
<1>2. PICK r \in After(call[c], Patience(c), res) : call' = [call EXCEPT ![c] = r]  BY Zenon DEF Ended
<1>3. CallShape(r) /\ r.pc \in {"idle", "attempt"}  BY <1>1, <1>2, AfterFacts, Zenon
<1>4. \A m : CallSound(r, m)  BY <1>3, Zenon DEF CallSound
<1> QED  BY <1>2, <1>3, <1>4, Zenon

\* The table of calls after a step of one caller.
LEMMA CallerTypes ==
    ASSUME CTypes, NEW c \in Callers, NEW r, call' = [call EXCEPT ![c] = r],
           CallSound(r, Max(world.caps)), world' = world
    PROVE  /\ call' = [d \in Callers |-> call'[d]]
           /\ call'[c] = r
           /\ \A d \in Callers : d # c => call'[d] = call[d]
           /\ \A d \in Callers : CallSound(call'[d], Max(world'.caps))
<1>1. /\ call' = [d \in Callers |-> call'[d]]
      /\ call'[c] = r
      /\ \A d \in Callers : d # c => call'[d] = call[d]
  BY Zenon DEF CTypes
<1>2. \A d \in Callers : CallSound(call'[d], Max(world.caps))  BY <1>1, Zenon DEF CTypes
<1> QED  BY <1>1, <1>2, Zenon

\* The permits of a class, and the wait group, move by what one actor holds now (x) less
\* what it held (y).
UsedMoves(class, x, y) ==
    /\ used' = [k \in Classes |-> used'[k]]
    /\ \A k \in Classes : used'[k] = IF class = k THEN used[k] + One(x) - One(y) ELSE used[k]

CountMoves(x, y) == wg' = wg + One(x) - One(y)

LEMMA CountsAreInt ==
    ASSUME CInv
    PROVE  wg \in Int /\ \A k \in Classes : used[k] \in Int
BY CountTypes DEF CInv, Counts

LEMMA UsedStays ==
    ASSUME CInv, NEW class \in Classes, NEW x \in BOOLEAN, used' = used
    PROVE  UsedMoves(class, x, x)
BY CountsAreInt DEF UsedMoves, One, CInv, CTypes

LEMMA UsedRises ==
    ASSUME CInv, NEW class \in Classes, used' = [used EXCEPT ![class] = @ + 1]
    PROVE  UsedMoves(class, TRUE, FALSE)
BY CountsAreInt DEF UsedMoves, One, CInv, CTypes

LEMMA UsedFalls ==
    ASSUME CInv, NEW class \in Classes, used' = [used EXCEPT ![class] = @ - 1]
    PROVE  UsedMoves(class, FALSE, TRUE)
BY CountsAreInt DEF UsedMoves, One, CInv, CTypes

LEMMA CountStays ==
    ASSUME CInv, NEW x \in BOOLEAN, wg' = wg
    PROVE  CountMoves(x, x)
BY CountsAreInt DEF CountMoves, One

\* A step of one caller away from its reservation, that touches no flight and no row.
LEMMA CallerInv ==
    ASSUME CInv, NEW c \in Callers, NEW r, call' = [call EXCEPT ![c] = r],
           CallSound(r, Max(world.caps)), r.pc # "permit", call[c].pc # "permit",
           close.st # "down",
           UNCHANGED <<world, flight, row, account, caps, close, stuck>>,
           UsedMoves(ClassOf[c], r.pc \in HoldingPcs, call[c].pc \in HoldingPcs),
           CountMoves(r.pc \in CountedPcs, call[c].pc \in CountedPcs)
    PROVE  CInv'
<1>0. CTypes /\ Owners /\ Money /\ Counts  BY Zenon DEF CInv
<1>1. /\ call' = [d \in Callers |-> call'[d]]
      /\ call'[c] = r
      /\ \A d \in Callers : d # c => call'[d] = call[d]
      /\ \A d \in Callers : CallSound(call'[d], Max(world'.caps))
  BY <1>0, CallerTypes, Zenon
<1>2. CTypes'
  <2>1. used' = [k \in Classes |-> used'[k]]  BY Zenon DEF UsedMoves
  <2> QED  BY <1>0, <1>1, <2>1, Zenon DEF CTypes
<1>3. Owners'  BY <1>0, <1>1 DEF Owners
<1>4. Money'  BY <1>0, Zenon DEF Money
<1>5. Counts'
  <2>1. call = [d \in Callers |-> call[d]]  BY <1>0, Zenon DEF CTypes
  <2>2. /\ CountedIn(call) \in Nat
        /\ CountedIn(call') = CountedIn(call) + One(r.pc \in CountedPcs)
                                - One(call[c].pc \in CountedPcs)
        /\ \A k : /\ HoldingIn(call, k) \in Nat
                  /\ ClassOf[c] # k => HoldingIn(call', k) = HoldingIn(call, k)
                  /\ ClassOf[c] = k =>
                       HoldingIn(call', k) = HoldingIn(call, k) + One(r.pc \in HoldingPcs)
                                               - One(call[c].pc \in HoldingPcs)
    BY <2>1, CallerCounts
  <2>3. RunningIn(flight) \in Nat /\ \A k : RunningOf(flight, k) \in Nat
    BY CountTypes, Zenon
  <2>4. wg' = CountedIn(call') + RunningIn(flight')
    BY <1>0, <2>2, <2>3 DEF Counts, CountMoves, One
  <2>5. ASSUME NEW k \in Classes
        PROVE  used'[k] = HoldingIn(call', k) + RunningOf(flight', k)
    <3>1. used[k] = HoldingIn(call, k) + RunningOf(flight, k)  BY <1>0, Zenon DEF Counts
    <3>2. used'[k] = IF ClassOf[c] = k
                     THEN used[k] + One(r.pc \in HoldingPcs) - One(call[c].pc \in HoldingPcs)
                     ELSE used[k]
      BY Zenon DEF UsedMoves
    <3>3. HoldingIn(call, k) \in Nat /\ RunningOf(flight, k) \in Nat  BY <2>2, <2>3, Zenon
    <3>4. One(r.pc \in HoldingPcs) \in Int /\ One(call[c].pc \in HoldingPcs) \in Int  BY DEF One
    <3>5. CASE ClassOf[c] = k
      <4>1. HoldingIn(call', k) = HoldingIn(call, k) + One(r.pc \in HoldingPcs)
                                    - One(call[c].pc \in HoldingPcs)
        BY <2>2, <3>5, Zenon
      <4>2. used'[k] = used[k] + One(r.pc \in HoldingPcs) - One(call[c].pc \in HoldingPcs)
        BY <3>2, <3>5, Zenon
      <4> QED  BY <3>1, <3>3, <3>4, <4>1, <4>2, Balance
    <3>6. CASE ClassOf[c] # k  BY <2>2, <3>1, <3>2, <3>6, Zenon
    <3> QED  BY <3>5, <3>6, Zenon
  <2> QED  BY <2>4, <2>5, Zenon DEF Counts
<1> QED  BY <1>2, <1>3, <1>4, <1>5, Zenon DEF CInv

-----------------------------------------------------------------------------
\* A caller's steps that hold no reservation.
LEMMA SendInv ==
    ASSUME CInv, NEW c \in Callers, Send(c), world' = world
    PROVE  CInv'
<1> DEFINE r == Sent(call[c])
<1>1. CallShape(call[c])  BY Zenon DEF CInv, CTypes, CallSound
<1>2. CallShape(r) /\ r.pc = "attempt"  BY <1>1, CallUpdates, Zenon
<1>3. call' = [call EXCEPT ![c] = r]  BY Zenon DEF Send, Sent
<1>4. CallSound(r, Max(world.caps))  BY <1>2, Zenon DEF CallSound
<1>5. UsedMoves(ClassOf[c], FALSE, FALSE) /\ CountMoves(FALSE, FALSE)
  BY UsedStays, CountStays, CallsAssumption, Zenon DEF Send
<1> HIDE DEF r
<1>6. UsedMoves(ClassOf[c], r.pc \in HoldingPcs, call[c].pc \in HoldingPcs)
  BY <1>2, <1>5, Zenon DEF Send, UsedMoves, One, HoldingPcs
<1>7. CountMoves(r.pc \in CountedPcs, call[c].pc \in CountedPcs)
  BY <1>2, <1>5, Zenon DEF Send, CountMoves, One, CountedPcs
<1> QED  BY <1>2, <1>3, <1>4, <1>6, <1>7, CallerInv, Zenon DEF Send, budget

LEMMA Alive ==
    ASSUME CInv, NEW c \in Callers, call[c].pc # "idle"
    PROVE  close.st # "down" /\ CallShape(call[c])
BY Zenon DEF CInv, CTypes, CallSound, Owners

LEMMA AttemptEndsInv ==
    ASSUME CInv, NEW c \in Callers, AttemptEnds(c), world' = world
    PROVE  CInv'
<1>1. close.st # "down"  BY Alive, Zenon DEF AttemptEnds
<1>2. CallShape(Idle) /\ Idle.pc = "idle"  BY Zenon DEF CallShape, Idle
<1>3. CallSound(Idle, Max(world.caps))  BY <1>2, Zenon DEF CallSound
<1>4. UsedMoves(ClassOf[c], FALSE, FALSE) /\ CountMoves(FALSE, FALSE)
  BY UsedStays, CountStays, CallsAssumption, Zenon DEF AttemptEnds
<1>5. UsedMoves(ClassOf[c], Idle.pc \in HoldingPcs, call[c].pc \in HoldingPcs)
  BY <1>2, <1>4, Zenon DEF AttemptEnds, UsedMoves, One, HoldingPcs
<1>6. CountMoves(Idle.pc \in CountedPcs, call[c].pc \in CountedPcs)
  BY <1>2, <1>4, Zenon DEF AttemptEnds, CountMoves, One, CountedPcs
<1> QED  BY <1>1, <1>2, <1>3, <1>5, <1>6, CallerInv, Zenon DEF AttemptEnds, budget

LEMMA BeginInv ==
    ASSUME CInv, NEW c \in Callers, Begin(c), world' = world
    PROVE  CInv'
<1> DEFINE r == Begun(call[c])
<1>1. close.st # "down" /\ CallShape(call[c])  BY Alive, Zenon DEF Begin
<1>2. CallShape(r) /\ r.pc = "acquire"  BY <1>1, CallUpdates, Zenon
<1>3. call' = [call EXCEPT ![c] = r]  BY Zenon DEF Begin, Begun
<1>4. CallSound(r, Max(world.caps))  BY <1>2, Zenon DEF CallSound
<1>5. UsedMoves(ClassOf[c], FALSE, FALSE)  BY UsedStays, CallsAssumption, Zenon DEF Begin
<1> HIDE DEF r
<1>6. UsedMoves(ClassOf[c], r.pc \in HoldingPcs, call[c].pc \in HoldingPcs)
  BY <1>2, <1>5, Zenon DEF Begin, UsedMoves, One, HoldingPcs
<1>7. CountMoves(r.pc \in CountedPcs, call[c].pc \in CountedPcs)
  BY <1>2, CountsAreInt DEF Begin, CountMoves, One, CountedPcs
<1> QED  BY <1>1, <1>2, <1>3, <1>4, <1>6, <1>7, CallerInv, Zenon DEF Begin, budget

\* The highest cap an operator sets.
LEMMA HighestCap ==
    ASSUME CTypes
    PROVE  /\ Max(world.caps) \in Nat
           /\ \A cap \in world.caps : cap \in Nat /\ cap <= Max(world.caps)
<1>1. /\ world.caps \subseteq Nat
      /\ \E m \in world.caps : \A cap \in world.caps : cap <= m
  BY CallsAssumption, Zenon DEF CTypes
<1>2. \E m \in world.caps : \A cap \in world.caps : m >= cap  BY <1>1, Zenon
<1>3. Max(world.caps) \in world.caps /\ \A cap \in world.caps : Max(world.caps) >= cap
  BY <1>2, Zenon DEF Max
<1> QED  BY <1>1, <1>3, Zenon

LEMMA AcquireInv ==
    ASSUME CInv, NEW c \in Callers, Acquire(c), world' = world
    PROVE  CInv'
<1> DEFINE r == Acquired(call[c], caps)
<1>1. close.st # "down" /\ CallShape(call[c])  BY Alive, Zenon DEF Acquire
<1>2. CallShape(r) /\ r.pc = "reserve" /\ r.cap = caps  BY <1>1, CallUpdates
<1>3. call' = [call EXCEPT ![c] = r]  BY Zenon DEF Acquire, Acquired
<1>5. UsedMoves(ClassOf[c], TRUE, FALSE)  BY UsedRises, CallsAssumption, Zenon DEF Acquire
<1>6. CountMoves(TRUE, TRUE)  BY CountStays, Zenon DEF Acquire
<1> HIDE DEF r
<1>4. CallSound(r, Max(world.caps))
  <2>1. caps \in Nat /\ caps <= Max(world.caps)  BY HighestCap, Zenon DEF CInv, CTypes
  <2> QED  BY <1>2, <2>1, Zenon DEF CallSound
<1>7. UsedMoves(ClassOf[c], r.pc \in HoldingPcs, call[c].pc \in HoldingPcs)
  BY <1>2, <1>5, Zenon DEF Acquire, UsedMoves, One, HoldingPcs
<1>8. CountMoves(r.pc \in CountedPcs, call[c].pc \in CountedPcs)
  BY <1>2, <1>6, Zenon DEF Acquire, CountMoves, One, CountedPcs
<1> QED  BY <1>1, <1>2, <1>3, <1>4, <1>7, <1>8, CallerInv, Zenon DEF Acquire, budget

LEMMA AcquireFailsInv ==
    ASSUME CInv, NEW c \in Callers, AcquireFails(c), world' = world
    PROVE  CInv'
<1>1. close.st # "down"  BY Alive, Zenon DEF AcquireFails
<1>2. PICK r : /\ call' = [call EXCEPT ![c] = r]
               /\ \A m : CallSound(r, m)
               /\ r.pc \in {"idle", "attempt"}
  BY EndedFacts, Zenon DEF AcquireFails, CInv
<1>3. UsedMoves(ClassOf[c], FALSE, FALSE)  BY UsedStays, CallsAssumption, Zenon DEF AcquireFails
<1>4. UsedMoves(ClassOf[c], r.pc \in HoldingPcs, call[c].pc \in HoldingPcs)
  BY <1>2, <1>3, Zenon DEF AcquireFails, UsedMoves, One, HoldingPcs
<1>5. CountMoves(r.pc \in CountedPcs, call[c].pc \in CountedPcs)
  BY <1>2, CountsAreInt DEF AcquireFails, CountMoves, One, CountedPcs
<1> QED  BY <1>1, <1>2, <1>4, <1>5, CallerInv, Zenon DEF AcquireFails, budget

LEMMA ReserveFailsInv ==
    ASSUME CInv, NEW c \in Callers, ReserveFails(c), world' = world
    PROVE  CInv'
<1>1. close.st # "down"  BY Alive, Zenon DEF ReserveFails
<1>2. PICK r : /\ call' = [call EXCEPT ![c] = r]
               /\ \A m : CallSound(r, m)
               /\ r.pc \in {"idle", "attempt"}
  BY EndedFacts, Zenon DEF ReserveFails, CInv
<1>3. UsedMoves(ClassOf[c], FALSE, TRUE)  BY UsedFalls, CallsAssumption, Zenon DEF ReserveFails
<1>4. UsedMoves(ClassOf[c], r.pc \in HoldingPcs, call[c].pc \in HoldingPcs)
  BY <1>2, <1>3, Zenon DEF ReserveFails, UsedMoves, One, HoldingPcs
<1>5. CountMoves(r.pc \in CountedPcs, call[c].pc \in CountedPcs)
  BY <1>2, CountsAreInt DEF ReserveFails, CountMoves, One, CountedPcs
<1> QED  BY <1>1, <1>2, <1>4, <1>5, CallerInv, Zenon DEF ReserveFails, budget

LEMMA AbandonInv ==
    ASSUME CInv, NEW c \in Callers, Abandon(c), world' = world
    PROVE  CInv'
<1>1. close.st # "down"  BY Alive, Zenon DEF Abandon
<1>2. PICK r : /\ call' = [call EXCEPT ![c] = r]
               /\ \A m : CallSound(r, m)
               /\ r.pc \in {"idle", "attempt"}
  BY EndedFacts, Zenon DEF Abandon, CInv
<1>3. UsedMoves(ClassOf[c], FALSE, FALSE) /\ CountMoves(FALSE, FALSE)
  BY UsedStays, CountStays, CallsAssumption, Zenon DEF Abandon
<1>4. UsedMoves(ClassOf[c], r.pc \in HoldingPcs, call[c].pc \in HoldingPcs)
  BY <1>2, <1>3, Zenon DEF Abandon, UsedMoves, One, HoldingPcs
<1>5. CountMoves(r.pc \in CountedPcs, call[c].pc \in CountedPcs)
  BY <1>2, <1>3, Zenon DEF Abandon, CountMoves, One, CountedPcs
<1> QED  BY <1>1, <1>2, <1>4, <1>5, CallerInv, Zenon DEF Abandon, budget

-----------------------------------------------------------------------------
\* The budget file.
LEMMA Times ==
    ASSUME NEW a \in Int, NEW n \in Int
    PROVE  a * (n + 1) = a * n + a /\ a * (n - 1) = a * n - a /\ a * n \in Int
OBVIOUS

LEMMA ReserveFacts ==
    ASSUME CInv, NEW f \in Flights, Reserve(f), NEW cap \in Nat, cap <= Max(world.caps),
           NEW class, Admits(cap, class), world' = world
    PROVE  /\ row' = [g \in Flights |-> row'[g]]
           /\ row'[f] = "held" /\ row[f] = "free"
           /\ \A g \in Flights : g # f => row'[g] = row[g]
           /\ account' = [spent |-> account'.spent, held |-> account'.held]
           /\ account'.spent \in Nat
           /\ Money'
<1>1. /\ row = [g \in Flights |-> row[g]]
      /\ account = [spent |-> account.spent, held |-> account.held]
      /\ account.spent \in Nat
  BY Zenon DEF CInv, CTypes
<1>2. account.held = R * HeldIn(row) /\ R \in Nat  BY CallsAssumption, Zenon DEF CInv, Money
<1>3. row' = [row EXCEPT ![f] = "held"] /\ row[f] = "free"  BY Zenon DEF Reserve
<1>4. /\ row' = [g \in Flights |-> row'[g]]
      /\ row'[f] = "held"
      /\ \A g \in Flights : g # f => row'[g] = row[g]
  BY <1>1, <1>3, Zenon
<1>5. account' = [spent |-> account.spent, held |-> account.held + R]  BY <1>1, Zenon DEF Reserve
<1>6. HeldIn(row) \in Nat /\ HeldIn(row') = HeldIn(row) + 1
  BY <1>1, <1>3, RowCounts DEF One
<1>7. account.held \in Int /\ account.held + R = R * (HeldIn(row) + 1)  BY <1>2, <1>6, Times
<1>8. Kind # "openai" => account.spent + (account.held + R) <= Max(world.caps)
  <2>1. 10 * (account.spent + account.held + R) <= Share(class, cap)  BY Zenon DEF Admits
  <2>2. Share(class, cap) \in Nat /\ Share(class, cap) <= 10 * cap  BY DEF Share
  <2>3. Max(world.caps) \in Nat  BY HighestCap, Zenon DEF CInv
  <2> QED  BY <1>1, <1>2, <1>7, <2>1, <2>2, <2>3
<1>9. Money'
  <2>1. account'.held = account.held + R /\ account'.spent = account.spent  BY <1>5, Zenon
  <2> QED  BY <1>6, <1>7, <1>8, <2>1, Zenon DEF Money
<1> QED  BY <1>1, <1>3, <1>4, <1>5, <1>9, Zenon

\* A reservation that is settled or released, or stays held for good.
LEMMA SettleFacts ==
    ASSUME CInv, NEW f \in Flights, row[f] = "held", f \notin stuck, NEW cost \in Nat,
           Kind # "openai" => cost <= R, Resolve(f, cost) \/ StaysHeld(f), world' = world
    PROVE  /\ row' = [g \in Flights |-> row'[g]]
           /\ row'[f] = "held" <=> f \in stuck'
           /\ \A g \in Flights : g # f => row'[g] = row[g] /\ (g \in stuck' <=> g \in stuck)
           /\ account' = [spent |-> account'.spent, held |-> account'.held]
           /\ account'.spent \in Nat
           /\ caps' = caps
           /\ Money'
<1>1. /\ row = [g \in Flights |-> row[g]]
      /\ account = [spent |-> account.spent, held |-> account.held]
      /\ account.spent \in Nat
  BY Zenon DEF CInv, CTypes
<1>2. account.held = R * HeldIn(row) /\ R \in Nat  BY CallsAssumption, Zenon DEF CInv, Money
<1>3. CASE Resolve(f, cost)
  <2>1. row' = [row EXCEPT ![f] = "free"]  BY <1>3, Zenon DEF Resolve
  <2>2. /\ row' = [g \in Flights |-> row'[g]]
        /\ row'[f] = "free"
        /\ \A g \in Flights : g # f => row'[g] = row[g]
    BY <1>1, <2>1, Zenon
  <2>3. account' = [spent |-> account.spent + cost, held |-> account.held - R]  BY <1>3, Zenon DEF Resolve
  <2>4. stuck' = stuck /\ caps' = caps  BY <1>3, Zenon DEF Resolve
  <2>5. HeldIn(row) \in Nat /\ HeldIn(row') = HeldIn(row) - 1
    BY <1>1, <2>1, RowCounts DEF One
  <2>6. account.held \in Int /\ account.held - R = R * (HeldIn(row) - 1)  BY <1>2, <2>5, Times
  <2>7. Max(world.caps) \in Nat  BY HighestCap, Zenon DEF CInv
  <2>8. Kind # "openai" => account.spent + account.held <= Max(world.caps)  BY Zenon DEF CInv, Money
  <2>9. Kind # "openai" => (account.spent + cost) + (account.held - R) <= Max(world.caps)
    BY <1>1, <1>2, <2>6, <2>7, <2>8
  <2>10. account'.held = account.held - R /\ account'.spent = account.spent + cost  BY <2>3, Zenon
  <2>11. Money'  BY <2>5, <2>6, <2>9, <2>10, Zenon DEF Money
  <2> QED  BY <1>1, <2>2, <2>3, <2>4, <2>10, <2>11
<1>4. CASE StaysHeld(f)
  <2>1. stuck' = stuck \cup {f} /\ UNCHANGED <<row, account, caps>>  BY <1>4, Zenon DEF StaysHeld
  <2>2. Money'  BY <2>1, Zenon DEF CInv, Money
  <2> QED  BY <1>1, <2>1, <2>2, Zenon
<1> QED  BY <1>3, <1>4, Zenon

\* reserveWithin: the row that was free belongs to the attempt alone.
LEMMA ReserveWithinInv ==
    ASSUME CInv, NEW c \in Callers, NEW f \in Flights, ReserveWithin(c, f), world' = world
    PROVE  CInv'
<1> DEFINE r == Reserved(call[c], f)
<1>1. close.st # "down" /\ CallShape(call[c]) /\ call[c].pc = "reserve"  BY Alive, Zenon DEF ReserveWithin
<1>2. CallShape(r) /\ r.pc = "permit" /\ r.fl = f  BY <1>1, CallUpdates
<1>3. call' = [call EXCEPT ![c] = r]  BY Zenon DEF ReserveWithin, Reserved
<1> HIDE DEF r
<1>4. CallSound(r, Max(world.caps))  BY <1>2, Zenon DEF CallSound
<1>5. CTypes  BY Zenon DEF CInv
<1>6. /\ call' = [d \in Callers |-> call'[d]]
      /\ call'[c] = r
      /\ \A d \in Callers : d # c => call'[d] = call[d]
      /\ \A d \in Callers : CallSound(call'[d], Max(world'.caps))
  BY <1>3, <1>4, <1>5, CallerTypes, Zenon
<1>7. call[c].cap \in Nat /\ call[c].cap <= Max(world.caps)  BY <1>1, <1>5, Zenon DEF CTypes, CallSound
<1>8. /\ row' = [g \in Flights |-> row'[g]]
      /\ row'[f] = "held" /\ row[f] = "free"
      /\ \A g \in Flights : g # f => row'[g] = row[g]
      /\ account' = [spent |-> account'.spent, held |-> account'.held]
      /\ account'.spent \in Nat
      /\ Money'
  BY <1>7, ReserveFacts, Zenon DEF ReserveWithin
<1>9. UNCHANGED <<flight, used, wg, close, caps, stuck>> /\ flight[f].pc = "none"
  BY Zenon DEF ReserveWithin, Reserve
<1>10. CTypes'  BY <1>5, <1>6, <1>8, <1>9, Zenon DEF CTypes
<1>11. Owners'
  <2>1. Owners  BY Zenon DEF CInv
  <2>2. \A d \in Callers : call[d].pc = "permit" => call[d].fl # f /\ call[d].fl \in Flights
    BY <1>5, <1>8, <2>1, Zenon DEF Owners, CTypes, CallSound
  <2>3. f \notin stuck  BY <1>8, <2>1, Zenon DEF Owners
  <2> QED  BY <1>1, <1>2, <1>6, <1>8, <1>9, <2>1, <2>2, <2>3 DEF Owners
<1>12. Counts'
  <2>1. UsedMoves(ClassOf[c], TRUE, TRUE) /\ CountMoves(TRUE, TRUE)
    BY <1>9, UsedStays, CountStays, CallsAssumption, Zenon
  <2>2. call = [d \in Callers |-> call[d]]  BY <1>5, Zenon DEF CTypes
  <2>3. /\ CountedIn(call') = CountedIn(call)
        /\ \A k : HoldingIn(call', k) = HoldingIn(call, k)
    <3>1. /\ r.pc \in CountedPcs <=> call[c].pc \in CountedPcs
          /\ r.pc \in HoldingPcs <=> call[c].pc \in HoldingPcs
      BY <1>1, <1>2, Zenon DEF CountedPcs, HoldingPcs
    <3> QED  BY <1>3, <2>2, <3>1, CallerKeepsCounts
  <2> QED  BY <1>9, <2>3, Zenon DEF CInv, Counts
<1> QED  BY <1>8, <1>10, <1>11, <1>12, Zenon DEF CInv

\* abort: the permit, the count and the reservation are given back.
LEMMA PermitRefusedInv ==
    ASSUME CInv, NEW c \in Callers, PermitRefused(c), world' = world
    PROVE  CInv'
<1>1. close.st # "down" /\ call[c].pc = "permit"  BY Alive, Zenon DEF PermitRefused
<1>2. CTypes /\ Owners  BY Zenon DEF CInv
<1>3. PICK f : f = call[c].fl  BY Zenon
<1>4. f \in Flights /\ row[f] = "held" /\ f \notin stuck /\ flight[f].pc = "none"
  BY <1>1, <1>2, <1>3, Zenon DEF CTypes, CallSound, Owners
<1>5. PICK r : /\ call' = [call EXCEPT ![c] = r]
               /\ \A m : CallSound(r, m)
               /\ r.pc \in {"idle", "attempt"}
  BY <1>2, EndedFacts, Zenon DEF PermitRefused
<1>6. /\ call' = [d \in Callers |-> call'[d]]
      /\ call'[c] = r
      /\ \A d \in Callers : d # c => call'[d] = call[d]
      /\ \A d \in Callers : CallSound(call'[d], Max(world'.caps))
  BY <1>2, <1>5, CallerTypes, Zenon
<1>7. Resolve(f, 0) \/ StaysHeld(f)  BY <1>3, Zenon DEF PermitRefused
<1>8. /\ row' = [g \in Flights |-> row'[g]]
      /\ row'[f] = "held" <=> f \in stuck'
      /\ \A g \in Flights : g # f => row'[g] = row[g] /\ (g \in stuck' <=> g \in stuck)
      /\ account' = [spent |-> account'.spent, held |-> account'.held]
      /\ account'.spent \in Nat
      /\ caps' = caps
      /\ Money'
  BY <1>4, <1>7, SettleFacts, CallsAssumption
<1>9. UNCHANGED <<flight, close>>  BY Zenon DEF PermitRefused
<1>10. UsedMoves(ClassOf[c], FALSE, TRUE)  BY UsedFalls, CallsAssumption, Zenon DEF PermitRefused
<1>11. CTypes'
  <2>1. used' = [k \in Classes |-> used'[k]]  BY <1>10, Zenon DEF UsedMoves
  <2> QED  BY <1>2, <1>6, <1>8, <1>9, <2>1, Zenon DEF CTypes
<1>12. Owners'
  <2>1. \A d \in Callers : d # c /\ call[d].pc = "permit" => call[d].fl # f /\ call[d].fl \in Flights
    BY <1>1, <1>2, <1>3 DEF Owners, CTypes, CallSound
  <2> QED  BY <1>1, <1>2, <1>3, <1>4, <1>5, <1>6, <1>8, <1>9, <2>1, SMTT(40) DEF Owners
<1>13. Counts'
  <2>1. call = [d \in Callers |-> call[d]]  BY <1>2, Zenon DEF CTypes
  <2>2. /\ CountedIn(call) \in Nat /\ CountedIn(call') = CountedIn(call) - 1
        /\ \A k : /\ HoldingIn(call, k) \in Nat
                  /\ HoldingIn(call', k) = IF ClassOf[c] = k THEN HoldingIn(call, k) - 1
                                           ELSE HoldingIn(call, k)
    <3>1. r.pc \notin CountedPcs  BY <1>5, Zenon DEF CountedPcs
    <3> QED  BY <1>1, <1>5, <2>1, <3>1, CallerLeavesCounts
  <2>3. wg' = wg - 1  BY Zenon DEF PermitRefused
  <2>4. \A k \in Classes : used'[k] = IF ClassOf[c] = k THEN used[k] - 1 ELSE used[k]
    BY <1>10, CountsAreInt DEF UsedMoves, One
  <2>5. RunningIn(flight) \in Nat /\ \A k : RunningOf(flight, k) \in Nat  BY CountTypes, Zenon
  <2> QED  BY <1>9, <2>2, <2>3, <2>4, <2>5 DEF CInv, Counts
<1> QED  BY <1>8, <1>11, <1>12, <1>13, Zenon DEF CInv

\* run starts: the flight takes over the attempt's permit, count and reservation.
LEMMA FlyInv ==
    ASSUME CInv, NEW c \in Callers, Fly(c), world' = world
    PROVE  CInv'
<1>1. close.st # "down" /\ CallShape(call[c]) /\ call[c].pc = "permit"  BY Alive, Zenon DEF Fly
<1>2. CTypes /\ Owners  BY Zenon DEF CInv
<1>3. PICK f : f = call[c].fl  BY Zenon
<1>4. f \in Flights /\ row[f] = "held" /\ f \notin stuck /\ flight[f].pc = "none"
  BY <1>1, <1>2, <1>3, Zenon DEF CTypes, CallSound, Owners
<1>5. PICK x : /\ flight' = [flight EXCEPT ![f] = x]
               /\ FlightShape(x) /\ x.pc = "flying" /\ x.class = ClassOf[c]
  <2> DEFINE cut == IF close.cutting THEN "cutByClose"
                    ELSE IF call[c].gaveUp THEN "cutByCaller" ELSE None
  <2>1. flight' = [flight EXCEPT ![f] = Launched(ClassOf[c], cut)]  BY <1>3, Zenon DEF Fly, Launched
  <2> HIDE DEF cut
  <2>2. \A y : y = Launched(ClassOf[c], cut) =>
                 FlightShape(y) /\ y.pc = "flying" /\ y.class = ClassOf[c]
    BY FlightUpdates
  <2> QED  BY <2>1, <2>2, Zenon
<1> DEFINE r == Flown(call[c])
<1>6. CallShape(r) /\ r.pc = "wait" /\ r.fl = f  BY <1>1, <1>3, CallUpdates, Zenon
<1>7. call' = [call EXCEPT ![c] = r]  BY Zenon DEF Fly, Flown
<1> HIDE DEF r
<1>8. CallSound(r, Max(world.caps))  BY <1>4, <1>6, Zenon DEF CallSound
<1>9. /\ call' = [d \in Callers |-> call'[d]]
      /\ call'[c] = r
      /\ \A d \in Callers : d # c => call'[d] = call[d]
      /\ \A d \in Callers : CallSound(call'[d], Max(world'.caps))
  BY <1>2, <1>7, <1>8, CallerTypes, Zenon
<1>10. /\ flight' = [g \in Flights |-> flight'[g]]
       /\ flight'[f] = x
       /\ \A g \in Flights : g # f => flight'[g] = flight[g]
  BY <1>2, <1>4, <1>5, Zenon DEF CTypes
<1>11. UNCHANGED <<row, account, caps, stuck, used, wg, close>>  BY Zenon DEF Fly, budget
<1>12. CTypes'
  <2>1. FlightSound(x)  BY <1>5, CallsAssumption, Zenon DEF FlightSound
  <2>2. \A g \in Flights : FlightSound(flight'[g])  BY <1>2, <1>10, <2>1, SMTT(30) DEF CTypes
  <2> QED  BY <1>2, <1>9, <1>10, <1>11, <2>2, Zenon DEF CTypes
<1>13. Owners'
  <2>1. \A d \in Callers : d # c /\ call[d].pc = "permit" => call[d].fl # f /\ call[d].fl \in Flights
    BY <1>1, <1>2, <1>3 DEF Owners, CTypes, CallSound
  <2> QED  BY <1>1, <1>2, <1>3, <1>4, <1>5, <1>6, <1>9, <1>10, <1>11, <2>1, SMTT(30) DEF Owners
<1>14. Money'  BY <1>11, Zenon DEF CInv, Money
<1>15. Counts'
  <2>1. call = [d \in Callers |-> call[d]] /\ flight = [g \in Flights |-> flight[g]]
    BY <1>2, Zenon DEF CTypes
  <2>2. /\ CountedIn(call) \in Nat /\ CountedIn(call') = CountedIn(call) - 1
        /\ \A k : /\ HoldingIn(call, k) \in Nat
                  /\ HoldingIn(call', k) = IF ClassOf[c] = k THEN HoldingIn(call, k) - 1
                                           ELSE HoldingIn(call, k)
    <3>1. r.pc \notin CountedPcs  BY <1>6, Zenon DEF CountedPcs
    <3> QED  BY <1>1, <1>7, <2>1, <3>1, CallerLeavesCounts
  <2>3. /\ RunningIn(flight) \in Nat /\ RunningIn(flight') = RunningIn(flight) + 1
        /\ \A k : /\ RunningOf(flight, k) \in Nat
                  /\ RunningOf(flight', k) = IF x.class = k THEN RunningOf(flight, k) + 1
                                             ELSE RunningOf(flight, k)
    <3>1. x.pc \in RunningPcs /\ flight[f].pc \notin RunningPcs  BY <1>4, <1>5, Zenon DEF RunningPcs
    <3> QED  BY <1>4, <1>5, <2>1, <3>1, FlightJoins
  <2>4. wg' = CountedIn(call') + RunningIn(flight')  BY <1>11, <2>2, <2>3, SMTT(30) DEF CInv, Counts
  <2>5. ASSUME NEW k \in Classes
        PROVE  used'[k] = HoldingIn(call', k) + RunningOf(flight', k)
    <3>1. used'[k] = HoldingIn(call, k) + RunningOf(flight, k)  BY <1>11, Zenon DEF CInv, Counts
    <3>2. HoldingIn(call, k) \in Nat /\ RunningOf(flight, k) \in Nat  BY <2>2, <2>3, Zenon
    <3>3. CASE ClassOf[c] = k
      <4>1. HoldingIn(call', k) = HoldingIn(call, k) - 1  BY <2>2, <3>3, Zenon
      <4>2. RunningOf(flight', k) = RunningOf(flight, k) + 1  BY <1>5, <2>3, <3>3, Zenon
      <4> QED  BY <3>1, <3>2, <4>1, <4>2
    <3>4. CASE ClassOf[c] # k  BY <1>5, <2>2, <2>3, <3>1, <3>4, Zenon
    <3> QED  BY <3>3, <3>4, Zenon
  <2> QED  BY <2>4, <2>5, Zenon DEF Counts
<1> QED  BY <1>12, <1>13, <1>14, <1>15, Zenon DEF CInv

\* A flight's request ended and its reservation was resolved, or stays held: the flight
\* keeps its permit and its count.
LEMMA FlightSettles ==
    ASSUME CInv, NEW f \in Flights, flight[f].pc = "flying", NEW res, Answers(f, res),
           NEW cost \in Nat, Kind # "openai" => cost <= R, Resolve(f, cost) \/ StaysHeld(f),
           UNCHANGED <<world, call, used, wg, close>>
    PROVE  CInv'
<1>1. CTypes /\ Owners  BY Zenon DEF CInv
<1>2. row[f] = "held" /\ f \notin stuck  BY <1>1, Zenon DEF Owners
<1>3. PICK x : /\ flight' = [flight EXCEPT ![f] = x]
               /\ FlightShape(x) /\ x.pc = "resolved" /\ x.class = flight[f].class
  <2>1. flight' = [flight EXCEPT ![f] = Answered(flight[f].class, res)]  BY Zenon DEF Answers, Answered
  <2>2. \A y : y = Answered(flight[f].class, res) =>
                 FlightShape(y) /\ y.pc = "resolved" /\ y.class = flight[f].class
    BY FlightUpdates, SMTT(30)
  <2> QED  BY <2>1, <2>2, Zenon
<1>4. /\ flight' = [g \in Flights |-> flight'[g]]
      /\ flight'[f] = x
      /\ \A g \in Flights : g # f => flight'[g] = flight[g]
  BY <1>1, <1>3, Zenon DEF CTypes
<1>5. /\ row' = [g \in Flights |-> row'[g]]
      /\ row'[f] = "held" <=> f \in stuck'
      /\ \A g \in Flights : g # f => row'[g] = row[g] /\ (g \in stuck' <=> g \in stuck)
      /\ account' = [spent |-> account'.spent, held |-> account'.held]
      /\ account'.spent \in Nat
      /\ caps' = caps
      /\ Money'
  BY <1>2, SettleFacts, Zenon
<1>6. CTypes'
  <2>1. FlightSound(x)  BY <1>1, <1>3, Zenon DEF FlightSound, CTypes, RunningPcs
  <2>2. \A g \in Flights : FlightSound(flight'[g])  BY <1>1, <1>4, <2>1, Zenon DEF CTypes
  <2> QED  BY <1>1, <1>4, <1>5, <2>2, Zenon DEF CTypes
<1>7. Owners'
  <2>1. \A d \in Callers : call[d].pc = "permit" => call[d].fl # f /\ call[d].fl \in Flights
    BY <1>1, Zenon DEF Owners, CTypes, CallSound
  <2> QED  BY <1>1, <1>3, <1>4, <1>5, <2>1, SMTT(40) DEF Owners
<1>8. Counts'
  <2>1. flight = [g \in Flights |-> flight[g]]  BY <1>1, Zenon DEF CTypes
  <2>2. /\ x.pc \in RunningPcs <=> flight[f].pc \in RunningPcs
        /\ x.pc \in RunningPcs => x.class = flight[f].class
    BY <1>3, Zenon DEF RunningPcs
  <2>3. RunningIn(flight') = RunningIn(flight) /\ \A k : RunningOf(flight', k) = RunningOf(flight, k)
    BY <1>3, <2>1, <2>2, FlightKeepsCounts
  <2> QED  BY <2>3, Zenon DEF CInv, Counts
<1> QED  BY <1>5, <1>6, <1>7, <1>8, Zenon DEF CInv

LEMMA CostsNothingInv ==
    ASSUME CInv, NEW f \in Flights, CostsNothing(f), world' = world
    PROVE  CInv'
<1>1. PICK res : Answers(f, res)  BY Zenon DEF CostsNothing
<1> QED  BY <1>1, FlightSettles, CallsAssumption DEF CostsNothing

LEMMA SettlesEstimateInv ==
    ASSUME CInv, NEW f \in Flights, SettlesEstimate(f), world' = world
    PROVE  CInv'
<1>1. PICK res : Answers(f, res)  BY Zenon DEF SettlesEstimate
<1> QED  BY <1>1, FlightSettles, CallsAssumption, Zenon DEF SettlesEstimate

LEMMA MeterInv ==
    ASSUME CInv, NEW f \in Flights, NEW cost \in 1..(R + 1), Meter(f, cost), world' = world
    PROVE  CInv'
<1>0. UNCHANGED <<world, call, used, wg, close>> /\ flight[f].pc = "flying"  BY Zenon DEF Meter
<1>1. CASE AcceptsMetering(cost)
  <2>1. cost \in Nat /\ (Kind # "openai" => cost <= R)
    BY <1>1, CallsAssumption DEF AcceptsMetering
  <2>2. \E res : Answers(f, res) /\ (Resolve(f, cost) \/ StaysHeld(f))  BY <1>1, Zenon DEF Meter
  <2> QED  BY <1>0, <2>1, <2>2, FlightSettles, Zenon
<1>2. CASE ~AcceptsMetering(cost)
  <2>1. Answers(f, "invalid") /\ (Resolve(f, E) \/ StaysHeld(f))  BY <1>2, Zenon DEF Meter
  <2>2. E \in Nat /\ (Kind # "openai" => E <= R)  BY CallsAssumption, Zenon
  <2> QED  BY <1>0, <2>1, <2>2, FlightSettles, Zenon
<1> QED  BY <1>1, <1>2, Zenon

\* A step that moves no caller and no flight from one place to another.
LEMMA RelabelInv ==
    ASSUME CInv, UNCHANGED <<world, row, account, used, wg, stuck>>, caps' \in world.caps,
           call' = [c \in Callers |-> call'[c]],
           \A c \in Callers : /\ CallShape(call'[c])
                              /\ call'[c].pc = call[c].pc
                              /\ call'[c].fl = call[c].fl
                              /\ call'[c].cap = call[c].cap,
           flight' = [f \in Flights |-> flight'[f]],
           \A f \in Flights : /\ FlightShape(flight'[f])
                              /\ flight'[f].pc = flight[f].pc
                              /\ flight'[f].class = flight[f].class,
           CloseShape(close'), close'.st = "down" <=> close.st = "down"
    PROVE  CInv'
<1>1. CTypes /\ Owners  BY Zenon DEF CInv
<1>2. CTypes'
  <2>1. \A c \in Callers : CallSound(call'[c], Max(world'.caps))  BY <1>1, Zenon DEF CTypes, CallSound
  <2>2. \A f \in Flights : FlightSound(flight'[f])  BY <1>1, Zenon DEF CTypes, FlightSound
  <2> QED  BY <1>1, <2>1, <2>2, Zenon DEF CTypes
<1>3. Owners'
  <2>1. \A c \in Callers : call[c].pc = "permit" => call[c].fl \in Flights
    BY <1>1, Zenon DEF CTypes, CallSound
  <2> QED  BY <1>1, <2>1 DEF Owners
<1>4. Money'  BY Zenon DEF CInv, Money
<1>5. Counts'
  <2>1. {c \in Callers : call'[c].pc \in CountedPcs} = {c \in Callers : call[c].pc \in CountedPcs}
    BY Zenon
  <2>2. {f \in Flights : flight'[f].pc \in RunningPcs} = {f \in Flights : flight[f].pc \in RunningPcs}
    BY Zenon
  <2>3. ASSUME NEW k
        PROVE  /\ {c \in Callers : call'[c].pc \in HoldingPcs /\ ClassOf[c] = k}
                    = {c \in Callers : call[c].pc \in HoldingPcs /\ ClassOf[c] = k}
               /\ {f \in Flights : flight'[f].pc \in RunningPcs /\ flight'[f].class = k}
                    = {f \in Flights : flight[f].pc \in RunningPcs /\ flight[f].class = k}
    BY Zenon
  <2>4. CountedIn(call') = CountedIn(call) /\ RunningIn(flight') = RunningIn(flight)
    BY <2>1, <2>2, Zenon DEF CountedIn, RunningIn
  <2>5. \A k : HoldingIn(call', k) = HoldingIn(call, k) /\ RunningOf(flight', k) = RunningOf(flight, k)
    BY <2>3, Zenon DEF HoldingIn, RunningOf
  <2> QED  BY <2>4, <2>5, Zenon DEF CInv, Counts
<1> QED  BY <1>2, <1>3, <1>4, <1>5, Zenon DEF CInv

LEMMA Shapes ==
    ASSUME CInv
    PROVE  /\ call = [c \in Callers |-> call[c]] /\ \A c \in Callers : CallShape(call[c])
           /\ flight = [f \in Flights |-> flight[f]] /\ \A f \in Flights : FlightShape(flight[f])
           /\ CloseShape(close)
           /\ caps \in world.caps
BY Zenon DEF CInv, CTypes, CallSound, FlightSound

LEMMA BreakerDelayOverInv ==
    ASSUME CInv, BreakerDelayOver, world' = world
    PROVE  CInv'
BY Shapes, RelabelInv, Zenon DEF BreakerDelayOver, budget

LEMMA SetCapsInv ==
    ASSUME CInv, NEW cap \in world.caps, SetCaps(cap), world' = world
    PROVE  CInv'
BY Shapes, RelabelInv, Zenon DEF SetCaps

Closing(x, st) == [x EXCEPT !.st = st]
Cutting(x) == [x EXCEPT !.cutting = TRUE]
CutOne(x, n) == [x EXCEPT !.cut = TRUE, !.held = @ + n]

LEMMA CloseUpdates ==
    ASSUME NEW x, CloseShape(x)
    PROVE  /\ \A st : CloseShape(Closing(x, st)) /\ Closing(x, st).st = st
           /\ CloseShape(Cutting(x)) /\ Cutting(x).st = x.st
           /\ \A n : CloseShape(CutOne(x, n)) /\ CutOne(x, n).st = x.st
<1>1. ASSUME NEW st, NEW y, y = Closing(x, st)  PROVE CloseShape(y) /\ y.st = st
  BY <1>1, Zenon DEF CloseShape, Closing
<1>2. ASSUME NEW y, y = Cutting(x)  PROVE CloseShape(y) /\ y.st = x.st
  BY <1>2, Zenon DEF CloseShape, Cutting
<1>3. ASSUME NEW n, NEW y, y = CutOne(x, n)  PROVE CloseShape(y) /\ y.st = x.st
  BY <1>3, Zenon DEF CloseShape, CutOne
<1> QED  BY <1>1, <1>2, <1>3, Zenon

LEMMA RefuseInv ==
    ASSUME CInv, Refuse, world' = world
    PROVE  CInv'
<1>1. close' = Closing(close, "draining")  BY Zenon DEF Refuse, Closing
<1>2. CloseShape(close') /\ close'.st = "draining" /\ close.st = "open"
  BY <1>1, Shapes, CloseUpdates DEF Refuse
<1> QED  BY <1>2, Shapes, RelabelInv, Zenon DEF Refuse, budget

LEMMA DrainedInv ==
    ASSUME CInv, Drained, world' = world
    PROVE  CInv'
<1>1. close' = Closing(close, "closed")  BY Zenon DEF Drained, Closing
<1>2. CloseShape(close') /\ close'.st = "closed" /\ close.st = "draining"
  BY <1>1, Shapes, CloseUpdates DEF Drained
<1> QED  BY <1>2, Shapes, RelabelInv, Zenon DEF Drained, budget

LEMMA CutAllInv ==
    ASSUME CInv, CutAll, world' = world
    PROVE  CInv'
<1>1. close' = Cutting(close)  BY Zenon DEF CutAll, Cutting
<1>2. CloseShape(close') /\ close'.st = close.st  BY <1>1, Shapes, CloseUpdates, Zenon
<1>3. \A f \in Flights : flight'[f] = flight[f] \/ flight'[f] = CutBy(flight[f], "cutByClose")
  BY Zenon DEF CutAll, CutBy
<1>4. \A f \in Flights : FlightShape(flight[f])  BY Shapes, Zenon
<1>5. \A f \in Flights : /\ FlightShape(flight'[f])
                         /\ flight'[f].pc = flight[f].pc
                         /\ flight'[f].class = flight[f].class
  BY <1>3, <1>4, FlightUpdates
<1>6. flight' = [f \in Flights |-> flight'[f]]  BY Zenon DEF CutAll
<1> QED  BY <1>2, <1>5, <1>6, Shapes, RelabelInv, Zenon DEF CutAll, budget

LEMMA GiveUpInv ==
    ASSUME CInv, NEW c \in Callers, GiveUp(c), world' = world
    PROVE  CInv'
<1>1. /\ call = [d \in Callers |-> call[d]] /\ \A d \in Callers : CallShape(call[d])
      /\ flight = [f \in Flights |-> flight[f]] /\ \A f \in Flights : FlightShape(flight[f])
      /\ CloseShape(close)
      /\ caps \in world.caps
  BY Shapes, Zenon
<1>2. call' = [call EXCEPT ![c] = GivenUp(call[c])]  BY Zenon DEF GiveUp, GivenUp
<1>3. \A r : r = GivenUp(call[c]) => /\ CallShape(r) /\ r.pc = call[c].pc
                                     /\ r.fl = call[c].fl /\ r.cap = call[c].cap
  BY <1>1, CallUpdates
<1>4. /\ call' = [d \in Callers |-> call'[d]]
      /\ \A d \in Callers : call'[d] = IF d = c THEN GivenUp(call[c]) ELSE call[d]
  BY <1>1, <1>2, Zenon
<1>5. \A d \in Callers : /\ CallShape(call'[d])
                         /\ call'[d].pc = call[d].pc
                         /\ call'[d].fl = call[d].fl
                         /\ call'[d].cap = call[d].cap
  BY <1>1, <1>3, <1>4, Zenon
<1>6. /\ flight' = [f \in Flights |-> flight'[f]]
      /\ \A f \in Flights : flight'[f] = flight[f] \/ flight'[f] = CutBy(flight[f], "cutByCaller")
  <2>1. CASE flight' = flight  BY <1>1, <2>1, Zenon
  <2>2. CASE flight' # flight
    <3>1. PICK g : g = call[c].fl  BY Zenon
    <3>2. flight' = [flight EXCEPT ![g] = CutBy(flight[g], "cutByCaller")]
      BY <2>2, <3>1, Zenon DEF GiveUp, CutBy
    <3> QED  BY <1>1, <3>2, Zenon
  <2> QED  BY <2>1, <2>2, Zenon
<1>7. \A f \in Flights : /\ FlightShape(flight'[f])
                         /\ flight'[f].pc = flight[f].pc
                         /\ flight'[f].class = flight[f].class
  BY <1>1, <1>6, FlightUpdates
<1>8. UNCHANGED <<row, account, caps, used, wg, stuck, close>>  BY Zenon DEF GiveUp, budget
<1> QED  BY <1>1, <1>4, <1>5, <1>6, <1>7, <1>8, RelabelInv, Zenon

\* The attempt takes its flight's result.
LEMMA ReceiveInv ==
    ASSUME CInv, NEW c \in Callers, Receive(c), world' = world
    PROVE  CInv'
<1>1. close.st # "down" /\ call[c].pc = "wait"  BY Alive, Zenon DEF Receive
<1>2. CTypes /\ Owners  BY Zenon DEF CInv
<1>3. PICK f : f = call[c].fl  BY SMTT(40)
<1>4. f \in Flights /\ flight[f].pc = "done"
  BY <1>1, <1>2, <1>3, Zenon DEF CTypes, CallSound, Receive
<1>5. PICK r : /\ call' = [call EXCEPT ![c] = r]
               /\ \A m : CallSound(r, m)
               /\ r.pc \in {"idle", "attempt"}
  BY <1>2, EndedFacts, Zenon DEF Receive
<1>6. /\ call' = [d \in Callers |-> call'[d]]
      /\ call'[c] = r
      /\ \A d \in Callers : d # c => call'[d] = call[d]
      /\ \A d \in Callers : CallSound(call'[d], Max(world'.caps))
  BY <1>2, <1>5, CallerTypes, Zenon
<1>7. flight' = [flight EXCEPT ![f] = NoFlight]  BY <1>3, Zenon DEF Receive
<1>8. /\ flight' = [g \in Flights |-> flight'[g]]
      /\ flight'[f] = NoFlight
      /\ \A g \in Flights : g # f => flight'[g] = flight[g]
  BY <1>2, <1>4, <1>7, SMTT(30) DEF CTypes
<1>9. UNCHANGED <<row, account, caps, used, wg, stuck, close>>  BY Zenon DEF Receive, budget
<1>10. NoFlight.pc = "none" /\ FlightSound(NoFlight)
  BY Zenon DEF NoFlight, FlightSound, FlightShape, RunningPcs
<1>11. CTypes'
  <2>1. \A g \in Flights : FlightSound(flight'[g])  BY <1>2, <1>8, <1>10, SMTT(30) DEF CTypes
  <2> QED  BY <1>2, <1>6, <1>8, <1>9, <2>1, Zenon DEF CTypes
<1>12. Owners'
  <2>1. \A d \in Callers : call[d].pc = "permit" => call[d].fl \in Flights
    BY <1>2, Zenon DEF CTypes, CallSound
  <2> QED  BY <1>1, <1>2, <1>4, <1>5, <1>6, <1>8, <1>9, <1>10, <2>1, SMTT(30) DEF Owners
<1>13. Money'  BY <1>9, Zenon DEF CInv, Money
<1>14. Counts'
  <2>1. call = [d \in Callers |-> call[d]] /\ flight = [g \in Flights |-> flight[g]]
    BY <1>2, Zenon DEF CTypes
  <2>2. /\ r.pc \in CountedPcs <=> call[c].pc \in CountedPcs
        /\ r.pc \in HoldingPcs <=> call[c].pc \in HoldingPcs
    BY <1>1, <1>5, Zenon DEF CountedPcs, HoldingPcs
  <2>3. CountedIn(call') = CountedIn(call) /\ \A k : HoldingIn(call', k) = HoldingIn(call, k)
    BY <1>5, <2>1, <2>2, CallerKeepsCounts
  <2>4. /\ NoFlight.pc \in RunningPcs <=> flight[f].pc \in RunningPcs
        /\ NoFlight.pc \in RunningPcs => NoFlight.class = flight[f].class
    BY <1>4, <1>10, Zenon DEF RunningPcs
  <2>5. RunningIn(flight') = RunningIn(flight) /\ \A k : RunningOf(flight', k) = RunningOf(flight, k)
    BY <1>4, <1>7, <2>1, <2>4, FlightKeepsCounts
  <2> QED  BY <1>9, <2>3, <2>5, Zenon DEF CInv, Counts
<1> QED  BY <1>11, <1>12, <1>13, <1>14, Zenon DEF CInv

\* run's tail: the permit and the count are returned, whoever waits.
LEMMA FinishInv ==
    ASSUME CInv, NEW f \in Flights, Finish(f), world' = world
    PROVE  CInv'
<1>1. CTypes /\ Owners  BY Zenon DEF CInv
<1>2. flight[f].pc = "resolved" /\ flight[f].class \in Classes /\ FlightShape(flight[f])
  BY <1>1, Zenon DEF Finish, CTypes, FlightSound, RunningPcs
<1>3. close.st # "down"  BY <1>1, <1>2, Zenon DEF Owners
<1>4. CloseShape(close') /\ close'.st = close.st
  <2>1. close' = close \/ \E n : close' = CutOne(close, n)  BY Zenon DEF Finish, CutOne
  <2>2. CloseShape(close)  BY Shapes, Zenon
  <2> QED  BY <2>1, <2>2, CloseUpdates
<1>5. PICK x : /\ flight' = [flight EXCEPT ![f] = x]
               /\ FlightShape(x) /\ x.pc \in {"done", "none"}
  <2>1. \E x \in {Handed(flight[f]), NoFlight} : flight' = [flight EXCEPT ![f] = x]
    BY Zenon DEF Finish, Handed
  <2>2. FlightShape(NoFlight) /\ NoFlight.pc = "none"  BY Zenon DEF NoFlight, FlightShape
  <2>3. \A y : y = Handed(flight[f]) => FlightShape(y) /\ y.pc = "done"  BY <1>2, FlightUpdates, SMTT(30)
  <2> QED  BY <2>1, <2>2, <2>3, Zenon
<1>6. /\ flight' = [g \in Flights |-> flight'[g]]
      /\ flight'[f] = x
      /\ \A g \in Flights : g # f => flight'[g] = flight[g]
  BY <1>1, <1>5, Zenon DEF CTypes
<1>7. UNCHANGED <<call, row, account, caps, stuck>> /\ wg' = wg - 1  BY Zenon DEF Finish, budget
<1>8. UsedMoves(flight[f].class, FALSE, TRUE)  BY <1>2, UsedFalls, Zenon DEF Finish
<1>9. CTypes'
  <2>1. FlightSound(x)  BY <1>5, Zenon DEF FlightSound, RunningPcs
  <2>2. \A g \in Flights : FlightSound(flight'[g])  BY <1>1, <1>6, <2>1, Zenon DEF CTypes
  <2>3. used' = [k \in Classes |-> used'[k]]  BY <1>8, SMTT(30) DEF UsedMoves
  <2> QED  BY <1>1, <1>4, <1>6, <1>7, <2>2, <2>3, Zenon DEF CTypes
<1>10. Owners'
  <2>1. \A d \in Callers : call[d].pc = "permit" => call[d].fl # f /\ call[d].fl \in Flights
    BY <1>1, <1>2, Zenon DEF Owners, CTypes, CallSound
  <2> QED  BY <1>1, <1>2, <1>3, <1>4, <1>5, <1>6, <1>7, <2>1, SMTT(40) DEF Owners
<1>11. Money'  BY <1>7, Zenon DEF CInv, Money
<1>12. Counts'
  <2>1. flight = [g \in Flights |-> flight[g]]  BY <1>1, Zenon DEF CTypes
  <2>2. /\ RunningIn(flight) \in Nat /\ RunningIn(flight') = RunningIn(flight) - 1
        /\ \A k : /\ RunningOf(flight, k) \in Nat
                  /\ RunningOf(flight', k) = IF flight[f].class = k THEN RunningOf(flight, k) - 1
                                             ELSE RunningOf(flight, k)
    <3>1. x.pc \notin RunningPcs /\ flight[f].pc \in RunningPcs  BY <1>2, <1>5, Zenon DEF RunningPcs
    <3> QED  BY <1>5, <2>1, <3>1, FlightLeaves
  <2>3. CountedIn(call) \in Nat /\ \A k : HoldingIn(call, k) \in Nat  BY CountTypes, Zenon
  <2>4. wg' = CountedIn(call') + RunningIn(flight')  BY <1>7, <2>2, <2>3 DEF CInv, Counts
  <2>5. ASSUME NEW k \in Classes
        PROVE  used'[k] = HoldingIn(call', k) + RunningOf(flight', k)
    <3>1. used[k] = HoldingIn(call, k) + RunningOf(flight, k)  BY Zenon DEF CInv, Counts
    <3>2. used'[k] = IF flight[f].class = k THEN used[k] - 1 ELSE used[k]
      BY <1>8, CountsAreInt DEF UsedMoves, One
    <3>3. HoldingIn(call, k) \in Nat /\ RunningOf(flight, k) \in Nat  BY <2>2, <2>3, Zenon
    <3>4. RunningOf(flight', k) = IF flight[f].class = k THEN RunningOf(flight, k) - 1
                                  ELSE RunningOf(flight, k)
      BY <2>2, Zenon
    <3> QED  BY <1>7, <3>1, <3>2, <3>3, <3>4, SMTT(30)
  <2> QED  BY <2>4, <2>5, Zenon DEF Counts
<1> QED  BY <1>9, <1>10, <1>11, <1>12, Zenon DEF CInv

-----------------------------------------------------------------------------
\* The process ends, and a next one starts.
LEMMA NobodyCounts ==
    ASSUME NEW cl, \A c \in Callers : cl[c].pc = "idle",
           NEW fl, \A f \in Flights : fl[f].pc = "none"
    PROVE  /\ CountedIn(cl) = 0 /\ RunningIn(fl) = 0
           /\ \A k : HoldingIn(cl, k) = 0 /\ RunningOf(fl, k) = 0
<1>1. {c \in Callers : cl[c].pc \in CountedPcs} = {}  BY Zenon DEF CountedPcs
<1>2. {f \in Flights : fl[f].pc \in RunningPcs} = {}  BY Zenon DEF RunningPcs
<1>3. ASSUME NEW k
      PROVE  /\ {c \in Callers : cl[c].pc \in HoldingPcs /\ ClassOf[c] = k} = {}
             /\ {f \in Flights : fl[f].pc \in RunningPcs /\ fl[f].class = k} = {}
  BY Zenon DEF HoldingPcs, RunningPcs
<1>4. CountedIn(cl) = 0 /\ RunningIn(fl) = 0  BY <1>1, <1>2, FS_EmptySet, Zenon DEF CountedIn, RunningIn
<1>5. ASSUME NEW k  PROVE HoldingIn(cl, k) = 0 /\ RunningOf(fl, k) = 0
  BY <1>3, FS_EmptySet, Zenon DEF HoldingIn, RunningOf
<1> QED  BY <1>4, <1>5, Zenon

LEMMA NothingFacts ==
    /\ Idle.pc = "idle" /\ \A m : CallSound(Idle, m)
    /\ NoFlight.pc = "none" /\ FlightSound(NoFlight)
<1>1. Idle.pc = "idle" /\ CallShape(Idle)  BY Zenon DEF Idle, CallShape
<1>2. \A m : CallSound(Idle, m)  BY <1>1, Zenon DEF CallSound
<1>3. NoFlight.pc = "none" /\ FlightSound(NoFlight)
  BY Zenon DEF NoFlight, FlightSound, FlightShape, RunningPcs
<1> QED  BY <1>1, <1>2, <1>3, Zenon

LEMMA CrashInv ==
    ASSUME CInv, Crash, world' = world
    PROVE  CInv'
<1>1. CTypes /\ Owners /\ Money  BY Zenon DEF CInv
<1>2. UNCHANGED <<row, account, caps, stuck>>  BY Zenon DEF Crash, budget
<1>3. /\ call' = [c \in Callers |-> call'[c]] /\ \A c \in Callers : call'[c] = Idle
      /\ flight' = [f \in Flights |-> flight'[f]] /\ \A f \in Flights : flight'[f] = NoFlight
      /\ used' = [k \in Classes |-> used'[k]] /\ \A k \in Classes : used'[k] = 0
      /\ wg' = 0
  BY Zenon DEF Crash
<1>4. CloseShape(close') /\ close'.st = "down"  BY Zenon DEF Crash, CloseShape
<1>5. CTypes'
  <2>1. /\ \A c \in Callers : CallSound(call'[c], Max(world'.caps))
        /\ \A f \in Flights : FlightSound(flight'[f])
    BY <1>3, NothingFacts, Zenon
  <2> QED  BY <1>1, <1>2, <1>3, <1>4, <2>1, Zenon DEF CTypes
<1>6. /\ \A c \in Callers : call'[c].pc = "idle"
      /\ \A f \in Flights : flight'[f].pc = "none"
  BY <1>3, NothingFacts, SMTT(40)
<1>7. Owners'  BY <1>1, <1>2, <1>4, <1>6, Zenon DEF Owners
<1>8. Money'  BY <1>1, <1>2, Zenon DEF Money
<1>9. Counts'
  <2>1. /\ CountedIn(call') = 0 /\ RunningIn(flight') = 0
        /\ \A k : HoldingIn(call', k) = 0 /\ RunningOf(flight', k) = 0
    BY <1>6, NobodyCounts, Zenon
  <2> QED  BY <1>3, <2>1 DEF Counts
<1> QED  BY <1>5, <1>7, <1>8, <1>9, Zenon DEF CInv

LEMMA Cheaper ==
    ASSUME NEW n \in Nat
    PROVE  E * n \in Nat /\ R * n \in Nat /\ E * n <= R * n
<1>1. E \in Nat /\ R \in Nat /\ E <= R  BY CallsAssumption, Zenon
<1> QED  BY <1>1

LEMMA TimesNothing == ASSUME NEW n \in Nat PROVE n * 0 = 0
OBVIOUS

\* SettleHolds: what the last process left held is spent, at its estimate.
LEMMA RestartInv ==
    ASSUME CInv, Restart, world' = world
    PROVE  CInv'
<1>1. CTypes /\ Owners /\ Money /\ Counts  BY Zenon DEF CInv
<1>2. UNCHANGED <<call, flight, caps, used, wg>> /\ stuck' = {} /\ close.st = "down"
  BY Zenon DEF Restart
<1>3. row' = [f \in Flights |-> row'[f]] /\ \A f \in Flights : row'[f] = "free"
  BY Zenon DEF Restart, SettleHolds
<1>4. account' = [spent |-> account.spent + E * HeldIn(row), held |-> 0]
  BY Zenon DEF Restart, SettleHolds, HeldIn
<1>5. account'.spent = account.spent + E * HeldIn(row) /\ account'.held = 0  BY <1>4, Zenon
<1>6. HeldIn(row) \in Nat /\ account.spent \in Nat  BY <1>1, CountTypes, Zenon DEF CTypes
<1>7. close' = Closing(close, "open")  BY Zenon DEF Restart, Closing
<1>8. CloseShape(close') /\ close'.st = "open"  BY <1>7, Shapes, CloseUpdates, Zenon
<1>9. /\ E * HeldIn(row) \in Nat /\ R * HeldIn(row) \in Nat
      /\ E * HeldIn(row) <= R * HeldIn(row)
  BY <1>6, Cheaper, Zenon
<1>10. CTypes'
  <2>1. account' = [spent |-> account'.spent, held |-> account'.held]  BY <1>4, <1>5, Zenon
  <2>2. account'.spent \in Nat  BY <1>5, <1>6, <1>9
  <2> QED  BY <1>1, <1>2, <1>3, <1>8, <2>1, <2>2, Zenon DEF CTypes
<1>11. Owners'  BY <1>1, <1>2, <1>3, <1>8, Zenon DEF Owners
<1>12. Money'
  <2>1. HeldIn(row') = 0
    <3>1. {f \in Flights : row'[f] = "held"} = {}  BY <1>3, Zenon
    <3> QED  BY <3>1, FS_EmptySet, Zenon DEF HeldIn
  <2>2. R * 0 = 0
    <3>1. R \in Nat  BY CallsAssumption, Zenon
    <3> QED  BY <3>1, TimesNothing, Zenon
  <2>3. Kind # "openai" => account.spent + R * HeldIn(row) <= Max(world.caps)  BY <1>1, Zenon DEF Money
  <2>4. Max(world.caps) \in Nat  BY <1>1, HighestCap, Zenon
  <2>5. Kind # "openai" => (account.spent + E * HeldIn(row)) + 0 <= Max(world.caps)
    BY <1>6, <1>9, <2>3, <2>4
  <2> QED  BY <1>5, <2>1, <2>2, <2>5, Zenon DEF Money
<1>13. Counts'  BY <1>1, <1>2, Zenon DEF Counts
<1> QED  BY <1>10, <1>11, <1>12, <1>13, Zenon DEF CInv

-----------------------------------------------------------------------------
LEMMA InitCInv == Init => CInv
<1> SUFFICES ASSUME Init PROVE CInv  BY SMTT(40)
<1>0. world \in Worlds /\ world.caps \subseteq Nat
  BY CallsAssumption, Zenon DEF Init
<1>1. Max(world.caps) \in world.caps
  <2>1. \E m \in world.caps : \A cap \in world.caps : m >= cap  BY <1>0, CallsAssumption, Zenon
  <2> QED  BY <2>1, Zenon DEF Max
<1>2. /\ call = [c \in Callers |-> call[c]] /\ \A c \in Callers : call[c] = Idle
      /\ flight = [f \in Flights |-> flight[f]] /\ \A f \in Flights : flight[f] = NoFlight
      /\ row = [f \in Flights |-> row[f]] /\ \A f \in Flights : row[f] = "free"
      /\ used = [k \in Classes |-> used[k]] /\ \A k \in Classes : used[k] = 0
  BY Zenon DEF Init
<1>3. /\ \A c \in Callers : call[c].pc = "idle" /\ CallSound(call[c], Max(world.caps))
      /\ \A f \in Flights : flight[f].pc = "none" /\ FlightSound(flight[f])
  BY <1>2, NothingFacts, Zenon
<1>4. CloseShape(close) /\ close.st = "open"  BY Zenon DEF Init, CloseShape
<1>5. /\ account = [spent |-> account.spent, held |-> account.held]
      /\ account.spent = 0 /\ account.held = 0
  BY Zenon DEF Init
<1>6. CTypes  BY <1>0, <1>1, <1>2, <1>3, <1>4, <1>5, Zenon DEF CTypes, Init
<1>7. Owners  BY <1>2, <1>3, <1>4, Zenon DEF Owners, Init
<1>8. Money
  <2>1. HeldIn(row) = 0
    <3>1. {f \in Flights : row[f] = "held"} = {}  BY <1>2, SMTT(30)
    <3> QED  BY <3>1, FS_EmptySet, Zenon DEF HeldIn
  <2>2. R * 0 = 0
    <3>1. R \in Nat  BY CallsAssumption, Zenon
    <3> QED  BY <3>1, TimesNothing, Zenon
  <2>3. Max(world.caps) \in Nat  BY <1>0, <1>1, SMTT(30)
  <2> QED  BY <1>5, <2>1, <2>2, <2>3 DEF Money
<1>9. Counts
  <2>1. /\ CountedIn(call) = 0 /\ RunningIn(flight) = 0
        /\ \A k : HoldingIn(call, k) = 0 /\ RunningOf(flight, k) = 0
    BY <1>3, NobodyCounts, Zenon
  <2> QED  BY <1>2, <2>1 DEF Counts, Init
<1> QED  BY <1>6, <1>7, <1>8, <1>9, Zenon DEF CInv

LEMMA NextCInv == CInv /\ [Next]_vars => CInv'
<1> SUFFICES ASSUME CInv, [Next]_vars PROVE CInv'  BY Zenon
<1>1. CASE UNCHANGED vars
  BY <1>1, Shapes, RelabelInv, Zenon DEF vars
<1>2. CASE Next
  <2>0. world' = world /\ world.callers \subseteq Callers
    BY <1>2, CallsAssumption, SMTT(30) DEF Next, CInv, CTypes
  <2>1. ASSUME NEW c \in world.callers, Send(c) \/ CallStep(c) \/ Abandon(c) \/ GiveUp(c)
        PROVE  CInv'
    <3>0. c \in Callers  BY <2>0, Zenon
    <3>1. CASE Send(c)  BY <2>0, <3>0, <3>1, SendInv, Zenon
    <3>2. CASE AttemptEnds(c)  BY <2>0, <3>0, <3>2, AttemptEndsInv, Zenon
    <3>3. CASE Begin(c)  BY <2>0, <3>0, <3>3, BeginInv, Zenon
    <3>4. CASE Acquire(c)  BY <2>0, <3>0, <3>4, AcquireInv, Zenon
    <3>5. CASE AcquireFails(c)  BY <2>0, <3>0, <3>5, AcquireFailsInv, Zenon
    <3>6. CASE \E f \in Flights : ReserveWithin(c, f)  BY <2>0, <3>0, <3>6, ReserveWithinInv, Zenon
    <3>7. CASE ReserveFails(c)  BY <2>0, <3>0, <3>7, ReserveFailsInv, Zenon
    <3>8. CASE PermitRefused(c)  BY <2>0, <3>0, <3>8, PermitRefusedInv, Zenon
    <3>9. CASE Fly(c)  BY <2>0, <3>0, <3>9, FlyInv, Zenon
    <3>10. CASE Receive(c)  BY <2>0, <3>0, <3>10, ReceiveInv, Zenon
    <3>11. CASE Abandon(c)  BY <2>0, <3>0, <3>11, AbandonInv, Zenon
    <3>12. CASE GiveUp(c)  BY <2>0, <3>0, <3>12, GiveUpInv, Zenon
    <3> QED  BY <2>1, <3>1, <3>2, <3>3, <3>4, <3>5, <3>6, <3>7, <3>8, <3>9, <3>10, <3>11, <3>12, Zenon
             DEF CallStep
  <2>2. ASSUME NEW f \in Flights, FlightStep(f)  PROVE CInv'
    <3>1. CASE CostsNothing(f)  BY <2>0, <3>1, CostsNothingInv, Zenon
    <3>2. CASE SettlesEstimate(f)  BY <2>0, <3>2, SettlesEstimateInv, Zenon
    <3>3. CASE \E cost \in 1..(R + 1) : Meter(f, cost)  BY <2>0, <3>3, MeterInv, Zenon
    <3>4. CASE Finish(f)  BY <2>0, <3>4, FinishInv, Zenon
    <3> QED  BY <2>2, <3>1, <3>2, <3>3, <3>4, Zenon DEF FlightStep
  <2>3. CASE BreakerDelayOver  BY <2>0, <2>3, BreakerDelayOverInv, Zenon
  <2>4. CASE Refuse  BY <2>0, <2>4, RefuseInv, Zenon
  <2>5. CASE CutAll  BY <2>0, <2>5, CutAllInv, Zenon
  <2>6. CASE Drained  BY <2>0, <2>6, DrainedInv, Zenon
  <2>7. CASE Crash  BY <2>0, <2>7, CrashInv, Zenon
  <2>8. CASE Restart  BY <2>0, <2>8, RestartInv, Zenon
  <2>9. CASE \E cap \in world.caps : SetCaps(cap)  BY <2>0, <2>9, SetCapsInv, SMTT(30)
  <2> QED  BY <1>2, <2>1, <2>2, <2>3, <2>4, <2>5, <2>6, <2>7, <2>8, <2>9, Zenon DEF Next, Step
<1> QED  BY <1>1, <1>2, Zenon

LEMMA CInvBooks == CInv => BooksBalance
<1> SUFFICES ASSUME CInv PROVE BooksBalance  BY Zenon
<1>1. Cardinality(Rows) = HeldIn(row)  BY Zenon DEF Rows, HeldIn
<1>2. account.held = R * Cardinality(Rows)  BY <1>1, Zenon DEF CInv, Money
<1>3. Kind # "openai" => account.spent + account.held <= Max(world.caps)  BY Zenon DEF CInv, Money
<1>4. ASSUME NEW f \in Rows, close.st # "down", f \notin stuck
      PROVE  Cardinality({c \in Callers : call[c].pc = "permit" /\ call[c].fl = f})
               + (IF flight[f].pc = "flying" THEN 1 ELSE 0) = 1
  <2> DEFINE S == {c \in Callers : call[c].pc = "permit" /\ call[c].fl = f}
  <2>0. f \in Flights /\ row[f] = "held" /\ Owners  BY <1>4, Zenon DEF Rows, CInv
  <2>1. CASE flight[f].pc = "flying"
    <3>1. S = {}  BY <2>0, <2>1, Zenon DEF Owners
    <3>2. Cardinality(S) = 0  BY <3>1, FS_EmptySet, Zenon
    <3> HIDE DEF S
    <3> QED  BY <2>1, <3>2 DEF S
  <2>2. CASE flight[f].pc # "flying"
    <3>1. PICK c \in Callers : call[c].pc = "permit" /\ call[c].fl = f
      BY <1>4, <2>0, <2>2, SMTT(30) DEF Owners
    <3>2. S = {c}  BY <2>0, <3>1, SMTT(30) DEF Owners
    <3>3. Cardinality(S) = 1  BY <3>2, FS_Singleton, Zenon
    <3> HIDE DEF S
    <3> QED  BY <2>2, <3>3 DEF S
  <2> QED  BY <2>1, <2>2, Zenon
<1>5. ASSUME NEW k \in Classes
      PROVE  used[k] = Cardinality({c \in Callers : Holding(c) /\ ClassOf[c] = k})
                       + Cardinality({f \in Flights : Running(f) /\ flight[f].class = k})
  BY Zenon DEF CInv, Counts, HoldingIn, RunningOf, Holding, Running, HoldingPcs, RunningPcs
<1>6. wg = Cardinality({c \in Callers : Counted(c)}) + Cardinality({f \in Flights : Running(f)})
  <2>1. {c \in Callers : Counted(c)} = {c \in Callers : call[c].pc \in CountedPcs}
    BY Zenon DEF Counted, Holding, CountedPcs
  <2>2. {f \in Flights : Running(f)} = {f \in Flights : flight[f].pc \in RunningPcs}
    BY Zenon DEF Running, RunningPcs
  <2> QED  BY <2>1, <2>2, Zenon DEF CInv, Counts, CountedIn, RunningIn
<1> QED  BY <1>2, <1>3, <1>4, <1>5, <1>6, Zenon DEF BooksBalance

\* What an attempt takes is given back once, for every set of callers and flights, every
\* price and every cap: the budget file's books balance and stay under the highest cap,
\* every held reservation has exactly one owner, and the bulkhead's permits and the wait
\* group count exactly those that hold them, across abandons, cuts, failed settlements,
\* crashes and restarts (reserveWithin, settle, release, SettleHolds, abort, run).
THEOREM CallsKeepTheBooks == Spec => []BooksBalance
<1>1. Init => CInv  BY InitCInv, Zenon
<1>2. CInv /\ [Next]_vars => CInv'  BY NextCInv, Zenon
<1>3. CInv => BooksBalance  BY CInvBooks, Zenon
<1> QED  BY <1>1, <1>2, <1>3, PTL DEF Spec
=============================================================================
