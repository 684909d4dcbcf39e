--------------------------- MODULE CallsProperties ---------------------------
(***************************************************************************)
(* What the metered model calls promise, whatever order their goroutines,  *)
(* the provider's close and the process's crash interleave in.             *)
(***************************************************************************)
EXTENDS Calls

Rows == {f \in Flights : row[f] = "held"}

\* An attempt between its bulkhead permit and its flight, and one that is counted.
Holding(c) == call[c].pc \in {"reserve", "permit"}
Counted(c) == call[c].pc = "acquire" \/ Holding(c)
Running(f) == flight[f].pc \in {"flying", "resolved"}

\* What an attempt takes is given back once.  The budget file's books: what the
\* account holds is the sum of its unresolved attempts, and what is spent and held
\* together never passes the highest cap an operator set, unless the kind's metering
\* is unbounded (reserveWithin, settle, release, SettleHolds).  A reservation that is
\* held belongs to exactly one attempt about to fly or one request in flight, or its
\* settlement failed in the budget file of this process, or the process is down and
\* the next start settles it (flight.resolved, abort).  And a bulkhead permit and a
\* count of the wait group are held exactly by the attempts that took them, abandoned
\* requests included (abort, run).
BooksBalance ==
    /\ account.held = R * Cardinality(Rows)
    /\ Kind # "openai" => account.spent + account.held <= Max(world.caps)
    /\ \A f \in Rows :
        \/ close.st = "down"
        \/ f \in stuck
        \/ Cardinality({c \in Callers : call[c].pc = "permit" /\ call[c].fl = f})
             + (IF flight[f].pc = "flying" THEN 1 ELSE 0) = 1
    /\ \A k \in Classes :
        used[k] = Cardinality({c \in Callers : Holding(c) /\ ClassOf[c] = k})
                  + Cardinality({f \in Flights : Running(f) /\ flight[f].class = k})
    /\ wg = Cardinality({c \in Callers : Counted(c)}) + Cardinality({f \in Flights : Running(f)})

\* A call ends: its attempts and patient retries are bounded, and every wait of an
\* attempt (a permit, its flight) ends (send, stop, wait).
CallsEnd == \A c \in Callers : call[c].pc # "idle" ~> call[c].pc = "idle"

\* CloseWithin returns once its deadline cut what still ran (drain, cutAll).
CloseReturns == close.st = "draining" ~> close.st # "draining"

=============================================================================
