------------------------------- MODULE MCCalls -------------------------------
EXTENDS CallsProperties

MCClassOf == [c \in Callers |-> IF c = "search" THEN "interactive" ELSE "background"]
MCPermits == [k \in Classes |-> IF k = "interactive" THEN 2 ELSE 1]

\* One Search that retries, abandons and gives up; a Search and a consolidation job that
\* share the provider; and a Search that waits out a 429, over a budget file that fails,
\* while an operator changes the cap.
MCWorlds ==
    {[callers |-> {"search"}, maxAttempts |-> 2, throttledRetries |-> 0,
      impatient |-> {"search"}, faults |-> FALSE, caps |-> {2}],
     [callers |-> {"search", "job"}, maxAttempts |-> 1, throttledRetries |-> 0,
      impatient |-> {}, faults |-> FALSE, caps |-> {2}],
     [callers |-> {"search"}, maxAttempts |-> 1, throttledRetries |-> 1,
      impatient |-> {}, faults |-> TRUE, caps |-> {1, 2}]}
=============================================================================
