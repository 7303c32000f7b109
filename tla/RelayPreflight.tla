--------------------------- MODULE RelayPreflight ---------------------------
(***************************************************************************)
(* The counters of a broker session and what relay_preflight.go concludes   *)
(* from two snapshots of them.  Token sums are left out (a metered answer   *)
(* has a positive prompt count), and so are upstreamAttempts, recoveryWaits  *)
(* and embeddingRetries: they are reported, and no conclusion reads them.   *)
(***************************************************************************)
EXTENDS Integers

\* The counters relayRestarted guards, and the ones relayUsageSince adds.
DeliveryCounters ==
    {"requests", "successes", "failures", "grantDenials", "grantAgentDeclines",
     "agentRequestRejections", "capacityExhaustions", "recoveryExhaustions",
     "callerCancels"}
UsageCounters == {"requests", "successes", "usageAvailable", "usageUnavailable"}
Counters == DeliveryCounters \cup UsageCounters

NoCounts == [k \in Counters |-> 0]

\* One critical section of the session that increments the counters in K.
Count(n, K) == [k \in Counters |-> IF k \in K THEN n[k] + 1 ELSE n[k]]

Delta(start, end) == [k \in Counters |-> end[k] - start[k]]

Verdicts == {"scored", "declined", "modelUnused", "saturated", "recoveryExhausted",
             "degraded", "incomplete", "restarted", "unavailable"}

relayRestarted(start, end) ==
    \/ \E k \in DeliveryCounters : end[k] < start[k]
    \/ end["grantAgentDeclines"] - start["grantAgentDeclines"]
         > end["grantDenials"] - start["grantDenials"]

\* Mutant: one decline of the agent's allowance outweighs every other denial.
DenialVerdictAny(d) ==
    IF d["grantAgentDeclines"] > 0 THEN "declined" ELSE "degraded"

\* Infrastructure wins ties.
DenialVerdict(d) ==
    IF d["grantAgentDeclines"] = d["grantDenials"] THEN "declined" ELSE "degraded"

\* relayDegradedSince; "sound" where it returns nil.
relayDegradedSince(start, end) ==
    LET d == Delta(start, end) IN
    IF relayRestarted(start, end) THEN "restarted"
    ELSE IF d["grantDenials"] > 0 THEN DenialVerdict(d)
    ELSE IF d["capacityExhaustions"] > 0 THEN "saturated"
    ELSE IF d["recoveryExhaustions"] > 0 THEN "recoveryExhausted"
    ELSE IF d["failures"] > 0 THEN "degraded"
    ELSE "sound"

\* relayUsageSince's status "complete" and efficiency.ValidUsage.
CompleteUsage(d) == d["successes"] = d["usageAvailable"] /\ d["usageUnavailable"] = 0
ValidUsage(d) == CompleteUsage(d) /\ d["successes"] > 0

unusedV8ChatLane(d) ==
    /\ CompleteUsage(d)
    /\ \A k \in {"requests", "successes", "usageAvailable", "usageUnavailable", "failures",
                 "grantDenials", "agentRequestRejections", "capacityExhaustions",
                 "recoveryExhaustions", "callerCancels"} : d[k] = 0

requireCompleteV7Usage(d) ==
    IF ValidUsage(d) THEN "scored"
    ELSE IF unusedV8ChatLane(d) THEN "modelUnused"
    ELSE IF /\ d["agentRequestRejections"] > 0
            /\ d["agentRequestRejections"] >= d["usageUnavailable"] THEN "declined"
    ELSE "incomplete"

\* relayRunResult, then requireCompleteV7Usage.
relayVerdict(start, end) ==
    LET degraded == relayDegradedSince(start, end) IN
    IF degraded # "sound" THEN degraded
    ELSE IF \E k \in UsageCounters : end[k] < start[k] THEN "restarted"
    ELSE requireCompleteV7Usage(Delta(start, end))
=============================================================================
