-------------------------- MODULE MCOriginPermits --------------------------
EXTENDS OriginPermits

CONSTANTS r1, r2, r3, o1, o2, oracle, m3

\* r1 and r3 ask for one origin from two hosts, r1 and r2 share the limited host.
MCOriginOf == [r \in Requests |-> IF r = r2 THEN o2 ELSE o1]
MCHostOf   == [r \in Requests |-> IF r = r3 THEN m3 ELSE oracle]
=============================================================================
