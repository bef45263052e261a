--------------------------- MODULE MCLeaseTiming ----------------------------
(***************************************************************************)
(* The timings of the run are ones the proofs are about, and not every     *)
(* timing the startup check accepts is.                                    *)
(***************************************************************************)
EXTENDS LeaseTiming

\* The hypothesis of TakeoverComesFirst, for every timing of the run.
ASSUME TimingsAbsorbJitter ==
    \A t \in Timings : JitterIsAbsorbed(t.lockTtl, t.maxDeliver)

\* A lock TTL of 250 s is accepted, although a shortened backoff can bring a
\* delivery to a lock that is about to expire.
ASSUME SomeTimingDoesNot ==
    TimingAccepted(50, 23) /\ ~ JitterIsAbsorbed(50, 23)
=============================================================================
