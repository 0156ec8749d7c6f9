-------------------------- MODULE MCResultsDigest --------------------------
(***************************************************************************)
(* QueryResults, with transactions that take turns, and Digest, with runs  *)
(* that overlap, on small instances. They share no state, so a behaviour   *)
(* is about one of them, named by the variable part, and the state spaces  *)
(* add up instead of multiplying.                                          *)
(***************************************************************************)
EXTENDS MCQueryResults, Digest

VARIABLE part   \* the part that runs; the other stays as it began

\* A part that does not run begins in one state only.
ResultsDigestInit ==
    /\ part \in {"results", "digest"}
    /\ Init
    /\ DigestInit
    /\ part # "results" =>
        /\ \A q \in Query : query[q].failures = 0
        /\ \A q \in Query, e \in Exec : query[q].hash = exec[e].hash
    /\ part # "digest" => \A s \in Subscription : digest[s].frequency = "daily"

ResultsDigestNext ==
    \/ part = "results" /\ Next /\ UNCHANGED <<part, digestVars>>
    \/ part = "digest" /\ DigestNext /\ UNCHANGED <<part, vars>>

ResultsDigestSpec == ResultsDigestInit /\ [][ResultsDigestNext]_<<part, vars, digestVars>>

\* Runs of the digest job are interchangeable, too.
ResultsDigestSymmetry == Symmetry \cup Permutations(Dispatch)

=============================================================================
