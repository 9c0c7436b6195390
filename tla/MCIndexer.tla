----------------------------- MODULE MCIndexer -----------------------------
(***************************************************************************)
(* Values of the constants of Indexer for TLC.                             *)
(***************************************************************************)
EXTENDS IndexerProperties, TLC

CONSTANTS w1, w2, a1, a2, s1, s2

\* Two jobs of one address, both over the whole of what there is to find or
\* the second one over a part of it.
TwoJobs == 1..2
OneAddress == 1 :> a1 @@ 2 :> a1
Windows == 1 :> {s1, s2} @@ 2 :> {s2}

\* Three jobs, two of one address and one of another.
ThreeJobs == 1..3
TwoAddresses == 1 :> a1 @@ 2 :> a1 @@ 3 :> a2
ThreeWindows == 1 :> {s1} @@ 2 :> {s1} @@ 3 :> {s1}

\* The workers of one process, and one process for each worker.
OneProcess == {{w1, w2}}
OneWorkerProcess == {{w1}}
TwoProcesses == {{w1}, {w2}}

WorkerSymmetry == Permutations({w1, w2})
=============================================================================
