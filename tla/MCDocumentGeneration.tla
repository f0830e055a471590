------------------------ MODULE MCDocumentGeneration ------------------------
(* TLC instances of DocumentGeneration. *)
EXTENDS DocumentGeneration, TLC

CONSTANTS r1, r2, t1, t2, owner, guest, w1, w2

RecordingOwner == [r \in Recordings |-> owner]

WorkerSymmetry == Permutations({w1, w2})
TopicAndWorkerSymmetry == Permutations({w1, w2}) \cup Permutations({t1, t2})
=============================================================================
