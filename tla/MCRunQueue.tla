----------------------------- MODULE MCRunQueue -----------------------------
(* Small instances of RunQueue.  Runs 1 and 3 are free to go, run 2 depends on
   run 1; run 2 has the highest priority; run 3, where it exists, carries no
   estimate.  One session has time for one run at once. *)
EXTENDS RunQueue, TLC

CONSTANTS w1, w2

MCPriority == [r \in Runs |-> IF r = 2 THEN 1 ELSE 0]
MCEstSeconds == [r \in Runs |-> IF r = 3 THEN NULL ELSE 1]
MCDependsOn == [r \in Runs |-> IF r = 2 THEN {1} ELSE {}]
MCRunsOn == [r \in Runs |-> AnyBackend]
MCBackendOf == [w \in Workers |-> "mock"]
MCSessionOf == [w \in Workers |-> 1]
MCKeyOf == [w \in Workers |-> "key"]
MCKeys == {"key"}

\* Two free runs and a session with room for both.
MCNoDependsOn == [r \in Runs |-> {}]
MCLongSessionOf == [w \in Workers |-> 2]

\* A run only the first worker has time for; the second locks it in vain each
\* time it asks.
MCLongEstSeconds == [r \in Runs |-> 2]
MCUnequalSessionOf == [w \in Workers |-> IF w = w1 THEN 2 ELSE 1]

SymmetricWorkers == Permutations(Workers)
SymmetricProcesses == Permutations(Workers) \cup Permutations(Sweepers)
=============================================================================
