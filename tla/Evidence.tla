------------------------------ MODULE Evidence ------------------------------
(***************************************************************************)
(* What a verified run promises, whoever carries it out (the nano CLI, the *)
(* daemon): nothing is completed without verifier evidence that is already *)
(* on disk, and what was decided stays decided.                            *)
(***************************************************************************)
CONSTANT Runs

VARIABLES
  claim,   \* per run: open, completed, failed
  proof    \* the runs whose evidence is on disk

EvidenceInit == claim = [r \in Runs |-> "open"] /\ proof = {}

Record(r) == claim[r] = "open" /\ proof' = proof \cup {r} /\ UNCHANGED claim

Complete(r) ==
  /\ claim[r] = "open" /\ r \in proof
  /\ claim' = [claim EXCEPT ![r] = "completed"] /\ UNCHANGED proof

Fail(r) ==
  /\ claim[r] = "open" /\ r \notin proof
  /\ claim' = [claim EXCEPT ![r] = "failed"] /\ UNCHANGED proof

EvidenceNext == \E r \in Runs : Record(r) \/ Complete(r) \/ Fail(r)

EvidenceSpec == EvidenceInit /\ [][EvidenceNext]_<<claim, proof>>

=============================================================================
