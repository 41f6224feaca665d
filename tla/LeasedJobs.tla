----------------------------- MODULE LeasedJobs -----------------------------
(***************************************************************************)
(* What a queue "with atomic worker leases and per-unit checkpoints"       *)
(* promises (src/src/aios_habit/rag_v2/ingestion_jobs.py, line 50): one    *)
(* step per call, taken by the latest worker that claimed the job, and no  *)
(* clock.                                                                  *)
(***************************************************************************)
EXTENDS Naturals

CONSTANTS Jobs, Units, Ordinals

VARIABLES
  phase,   \* where each job is
  lease,   \* the claim that holds it, or 0
  claims,  \* how many claims it has seen
  units    \* the ordinal each unit was committed with, or "none"

vars == <<phase, lease, claims, units>>

Init ==
  /\ phase = [j \in Jobs |-> "absent"]
  /\ lease = [j \in Jobs |-> 0]
  /\ claims = [j \in Jobs |-> 0]
  /\ units = [j \in Jobs |-> [u \in Units |-> "none"]]

Submit(j) ==
  /\ phase[j] = "absent"
  /\ phase' = [phase EXCEPT ![j] = "waiting"]
  /\ UNCHANGED <<lease, claims, units>>

(* A claim may follow one whose worker is gone.                            *)
Claim(j) ==
  /\ phase[j] \in {"waiting", "leased"}
  /\ phase' = [phase EXCEPT ![j] = "leased"]
  /\ claims' = [claims EXCEPT ![j] = claims[j] + 1]
  /\ lease' = [lease EXCEPT ![j] = claims[j] + 1]
  /\ UNCHANGED units

Commit(j, u, o) ==
  /\ phase[j] = "leased"
  /\ units[j][u] = "none"
  /\ \A v \in Units : units[j][v] # o
  /\ units' = [units EXCEPT ![j][u] = o]
  /\ UNCHANGED <<phase, lease, claims>>

Release(j, to) ==
  /\ phase[j] = "leased"
  /\ phase' = [phase EXCEPT ![j] = to]
  /\ lease' = [lease EXCEPT ![j] = 0]
  /\ UNCHANGED <<claims, units>>

Next ==
  \E j \in Jobs :
    \/ Submit(j) \/ Claim(j)
    \/ \E u \in Units, o \in Ordinals : Commit(j, u, o)
    \/ \E to \in {"waiting", "done"} : Release(j, to)

Spec == Init /\ [][Next]_vars
=============================================================================
