------------------------------- MODULE MCJobs -------------------------------
(***************************************************************************)
(* Small instances of Jobs for TLC: drafts that compete for one incident   *)
(* or wait behind another kind of job, and the gate of one or two          *)
(* scenarios beside a draft.                                               *)
(***************************************************************************)
EXTENDS Jobs, TLC

CONSTANTS s1, s2, w1, w2

MiningKind == 1 :> "mine_incident" @@ 2 :> "mine_incident" @@ 3 :> "resolve_rollback"
MiningSubject == 1 :> s1 @@ 2 :> s1 @@ 3 :> s2

GateKind == 1 :> "regenerate_eval" @@ 2 :> "propose_recovery"
GateSubject == 1 :> s1 @@ 2 :> s1

WorkerSymmetry == Permutations(Workers)
=============================================================================
