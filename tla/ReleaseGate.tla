------------------------------ MODULE ReleaseGate ------------------------------
(***************************************************************************)
(* What the release gate promises, without files, hashes or publications:  *)
(* runs of target/viewer pairs become proven, and a commit is only ever    *)
(* judged qualified when every pair has a proven run.                      *)
(***************************************************************************)
CONSTANTS Pairs, Runs, PairOf(_)

VARIABLES proven, verdict

Proven(p) == \E r \in proven : PairOf(r) = p

Init == proven = {} /\ verdict = "unqualified"

Prove(r) == proven' = proven \cup {r} /\ UNCHANGED verdict

Judge ==
  /\ verdict' \in {"qualified", "unqualified"} /\ UNCHANGED proven
  /\ verdict' = "qualified" => \A p \in Pairs : Proven(p)

Next == (\E r \in Runs : Prove(r)) \/ Judge
Spec == Init /\ [][Next]_<<proven, verdict>>
================================================================================
