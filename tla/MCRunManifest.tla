---------------------------- MODULE MCRunManifest ----------------------------
(* Values for the runs of RunManifest: two runs of one unit, which publish to a *)
(* versioned key, an unversioned one and a library reference.                   *)
EXTENDS RunManifest, TLC

CONSTANTS r1, r2, D19, day, latest, universe, e1, e2

OneUnit == [r \in Run |-> D19]
TwoS3 == {[r \in Run |-> "s3"]}
FewVersions == [k \in Key |-> IF k = day THEN 2 ELSE 1]
AnySecond == {(r1 :> "s3") @@ (r2 :> kind) : kind \in {"s3", "local", "none"}}
=============================================================================
