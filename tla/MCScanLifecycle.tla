---------------------------- MODULE MCScanLifecycle ----------------------------
(* Instances of ScanLifecycle for TLC. *)
EXTENDS ScanLifecycle, TLC

CONSTANTS l1, l2, a, b, c

OneLibrary   == [f \in {a, b} |-> l1]
TwoLibraries == (a :> l1) @@ (c :> l2)

\* The folders of one library differ in nothing but their names.
FolderSymmetry == Permutations({a, b})

All(fullScan)           == [full |-> fullScan, targets |-> {}]
Selective(fullScan, ts) == [full |-> fullScan, targets |-> ts]

AllRequests  == {All(TRUE), All(FALSE)}
FullOnly     == {All(TRUE)}
OtherLibrary == {All(TRUE), Selective(FALSE, {c}), Selective(TRUE, {c})}
WithSelected == AllRequests \cup {Selective(FALSE, {a})}
===============================================================================
