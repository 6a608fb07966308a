----------------------------- MODULE MCScanCommand -----------------------------
(* Instances of ScanCommand for TLC. *)
EXTENDS ScanCommand

CONSTANTS y, z

mcPath(root) == [task |-> "metadata", auto |-> TRUE, override |-> TRUE, roots |-> {root},
                 nested |-> FALSE, paths |-> {<<root, "nested">>}]
mcRecovery(root) == [task |-> "media_scan", auto |-> TRUE, override |-> TRUE, roots |-> {root},
                     nested |-> TRUE, paths |-> {}]
mcRecovered == [task |-> "media_scan", auto |-> TRUE, override |-> FALSE, roots |-> {},
                nested |-> FALSE, paths |-> {}]
mcManualRoot(root) == [task |-> "metadata", auto |-> FALSE, override |-> TRUE, roots |-> {root},
                       nested |-> FALSE, paths |-> {}]
mcResume == [mcRecovered EXCEPT !.auto = FALSE]

mcRequests == {mcPath(y), mcPath(z), mcRecovery(y), mcRecovered, mcManualRoot(z)}
===============================================================================
