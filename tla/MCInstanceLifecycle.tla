------------------------ MODULE MCInstanceLifecycle ------------------------
(* Instances of InstanceLifecycle for TLC: one instance, a configuration   *)
(* with everything (all1) and one of application VMs only (app1).          *)
EXTENDS InstanceLifecycle, TLC

CONSTANTS all1, app1

WorkerSymmetry == Permutations(Workers)
Symmetry == Permutations(Workers) \cup Permutations(Clients)

NoFolders  == AllCalls \ {"folder"}
TwoAtATime == {"create", "delete", "forget", "retry", "recreate", "health"}

=============================================================================
