-------------------------- MODULE FollowedVersions --------------------------
(***************************************************************************)
(* What instances that follow a table of versioned rows promise, however   *)
(* they learn of changes: rows are committed one version at a time, and    *)
(* what an instance serves of a row only moves forward, to a version that  *)
(* was committed, or is forgotten where rows can be deleted.               *)
(*                                                                         *)
(* Implemented by the values of Settings and by the job definitions of     *)
(* Jobs.                                                                   *)
(***************************************************************************)
EXTENDS Naturals

CONSTANTS
    Replicas,
    Rows,
    Deletable  \* rows that can be deleted

VARIABLES
    committed, \* the committed version of each row, 0 before the first
    served     \* the version each replica serves of each row

Init ==
    /\ committed = [r \in Rows |-> 0]
    /\ served = [i \in Replicas |-> [r \in Rows |-> 0]]

Commit(r) ==
    /\ committed' = [committed EXCEPT ![r] = @ + 1]
    /\ UNCHANGED served

(* A replica catches up with some rows, as far as it read, and forgets some
   deletable ones. *)
Follow(i) ==
    /\ served' \in [Replicas -> [Rows -> Nat]]
    /\ \A r \in Rows :
         \/ served[i][r] <= served'[i][r] /\ served'[i][r] <= committed[r]
         \/ r \in Deletable /\ served'[i][r] = 0
    /\ \A j \in Replicas \ {i} : served'[j] = served[j]
    /\ UNCHANGED committed

Next == (\E r \in Rows : Commit(r)) \/ (\E i \in Replicas : Follow(i))

Spec == Init /\ [][Next]_<<committed, served>>
=============================================================================
