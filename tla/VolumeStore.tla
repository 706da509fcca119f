----------------------------- MODULE VolumeStore -----------------------------
(***************************************************************************)
(* What CreateVolume and DeleteVolume promise their callers about volumes, *)
(* without handlers, tables, listings, lost replies or restarts.  A volume *)
(* is made, becomes ready and, only after some caller was given it, is     *)
(* dropped and gone, for good.  A caller is given a volume that is ready   *)
(* at that moment, and a deletion is confirmed only when the volume is     *)
(* gone.                                                                   *)
(***************************************************************************)
CONSTANT Volume

VARIABLES stage,      \* where each volume is in its life
          given,      \* volumes a caller was answered
          confirmed   \* volumes whose deletion a caller was answered

store == <<stage, given, confirmed>>

Init ==
  /\ stage = [v \in Volume |-> "absent"]
  /\ given = {}
  /\ confirmed = {}

Moves(v, from, to) ==
  /\ stage[v] = from
  /\ stage' = [stage EXCEPT ![v] = to]
  /\ UNCHANGED <<given, confirmed>>

Make(v)   == Moves(v, "absent", "made")
Settle(v) == Moves(v, "made", "ready")
Drop(v)   == v \in given /\ Moves(v, "ready", "dropped")
Vanish(v) == Moves(v, "dropped", "gone")

Give(v) ==
  /\ stage[v] = "ready"
  /\ given' = given \cup {v}
  /\ UNCHANGED <<stage, confirmed>>

Confirm(v) ==
  /\ stage[v] = "gone"
  /\ confirmed' = confirmed \cup {v}
  /\ UNCHANGED <<stage, given>>

Next == \E v \in Volume : \/ Make(v) \/ Settle(v) \/ Drop(v) \/ Vanish(v)
                          \/ Give(v) \/ Confirm(v)

Spec == Init /\ [][Next]_store
=============================================================================
