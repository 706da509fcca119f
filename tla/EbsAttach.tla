------------------------------ MODULE EbsAttach ------------------------------
(***************************************************************************)
(* ControllerPublishVolume and ControllerUnpublishVolume of the EBS        *)
(* controller service (pkg/ebs/controllersvc.go) and the attach and detach *)
(* calls of pkg/ebs/cloud.go.                                              *)
(*                                                                         *)
(* Neither RPC takes part in the in-flight table.  Each reads the volume,  *)
(* decides, and then calls the cloud; everything between the read and the  *)
(* call may have changed.  AttachVolume and DetachVolume go out with the   *)
(* context, so a call whose context is done is not sent; one that is under *)
(* way when the context ends, or when the plugin stops, may or may not be  *)
(* carried out.                                                            *)
(*                                                                         *)
(* The caller is the external-attacher: it works on one VolumeAttachment,  *)
(* a pair of volume and node, at a time, so a pair has at most one call    *)
(* somebody waits for.  Calls for different pairs overlap freely.          *)
(***************************************************************************)
EXTENDS Integers, FiniteSets

CONSTANTS
  Handler,      \* goroutines serving RPCs
  Volume, Node,
  None,
  MaxVolumesPerNode,
  MaxRestarts     \* bound on the restarts of the plugin

ASSUME AttachAssumption ==
  /\ None \notin Node
  /\ None \notin Volume
  /\ IsFiniteSet(Volume)
  /\ MaxVolumesPerNode \in Nat
  /\ MaxRestarts \in Nat

VARIABLES
  pc,          \* where each handler is
  vol, target, \* its volume and node
  live,        \* its caller still waits: the context is not done
  status,      \* cloud: state of each volume
  node,        \* cloud: InstanceId of each volume
  late,        \* network: requests that may be carried out although the
               \* plugin will never see their reply
  published,   \* history: pairs answered OK by Publish, until Unpublish is called
  unpublished, \* history: pairs answered OK by Unpublish, until Publish is called
  unsettled,   \* history: pairs with an attach or detach request whose fate
               \* the plugin has not learned, or that failed after it was accepted
  restarts

handlerVars == <<pc, vol, target, live>>
cloudVars   == <<status, node>>
history     == <<published, unpublished, unsettled>>
vars == <<handlerVars, cloudVars, late, history, restarts>>
-----------------------------------------------------------------------------
Pair == Volume \X Node

(* A mistake: volume and node in the wrong order. *)
PairSwapped(h) == <<target[h], vol[h]>>

(* The VolumeAttachment a call is about. *)
PairOf(h) == <<vol[h], target[h]>>

Status == {"available", "attaching", "attached", "detaching", "deleted"}
Pc == {"idle", "publish", "checkNode", "attach", "waitAttached",
       "unpublish", "detach", "waitAvailable"}
Call == [op: {"attach", "detach"}, vol: Volume, node: Node]

TypeOK ==
  /\ pc \in [Handler -> Pc]
  /\ vol \in [Handler -> Volume \cup {None}]
  /\ target \in [Handler -> Node \cup {None}]
  /\ live \in [Handler -> BOOLEAN]
  /\ status \in [Volume -> Status]
  /\ node \in [Volume -> Node \cup {None}]
  /\ late \subseteq Call
  /\ published \subseteq Pair
  /\ unpublished \subseteq Pair
  /\ unsettled \subseteq Pair
  /\ restarts \in 0..MaxRestarts

Init ==
  /\ pc     = [h \in Handler |-> "idle"]
  /\ vol    = [h \in Handler |-> None]
  /\ target = [h \in Handler |-> None]
  /\ live   = [h \in Handler |-> FALSE]
  /\ status = [v \in Volume |-> "available"]
  /\ node   = [v \in Volume |-> None]
  /\ late = {}
  /\ published = {} /\ unpublished = {} /\ unsettled = {}
  /\ restarts = 0
-----------------------------------------------------------------------------
(* Arrival and end of a call. *)

Begin(h, v, n, start) ==
  /\ pc[h] = "idle"
  /\ \A g \in Handler : PairOf(g) = <<v, n>> => ~live[g]
  /\ pc'     = [pc EXCEPT ![h] = start]
  /\ vol'    = [vol EXCEPT ![h] = v]
  /\ target' = [target EXCEPT ![h] = n]
  /\ live'   = [live EXCEPT ![h] = TRUE]
  /\ UNCHANGED <<cloudVars, late, unsettled, restarts>>

BeginPublish(h) ==
  \E v \in Volume, n \in Node :
    /\ Begin(h, v, n, "publish")
    /\ unpublished' = unpublished \ {<<v, n>>}
    /\ UNCHANGED published

BeginUnpublish(h) ==
  \E v \in Volume, n \in Node :
    /\ Begin(h, v, n, "unpublish")
    /\ published' = published \ {<<v, n>>}
    /\ UNCHANGED unpublished

Return(h) ==
  /\ pc'     = [pc EXCEPT ![h] = "idle"]
  /\ vol'    = [vol EXCEPT ![h] = None]
  /\ target' = [target EXCEPT ![h] = None]
  /\ live'   = [live EXCEPT ![h] = FALSE]

AnswerPublished(h) ==
  /\ Return(h)
  /\ published' = IF live[h] THEN published \cup {PairOf(h)} ELSE published
  /\ UNCHANGED <<unpublished, unsettled>>

AnswerUnpublished(h) ==
  /\ Return(h)
  /\ unpublished' = IF live[h] THEN unpublished \cup {PairOf(h)} ELSE unpublished
  /\ UNCHANGED <<published, unsettled>>

AnswerError(h) == Return(h) /\ UNCHANGED history

GoTo(h, next) ==
  /\ pc' = [pc EXCEPT ![h] = next]
  /\ UNCHANGED <<vol, target, live, history>>

(* The attacher's timeout: the context is done, the handler runs on. *)
Deadline(h) ==
  /\ pc[h] # "idle"
  /\ live[h]
  /\ live' = [live EXCEPT ![h] = FALSE]
  /\ UNCHANGED <<pc, vol, target, cloudVars, late, history, restarts>>
-----------------------------------------------------------------------------
(* ControllerPublishVolume. *)

(* A mistake: success for a volume that is attached to any node. *)
PublishAnyNode(h) ==
  /\ pc[h] = "publish"
  /\ \/ AnswerError(h)
     \/ status[vol[h]] = "attached" /\ AnswerPublished(h)
     \/ status[vol[h]] = "available" /\ GoTo(h, "checkNode")
  /\ UNCHANGED <<cloudVars, late, restarts>>

(* VolumeById: attached to this node is success; attached elsewhere, any   *)
(* status but available, no volume or a failed request is an error.        *)
Publish(h) ==
  /\ pc[h] = "publish"
  /\ \/ AnswerError(h)
     \/ /\ status[vol[h]] = "attached"
        /\ IF node[vol[h]] = target[h] THEN AnswerPublished(h) ELSE AnswerError(h)
     \/ status[vol[h]] = "available" /\ GoTo(h, "checkNode")
  /\ UNCHANGED <<cloudVars, late, restarts>>

VolumesOf(n) == {v \in Volume : node[v] = n}

(* NodeById and the limit on the volumes the node has at that moment.      *)
(* AttachVolume is not sent when the context is done: that is an error.    *)
CheckNode(h) ==
  /\ pc[h] = "checkNode"
  /\ \/ AnswerError(h)
     \/ /\ Cardinality(VolumesOf(target[h])) < MaxVolumesPerNode
        /\ live[h] /\ GoTo(h, "attach")
  /\ UNCHANGED <<cloudVars, late, restarts>>

(* The cloud attaches an available volume, and detaches an attached one    *)
(* from the node it is attached to; it refuses everything else.            *)
CloudAccepts(c) ==
  \/ /\ c.op = "attach"
     /\ status[c.vol] = "available"
     /\ status' = [status EXCEPT ![c.vol] = "attaching"]
     /\ node' = [node EXCEPT ![c.vol] = c.node]
  \/ /\ c.op = "detach"
     /\ status[c.vol] = "attached"
     /\ node[c.vol] = c.node
     /\ status' = [status EXCEPT ![c.vol] = "detaching"]
     /\ UNCHANGED node

CallOf(h) == [op |-> IF pc[h] = "attach" THEN "attach" ELSE "detach",
              vol |-> vol[h], node |-> target[h]]

(* An API call that was sent before the context was done: it is accepted,  *)
(* it fails, or its reply is lost or no longer awaited.                    *)
ApiCall(h, next) ==
  /\ \/ live[h] /\ CloudAccepts(CallOf(h)) /\ GoTo(h, next) /\ UNCHANGED late
     \/ AnswerError(h) /\ UNCHANGED <<cloudVars, late>>
     \/ /\ Return(h)
        /\ late' = late \cup {CallOf(h)}
        /\ unsettled' = unsettled \cup {PairOf(h)}
        /\ UNCHANGED <<cloudVars, published, unpublished>>
  /\ UNCHANGED restarts

AttachVolume(h) == pc[h] = "attach" /\ ApiCall(h, "waitAttached")

(* WaitVolumeBeStatus(attached) compares the status, not the node. *)
WaitVolumeBeAttached(h) ==
  /\ pc[h] = "waitAttached"
  /\ \/ AnswerError(h)
     \/ status[vol[h]] = "attached" /\ AnswerPublished(h)
  /\ UNCHANGED <<cloudVars, late, restarts>>
-----------------------------------------------------------------------------
(* ControllerUnpublishVolume. *)

(* A mistake: a volume that is not attached yet needs no detaching. *)
NotAttachedToNode(v, n) == status[v] # "attached" \/ node[v] # n

(* Nothing to detach from this node, as VolumeById shows it. *)
NotOnNode(v, n) == status[v] \in {"available", "deleted"} \/ node[v] # n

(* A volume that is detaching already is an error, the caller tries again; *)
(* DetachVolume is not sent when the context is done.                      *)
Unpublish(h) ==
  /\ pc[h] = "unpublish"
  /\ \/ AnswerError(h)
     \/ NotOnNode(vol[h], target[h]) /\ AnswerUnpublished(h)
     \/ /\ ~NotOnNode(vol[h], target[h])
        /\ status[vol[h]] # "detaching"
        /\ live[h] /\ GoTo(h, "detach")
  /\ UNCHANGED <<cloudVars, late, restarts>>

DetachVolume(h) == pc[h] = "detach" /\ ApiCall(h, "waitAvailable")

WaitVolumeBeAvailable(h) ==
  /\ pc[h] = "waitAvailable"
  /\ \/ AnswerError(h)
     \/ status[vol[h]] = "available" /\ AnswerUnpublished(h)
  /\ UNCHANGED <<cloudVars, late, restarts>>
-----------------------------------------------------------------------------
(* The plugin is restarted: its handlers are lost, requests on the wire are not. *)
Restart ==
  LET calling == {h \in Handler : pc[h] \in {"attach", "detach"}}
  IN /\ restarts < MaxRestarts
     /\ restarts' = restarts + 1
     /\ pc'     = [h \in Handler |-> "idle"]
     /\ vol'    = [h \in Handler |-> None]
     /\ target' = [h \in Handler |-> None]
     /\ live'   = [h \in Handler |-> FALSE]
     /\ late' = late \cup {CallOf(h) : h \in calling}
     /\ unsettled' = unsettled \cup {PairOf(h) : h \in calling}
     /\ UNCHANGED <<cloudVars, published, unpublished>>

(* The block-storage service. *)
CloudLateCall ==
  /\ \E c \in late : CloudAccepts(c) /\ late' = late \ {c}
  /\ UNCHANGED <<handlerVars, history, restarts>>

CloudSettles(v) ==
  /\ \/ /\ status[v] = "attaching"
        /\ status' = [status EXCEPT ![v] = "attached"]
        /\ UNCHANGED <<node, unsettled>>
     \/ /\ status[v] = "attaching"   \* the attachment fails after all
        /\ status' = [status EXCEPT ![v] = "available"]
        /\ node' = [node EXCEPT ![v] = None]
        /\ unsettled' = unsettled \cup {<<v, node[v]>>}
     \/ /\ status[v] = "detaching"
        /\ status' = [status EXCEPT ![v] = "available"]
        /\ node' = [node EXCEPT ![v] = None]
        /\ UNCHANGED unsettled
     \/ /\ status[v] = "available"   \* DeleteVolume, see EbsProvision
        /\ status' = [status EXCEPT ![v] = "deleted"]
        /\ UNCHANGED <<node, unsettled>>
  /\ UNCHANGED <<handlerVars, late, published, unpublished, restarts>>
-----------------------------------------------------------------------------
HandlerStep(h) ==
  \/ Publish(h) \/ CheckNode(h) \/ AttachVolume(h) \/ WaitVolumeBeAttached(h)
  \/ Unpublish(h) \/ DetachVolume(h) \/ WaitVolumeBeAvailable(h)

Next ==
  \/ \E h \in Handler : BeginPublish(h) \/ BeginUnpublish(h) \/ Deadline(h) \/ HandlerStep(h)
  \/ Restart
  \/ CloudLateCall
  \/ \E v \in Volume : CloudSettles(v)

Spec == Init /\ [][Next]_vars
-----------------------------------------------------------------------------
(* Properties. *)

(* controllersvc.go:199-258: after an OK answer to Publish the volume stays *)
(* attached to that node until Unpublish is called for the pair, unless a   *)
(* request of unknown fate is about for the pair.  No lock protects the     *)
(* decisions: the reads, the waits and the cloud's refusals have to.        *)
PublishedIsAttached ==
  \A p \in published : p \in unsettled \/ (status[p[1]] = "attached" /\ node[p[1]] = p[2])

(* controllersvc.go:260-291: after an OK answer to Unpublish the volume is  *)
(* not on that node and does not get there until Publish is called for the  *)
(* pair, unless a request of unknown fate is about.                         *)
UnpublishedIsDetached ==
  \A p \in unpublished : p \in unsettled \/ node[p[1]] # p[2]

(* controllersvc.go:244: the node does not get more volumes than the limit, *)
(* unless a request of unknown fate is about for it.                        *)
NodeWithinLimit ==
  \A n \in Node : \/ Cardinality(VolumesOf(n)) <= MaxVolumesPerNode
                  \/ \E v \in Volume : <<v, n>> \in unsettled

=============================================================================
