----------------------------- MODULE EbsSnapshot -----------------------------
(***************************************************************************)
(* CreateSnapshot, DeleteSnapshot and ListSnapshots of the EBS controller  *)
(* service (pkg/ebs/controllersvc.go) over the snapshot calls of           *)
(* pkg/ebs/cloud.go.                                                       *)
(*                                                                         *)
(* The calls to the cloud ignore the context, so a deadline only means     *)
(* that nobody reads the answer.  A snapshot that was just created may be  *)
(* missing from a listing for a while; unlike CreateVolume, CreateSnapshot *)
(* does not wait for it.  The size of a source volume may grow meanwhile   *)
(* (EbsExpand), and the volume may be deleted.                             *)
(***************************************************************************)
EXTENDS Integers, InFlight

CONSTANTS
  Handler,     \* goroutines serving RPCs
  Name,        \* names of snapshots
  Volume, SnapId,
  Request,     \* arguments of CreateSnapshot: a name and a source volume
  MaxCapacity, \* bound on the capacity of a volume
  None,
  MaxRestarts  \* bound on the restarts of the plugin

ASSUME SnapshotAssumption ==
  /\ Request \subseteq [name: Name, source: Volume]
  /\ Name \cap SnapId = {}
  /\ None \notin SnapId \cup Name \cup Request
  /\ MaxCapacity \in Nat \ {0}
  /\ MaxRestarts \in Nat

VARIABLES
  inFlight,  \* ControllerSvc.inFlight
  pc, req, sid,  \* where each handler is; its request or its snapshot
  bytes,     \* capacity of the source as the handler has read it
  live,      \* its caller still waits
  capacity,  \* cloud: capacity of each volume, 0 when there is none
  status,    \* cloud: state of each snapshot
  of,        \* cloud: name and source of each snapshot
  size,      \* cloud: capacity of the source when the snapshot was taken
  listed,    \* cloud: snapshots DescribeSnapshots returns
  late, lateDelete,  \* network: requests that may be carried out although
                     \* the plugin will never see their reply
  known,     \* the snapshotter: the snapshots it was told of
  answer,    \* history: the answer given in the last step, or None
  unsure,    \* history: names for which a create call ended before its
             \* snapshot could be found by name
  restarts

handlerVars == <<inFlight, pc, req, sid, bytes, live>>
cloudVars   == <<capacity, status, of, size, listed>>
wire        == <<late, lateDelete>>
history     == <<known, unsure>>
vars == <<handlerVars, cloudVars, wire, known, answer, unsure, restarts>>
-----------------------------------------------------------------------------
Status == {"none", "creating", "available", "failed", "deleting", "deleted"}
Answer == [req: Request \cup {None}, id: SnapId, size: Nat, ready: BOOLEAN]

(* The handlers that have inserted their key and not returned yet. *)
Critical == {"lookUp", "volume", "create", "delete"}

KeyOf(h) == IF req[h] # None THEN req[h].name ELSE sid[h]

TypeOK ==
  /\ inFlight \subseteq Name \cup SnapId
  /\ pc \in [Handler -> {"idle", "insert", "list"} \cup Critical]
  /\ req \in [Handler -> Request \cup {None}]
  /\ sid \in [Handler -> SnapId \cup {None}]
  /\ bytes \in [Handler -> 0..MaxCapacity]
  /\ \A h \in Handler : pc[h] = "create" => bytes[h] > 0
  /\ live \in [Handler -> BOOLEAN]
  /\ capacity \in [Volume -> 0..MaxCapacity]
  /\ status \in [SnapId -> Status]
  /\ of \in [SnapId -> Request \cup {None}]
  /\ size \in [SnapId -> 0..MaxCapacity]
  /\ listed \subseteq SnapId
  /\ late \subseteq Request
  /\ lateDelete \subseteq SnapId
  /\ known \subseteq SnapId
  /\ answer \in Answer \cup {None}
  /\ unsure \subseteq Name
  /\ restarts \in 0..MaxRestarts

Init ==
  /\ inFlight = NewInFlight
  /\ pc    = [h \in Handler |-> "idle"]
  /\ req   = [h \in Handler |-> None]
  /\ sid   = [h \in Handler |-> None]
  /\ bytes = [h \in Handler |-> 0]
  /\ live  = [h \in Handler |-> FALSE]
  /\ capacity = [v \in Volume |-> 1]
  /\ status = [s \in SnapId |-> "none"]
  /\ of     = [s \in SnapId |-> None]
  /\ size   = [s \in SnapId |-> 0]
  /\ listed = {} /\ late = {} /\ lateDelete = {}
  /\ known = {} /\ answer = None /\ unsure = {}
  /\ restarts = 0
-----------------------------------------------------------------------------
(* Arrival of a call, the in-flight table, and the end of a handler. *)

(* No snapshot is answered in this step. *)
Silent == answer' = None

Begin(h, r, s, start) ==
  /\ pc[h] = "idle"
  /\ pc'   = [pc EXCEPT ![h] = start]
  /\ req'  = [req EXCEPT ![h] = r]
  /\ sid'  = [sid EXCEPT ![h] = s]
  /\ live' = [live EXCEPT ![h] = TRUE]
  /\ Silent
  /\ UNCHANGED <<inFlight, bytes, cloudVars, wire, history, restarts>>

CallCreate(h) == \E r \in Request : Begin(h, r, None, "insert")

(* The snapshotter deletes, and asks after, the snapshots it was told of. *)
CallDelete(h) == \E s \in known : Begin(h, None, s, "insert")
CallList(h)   == \E s \in known : Begin(h, None, s, "list")

Leave(h) ==
  /\ pc'    = [pc EXCEPT ![h] = "idle"]
  /\ req'   = [req EXCEPT ![h] = None]
  /\ sid'   = [sid EXCEPT ![h] = None]
  /\ bytes' = [bytes EXCEPT ![h] = 0]
  /\ live'  = [live EXCEPT ![h] = FALSE]

InsertKey(h) ==
  /\ pc[h] = "insert"
  /\ \/ /\ CanInsert(inFlight, KeyOf(h))
        /\ inFlight' = Insert(inFlight, KeyOf(h))
        /\ pc' = [pc EXCEPT ![h] = IF req[h] # None THEN "lookUp" ELSE "delete"]
        /\ UNCHANGED <<req, sid, bytes, live>>
     \/ /\ ~CanInsert(inFlight, KeyOf(h))   \* Aborted
        /\ Leave(h)
        /\ UNCHANGED inFlight
  /\ Silent
  /\ UNCHANGED <<cloudVars, wire, history, restarts>>

Return(h) == Leave(h) /\ inFlight' = Delete(inFlight, KeyOf(h))

Deadline(h) ==
  /\ live[h]
  /\ live' = [live EXCEPT ![h] = FALSE]
  /\ Silent
  /\ UNCHANGED <<inFlight, pc, req, sid, bytes, cloudVars, wire, history, restarts>>

(* A mistake: ready as soon as nobody works on it. *)
ReadyUnlessCreating(s) == status[s] # "creating"

(* ebsSnapshotResponseToStruct: ready in one state only. *)
ReadyToUse(s) == status[s] = "available"

(* An OK answer with a snapshot in it, if somebody reads it. *)
Tell(h, s, bytesOf, ready) ==
  IF live[h]
  THEN /\ known'  = known \cup {s}
       /\ answer' = [req |-> req[h], id |-> s, size |-> bytesOf, ready |-> ready]
  ELSE UNCHANGED known /\ answer' = None

GoTo(h, next) == pc' = [pc EXCEPT ![h] = next] /\ UNCHANGED <<inFlight, req, sid, live>>
-----------------------------------------------------------------------------
(* CreateSnapshot. *)

Found(name) == {s \in listed : of[s].name = name}

(* A mistake: a snapshot that is not ready yet counts as none. *)
LookUpReady(h) ==
  /\ pc[h] = "lookUp"
  /\ \/ Return(h) /\ Silent /\ UNCHANGED history
     \/ \E s \in Found(req[h].name) :
          /\ ReadyToUse(s) /\ of[s].source = req[h].source
          /\ Return(h) /\ Tell(h, s, size[s], TRUE) /\ UNCHANGED unsure
     \/ /\ ~\E s \in Found(req[h].name) : ReadyToUse(s)
        /\ GoTo(h, "volume") /\ Silent /\ UNCHANGED <<bytes, history>>
  /\ UNCHANGED <<cloudVars, wire, restarts>>

(* GetSnapshotByName, in whatever state; of several, the first of a page.  *)
LookUp(h) ==
  /\ pc[h] = "lookUp"
  /\ \/ Return(h) /\ Silent /\ UNCHANGED history
     \/ \E s \in Found(req[h].name) :
          /\ of[s].source = req[h].source
          /\ Return(h) /\ Tell(h, s, size[s], ReadyToUse(s)) /\ UNCHANGED unsure
     \/ Found(req[h].name) = {} /\ GoTo(h, "volume") /\ Silent /\ UNCHANGED <<bytes, history>>
  /\ UNCHANGED <<cloudVars, wire, restarts>>

(* A mistake: a volume that is not there is not noticed. *)
VolumeNotChecked(h) ==
  /\ pc[h] = "volume"
  /\ \/ Return(h) /\ Silent /\ UNCHANGED history
     \/ /\ bytes' = [bytes EXCEPT ![h] = capacity[req[h].source]]
        /\ GoTo(h, "create") /\ Silent /\ UNCHANGED history
  /\ UNCHANGED <<cloudVars, wire, restarts>>

(* VolumeById for the source. *)
VolumeById(h) ==
  /\ pc[h] = "volume"
  /\ \/ Return(h) /\ Silent /\ UNCHANGED history
     \/ /\ capacity[req[h].source] > 0
        /\ bytes' = [bytes EXCEPT ![h] = capacity[req[h].source]]
        /\ GoTo(h, "create") /\ Silent /\ UNCHANGED history
  /\ UNCHANGED <<cloudVars, wire, restarts>>

(* The cloud takes a snapshot; it may be listed at once, or later. *)
CloudCreates(s, r) ==
  /\ status[s] = "none" /\ capacity[r.source] > 0
  /\ status' = [status EXCEPT ![s] = "creating"]
  /\ of'     = [of EXCEPT ![s] = r]
  /\ size'   = [size EXCEPT ![s] = capacity[r.source]]
  /\ listed' \in {listed, listed \cup {s}}
  /\ UNCHANGED capacity

(* Created, and answered as not ready with the capacity that was read      *)
(* before; or an error, with or without a snapshot behind it.              *)
CreateReplies(h) ==
  /\ pc[h] = "create"
  /\ \E s \in SnapId :
       /\ CloudCreates(s, req[h])
       /\ Tell(h, s, bytes[h], FALSE)
       /\ unsure' = IF s \in listed' THEN unsure ELSE unsure \cup {req[h].name}
  /\ Return(h)
  /\ UNCHANGED <<wire, restarts>>

CreateFails(h) ==
  /\ pc[h] = "create"
  /\ Return(h)
  /\ \/ UNCHANGED <<late, unsure>>
     \/ late' = late \cup {req[h]} /\ unsure' = unsure \cup {req[h].name}
  /\ Silent
  /\ UNCHANGED <<cloudVars, lateDelete, known, restarts>>
-----------------------------------------------------------------------------
(* DeleteSnapshot and ListSnapshots. *)

Gone(s) == status[s] \in {"deleting", "deleted"}

CloudDeletes(s) ==
  status' = IF Gone(s) THEN status ELSE [status EXCEPT ![s] = "deleting"]

(* A request for a snapshot that is deleted changes nothing any more: only *)
(* those for others are kept among the late ones.                          *)
Delayed(ids) == lateDelete \cup {s \in ids : ~Gone(s)}

(* The snapshotter forgets a snapshot it was told is deleted.  A missing   *)
(* snapshot counts as deleted; an error leaves everything open.            *)
DeleteSnapshot(h) ==
  /\ pc[h] = "delete"
  /\ Return(h)
  /\ \/ /\ CloudDeletes(sid[h])
        /\ known' = IF live[h] THEN known \ {sid[h]} ELSE known
        /\ lateDelete' = lateDelete \ {sid[h]}
     \/ lateDelete' \in {lateDelete, Delayed({sid[h]})} /\ UNCHANGED <<status, known>>
  /\ Silent
  /\ UNCHANGED <<capacity, of, size, listed, late, unsure, restarts>>

(* GetSnapshotByID: an error, an empty list, or the snapshot as it is. *)
ListSnapshots(h) ==
  /\ pc[h] = "list"
  /\ Leave(h) /\ UNCHANGED inFlight
  /\ \/ Silent /\ UNCHANGED known
     \/ sid[h] \in listed /\ Tell(h, sid[h], size[sid[h]], ReadyToUse(sid[h]))
  /\ UNCHANGED <<cloudVars, wire, unsure, restarts>>
-----------------------------------------------------------------------------
(* The process, the cloud, the volumes. *)

(* The process ends and starts again, with its calls in whatever state.    *)
Restart ==
  /\ restarts < MaxRestarts
  /\ restarts' = restarts + 1
  /\ inFlight' = NewInFlight
  /\ pc'    = [h \in Handler |-> "idle"]
  /\ req'   = [h \in Handler |-> None]
  /\ sid'   = [h \in Handler |-> None]
  /\ bytes' = [h \in Handler |-> 0]
  /\ live'  = [h \in Handler |-> FALSE]
  /\ \E sent \in SUBSET {h \in Handler : pc[h] = "create"} :
       /\ late'   = late \cup {req[h] : h \in sent}
       /\ unsure' = unsure \cup {req[h].name : h \in sent}
  /\ \E sent \in SUBSET {h \in Handler : pc[h] = "delete"} :
       lateDelete' = Delayed({sid[h] : h \in sent})
  /\ Silent
  /\ UNCHANGED <<cloudVars, known>>

CloudLateCreate ==
  /\ \E r \in late, s \in SnapId : late' = late \ {r} /\ CloudCreates(s, r)
  /\ Silent
  /\ UNCHANGED <<handlerVars, lateDelete, history, restarts>>

CloudLateDelete ==
  /\ \E s \in lateDelete : lateDelete' = lateDelete \ {s} /\ CloudDeletes(s)
  /\ Silent
  /\ UNCHANGED <<handlerVars, capacity, of, size, listed, late, history, restarts>>

(* A snapshot is taken, or fails; one that is deleted leaves nothing.      *)
CloudStatus ==
  /\ \E s \in SnapId :
       \/ /\ status[s] = "creating"
          /\ \E t \in {"available", "failed"} : status' = [status EXCEPT ![s] = t]
          /\ UNCHANGED <<of, size, listed>>
       \/ /\ status[s] = "deleting"
          /\ status' = [status EXCEPT ![s] = "deleted"]
          /\ of'     = [of EXCEPT ![s] = None]
          /\ size'   = [size EXCEPT ![s] = 0]
          /\ listed' = listed \ {s}
  /\ Silent
  /\ UNCHANGED <<handlerVars, capacity, wire, history, restarts>>

CloudListing ==
  /\ \E s \in SnapId :
       /\ status[s] \notin {"none", "deleted"} /\ s \notin listed
       /\ listed' = listed \cup {s}
  /\ Silent
  /\ UNCHANGED <<handlerVars, capacity, status, of, size, wire, history, restarts>>

(* A source volume is expanded or deleted. *)
VolumeChanges ==
  /\ \E v \in Volume :
       /\ capacity[v] > 0
       /\ \E c \in {0} \cup (capacity[v] + 1)..MaxCapacity :
            capacity' = [capacity EXCEPT ![v] = c]
  /\ Silent
  /\ UNCHANGED <<handlerVars, status, of, size, listed, wire, history, restarts>>
-----------------------------------------------------------------------------
HandlerStep(h) ==
  \/ InsertKey(h)
  \/ LookUp(h) \/ VolumeById(h) \/ CreateReplies(h) \/ CreateFails(h)
  \/ DeleteSnapshot(h) \/ ListSnapshots(h)

Next ==
  \/ \E h \in Handler :
       \/ CallCreate(h) \/ CallDelete(h) \/ CallList(h)
       \/ Deadline(h) \/ HandlerStep(h)
  \/ Restart
  \/ CloudLateCreate \/ CloudLateDelete \/ CloudStatus \/ CloudListing \/ VolumeChanges

Spec == Init /\ [][Next]_vars
-----------------------------------------------------------------------------
(* Properties. *)

(* The key each handler at work has in hand. *)
HeldKey == [h \in Handler |-> IF pc[h] \in Critical THEN KeyOf(h) ELSE None]

Exclusion == INSTANCE ExclusiveOps
  WITH Worker <- Handler, Key <- Name \cup SnapId, NoKey <- None, workingOn <- HeldKey

(* controllersvc.go:350-354 and 404-408: at most one CreateSnapshot per    *)
(* name and one DeleteSnapshot per snapshot run at a time.                 *)
ImplementsExclusion == Exclusion!Spec

(* CreateSnapshot looks the name up before it creates (controllersvc.go    *)
(* 356-377): two snapshots of one name need a create call whose snapshot   *)
(* could not be found by name when the call ended.                         *)
OneSnapshotPerName ==
  \A s, t \in SnapId :
    (/\ s # t
     /\ {status[s], status[t]} \subseteq {"creating", "available", "failed"}
     /\ of[s].name = of[t].name)
    => of[s].name \in unsure

(* What newCSISnapshot (controllersvc.go:531) puts in an answer is true:   *)
(* the snapshot is of what was asked for, it is ready only when it is      *)
(* complete, and has no fewer bytes than answered, although the size was   *)
(* read before the snapshot was taken.                                     *)
AnswersFit ==
  answer # None =>
    /\ answer.req # None => of[answer.id] = answer.req
    /\ answer.ready => status[answer.id] = "available"
    /\ answer.size <= size[answer.id]
=============================================================================
