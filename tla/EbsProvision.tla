---------------------------- MODULE EbsProvision ----------------------------
(***************************************************************************)
(* CreateVolume and DeleteVolume of the EBS controller service, the cloud  *)
(* client they call (pkg/ebs/controllersvc.go, pkg/ebs/cloud.go) and the   *)
(* block-storage service behind it.                                        *)
(*                                                                         *)
(* A handler is a goroutine that serves one RPC.  Between two calls to the *)
(* cloud anything may happen: other handlers run, the cloud makes progress,*)
(* the caller gives up (its deadline cancels the context, while the        *)
(* handler goes on to the next place that looks at the context), and the   *)
(* plugin process may be restarted.  The cloud publishes a new volume in   *)
(* its listings some time after it accepted the request, which is why      *)
(* cloud.go has WaitVolumeBeCreated.  A create request whose reply never   *)
(* came may still be carried out later.                                    *)
(***************************************************************************)
EXTENDS Integers, InFlight

CONSTANTS
  Handler,       \* goroutines serving RPCs
  Name,          \* volume names (the provisioner derives them from a claim)
  Type, Zone,    \* volume types and availability zones
  VolId,         \* identifiers the cloud can give to volumes
  Request,       \* CreateVolume requests the callers send
  PodZone,       \* what cloud.Zone() may return, depending on where the pod runs
  NoZone, None,  \* the empty zone string, the absent request or volume
  GB,            \* bytes per GB
  DefaultBytes,  \* defaultCapacity
  MaxRestarts    \* bound on the restarts of the plugin

ASSUME ProvisionAssumption ==
  /\ GB \in Nat \ {0}
  /\ DefaultBytes \in Nat
  /\ MaxRestarts \in Nat
  /\ Request \subseteq [name: Name, type: Type, zone: Zone \cup {NoZone}, bytes: Nat]
  /\ PodZone \subseteq Zone \cup {NoZone}
  /\ PodZone # {}
  /\ NoZone \notin Zone
  /\ None \notin Request
  /\ None \notin VolId
  /\ None \notin Name

VARIABLES
  inFlight,   \* cs.inFlight: names being created, ids being deleted
  pc,         \* where each handler is
  req,        \* its CreateVolume request, None in a DeleteVolume
  vid,        \* the volume it deletes or has just had created
  live,       \* its caller still waits: the context is not done
  podZone,    \* volc.zone of the running plugin
  status,     \* cloud: state of each volume
  attr,       \* cloud: attributes the volume was created with
  listed,     \* cloud: volumes DescribeVolumes returns
  late,       \* network: create requests that may be carried out although
              \* the plugin will never see their reply
  lateDelete, \* network: ids of delete requests of that kind
  told,       \* history: the OK answers to CreateVolume that reached a caller
  gone,       \* history: ids for which an OK answer to DeleteVolume arrived
  unsure,     \* history: names with a create call that ended before the
              \* plugin had seen its volume in a listing
  restarts    \* number of restarts so far

driverVars == <<inFlight, pc, req, vid, live>>
cloudVars  == <<status, attr, listed>>
wire       == <<late, lateDelete>>
history    == <<told, gone, unsure>>
vars == <<driverVars, podZone, cloudVars, wire, history, restarts>>
-----------------------------------------------------------------------------
(* Operators of the code. *)

(* A mistake: rounding the size down. *)
FloorGB(bytes) == bytes \div GB

(* CreateVolume of cloud.go rounds the size up to whole GB. *)
CeilGB(bytes) == (bytes + GB - 1) \div GB

(* CreateVolume: the required bytes, or the default when there are none. *)
Capacity(r) == IF r.bytes # 0 THEN r.bytes ELSE DefaultBytes

(* getZoneId, then the zone of the metadata service. *)
ZoneId(r) == IF r.zone # NoZone THEN r.zone ELSE podZone

(* CreateVolumeInput: what the cloud is asked for. *)
Wanted(r) == [name |-> r.name, type |-> r.type, zone |-> ZoneId(r),
              gb |-> CeilGB(Capacity(r))]

(* The key a handler inserts and its deferred call deletes. *)
KeyOf(h) == IF req[h] # None THEN req[h].name ELSE vid[h]

(* A mistake: not asking whether the existing volume is available. *)
UsableInAnyState(v, r) ==
  /\ attr[v].type = r.type
  /\ attr[v].gb * GB >= Capacity(r)
  /\ attr[v].zone = ZoneId(r)

(* The checks CreateVolume makes on a volume that has the requested name. *)
Usable(v, r) ==
  /\ status[v] = "available"
  /\ attr[v].type = r.type
  /\ attr[v].gb * GB >= Capacity(r)
  /\ attr[v].zone = ZoneId(r)

(* A failed creation has an ErrorDetail: VolumeById and VolumeByName return an error. *)
Visible(v) == v \in listed /\ status[v] # "failed"

(* VolumeByName: the volumes of the name in a listing. *)
Found(name) == {v \in listed : attr[v].name = name}

(* Handlers that have inserted their key and not yet returned. *)
Critical == {"list", "create", "waitCreated", "waitAvailable", "find", "delete", "waitDeleted"}
Busy == {h \in Handler : pc[h] \in Critical}
-----------------------------------------------------------------------------
(* Types and the initial state: a fresh plugin and a cloud without volumes. *)
Status == {"none", "creating", "available", "failed", "deleting", "deleted"}
Attr   == [name: Name, type: Type, zone: Zone, gb: Nat]
Answer == [req: Request, id: VolId, bytes: Nat, zone: Zone]

TypeOK ==
  /\ inFlight \subseteq Name \cup VolId
  /\ pc \in [Handler -> {"idle", "insert"} \cup Critical]
  /\ req \in [Handler -> Request \cup {None}]
  /\ vid \in [Handler -> VolId \cup {None}]
  /\ live \in [Handler -> BOOLEAN]
  /\ podZone \in Zone \cup {NoZone}
  /\ status \in [VolId -> Status]
  /\ attr \in [VolId -> Attr \cup {None}]
  /\ listed \subseteq VolId
  /\ late \subseteq Attr
  /\ lateDelete \subseteq VolId
  /\ told \subseteq Answer
  /\ gone \subseteq VolId
  /\ unsure \subseteq Name
  /\ restarts \in 0..MaxRestarts

Init ==
  /\ inFlight = NewInFlight
  /\ pc   = [h \in Handler |-> "idle"]
  /\ req  = [h \in Handler |-> None]
  /\ vid  = [h \in Handler |-> None]
  /\ live = [h \in Handler |-> FALSE]
  /\ podZone \in PodZone
  /\ status = [v \in VolId |-> "none"]
  /\ attr = [v \in VolId |-> None]
  /\ listed = {}
  /\ late = {}
  /\ lateDelete = {}
  /\ told = {}
  /\ gone = {}
  /\ unsure = {}
  /\ restarts = 0
-----------------------------------------------------------------------------
(* Arrival of a call, the in-flight table, and the end of a handler. *)

Begin(h, r, v) ==
  /\ pc[h] = "idle"
  /\ pc'   = [pc EXCEPT ![h] = "insert"]
  /\ req'  = [req EXCEPT ![h] = r]
  /\ vid'  = [vid EXCEPT ![h] = v]
  /\ live' = [live EXCEPT ![h] = TRUE]
  /\ UNCHANGED <<inFlight, podZone, cloudVars, wire, history, restarts>>

BeginCreate(h) == \E r \in Request : Begin(h, r, None)

(* Callers delete the volumes they were told about. *)
BeginDelete(h) == \E a \in told : Begin(h, None, a.id)

InsertKey(h) ==
  /\ pc[h] = "insert"
  /\ CanInsert(inFlight, KeyOf(h))
  /\ inFlight' = Insert(inFlight, KeyOf(h))
  /\ pc' = [pc EXCEPT ![h] = IF req[h] # None THEN "list" ELSE "find"]
  /\ UNCHANGED <<req, vid, live, podZone, cloudVars, wire, history, restarts>>

(* The goroutine is over: nothing of its stack remains. *)
Leave(h) ==
  /\ pc'   = [pc EXCEPT ![h] = "idle"]
  /\ req'  = [req EXCEPT ![h] = None]
  /\ vid'  = [vid EXCEPT ![h] = None]
  /\ live' = [live EXCEPT ![h] = FALSE]

(* A mistake: the deferred Delete registered before the test of Insert. *)
AbortReleasing(h) ==
  /\ pc[h] = "insert"
  /\ ~CanInsert(inFlight, KeyOf(h))
  /\ Leave(h)
  /\ inFlight' = Delete(inFlight, KeyOf(h))
  /\ UNCHANGED <<podZone, cloudVars, wire, history, restarts>>

(* The key is taken: Aborted, before the deferred Delete is registered. *)
Abort(h) ==
  /\ pc[h] = "insert"
  /\ ~CanInsert(inFlight, KeyOf(h))
  /\ Leave(h)
  /\ UNCHANGED <<inFlight, podZone, cloudVars, wire, history, restarts>>

(* Every return after Insert runs the deferred Delete. *)
Return(h) == Leave(h) /\ inFlight' = Delete(inFlight, KeyOf(h))

(* The caller's deadline passes: its context is done, the handler runs on. *)
Deadline(h) ==
  /\ pc[h] # "idle"
  /\ live[h]
  /\ live' = [live EXCEPT ![h] = FALSE]
  /\ UNCHANGED <<inFlight, pc, req, vid, podZone, cloudVars, wire, history, restarts>>

(* An OK answer to CreateVolume, with its capacity and its topology; it    *)
(* reaches the caller if it still waits. *)
AnswerVolume(h, v, bytes, zone) ==
  /\ Return(h)
  /\ told' = IF live[h]
               THEN told \cup {[req |-> req[h], id |-> v, bytes |-> bytes, zone |-> zone]}
               ELSE told
  /\ UNCHANGED <<gone, unsure>>

(* An OK answer to DeleteVolume. *)
AnswerDeleted(h) ==
  /\ Return(h)
  /\ gone' = IF live[h] THEN gone \cup {vid[h]} ELSE gone
  /\ UNCHANGED <<told, unsure>>

AnswerError(h) == Return(h) /\ UNCHANGED history
-----------------------------------------------------------------------------
(* CreateVolume. *)

(* A mistake: a volume that is not available yet counts as no volume. *)
ListAvailableByName(h) ==
  LET r == req[h]
      found == {v \in Found(r.name) : status[v] = "available"}
  IN /\ pc[h] = "list"
     /\ \/ AnswerError(h)
        \/ /\ ZoneId(r) # NoZone
           /\ \E v \in found :
                IF Usable(v, r) THEN AnswerVolume(h, v, attr[v].gb * GB, attr[v].zone)
                                ELSE AnswerError(h)
        \/ /\ ZoneId(r) # NoZone
           /\ found = {}
           /\ pc' = [pc EXCEPT ![h] = "create"]
           /\ UNCHANGED <<inFlight, req, vid, live, history>>
     /\ UNCHANGED <<podZone, cloudVars, wire, restarts>>

(* VolumeByName and the checks on what it returns.  Several volumes of the *)
(* name: the first of the page.  The error disjunct is a failed            *)
(* DescribeVolumes, a failed volume, or a zone nobody knows.               *)
ListByName(h) ==
  LET r == req[h]
      found == Found(r.name)
  IN /\ pc[h] = "list"
     /\ \/ AnswerError(h)
        \/ /\ ZoneId(r) # NoZone
           /\ \E v \in found :
                IF Usable(v, r) THEN AnswerVolume(h, v, attr[v].gb * GB, attr[v].zone)
                                ELSE AnswerError(h)
        \/ /\ ZoneId(r) # NoZone
           /\ found = {}
           /\ pc' = [pc EXCEPT ![h] = "create"]
           /\ UNCHANGED <<inFlight, req, vid, live, history>>
     /\ UNCHANGED <<podZone, cloudVars, wire, restarts>>

(* The cloud takes a create request: a new volume, not listed yet. *)
CloudCreates(v, a) ==
  /\ status[v] = "none"
  /\ status' = [status EXCEPT ![v] = "creating"]
  /\ attr' = [attr EXCEPT ![v] = a]
  /\ UNCHANGED listed

(* The CreateVolume API call returns the id of the new volume. *)
CreateReplies(h) ==
  /\ pc[h] = "create"
  /\ \E v \in VolId : /\ CloudCreates(v, Wanted(req[h]))
                      /\ vid' = [vid EXCEPT ![h] = v]
  /\ pc' = [pc EXCEPT ![h] = "waitCreated"]
  /\ UNCHANGED <<inFlight, req, live, podZone, wire, history, restarts>>

(* The API call returns an error.  The request carries no client token:    *)
(* either the cloud has refused it, or it may yet be carried out.          *)
CreateFails(h) ==
  /\ pc[h] = "create"
  /\ Return(h)
  /\ \/ UNCHANGED <<late, unsure>>
     \/ /\ late' = late \cup {Wanted(req[h])}
        /\ unsure' = unsure \cup {req[h].name}
  /\ UNCHANGED <<podZone, cloudVars, lateDelete, told, gone, restarts>>

(* A mistake: polling without looking at the context. *)
WaitCreatedForever(h) ==
  /\ pc[h] = "waitCreated"
  /\ Visible(vid[h])
  /\ pc' = [pc EXCEPT ![h] = "waitAvailable"]
  /\ UNCHANGED <<inFlight, req, vid, live, podZone, cloudVars, wire, history, restarts>>

(* WaitVolumeBeCreated: errors of VolumeById are ignored, only the context *)
(* ends the loop early.                                                    *)
WaitVolumeBeCreated(h) ==
  /\ pc[h] = "waitCreated"
  /\ \/ /\ Visible(vid[h])
        /\ pc' = [pc EXCEPT ![h] = "waitAvailable"]
        /\ UNCHANGED <<inFlight, req, vid, live, unsure>>
     \/ /\ ~live[h]
        /\ Return(h)
        /\ unsure' = IF vid[h] \in listed THEN unsure ELSE unsure \cup {req[h].name}
  /\ UNCHANGED <<podZone, cloudVars, wire, told, gone, restarts>>

(* A mistake: a WaitVolumeBeStatus that does not look at the context. *)
WaitAvailableForever(h) ==
  /\ pc[h] = "waitAvailable"
  /\ \/ ~Visible(vid[h]) /\ AnswerError(h)
     \/ /\ Visible(vid[h])
        /\ status[vid[h]] = "available"
        /\ AnswerVolume(h, vid[h], Capacity(req[h]), ZoneId(req[h]))
  /\ UNCHANGED <<podZone, cloudVars, wire, restarts>>

(* WaitVolumeBeStatus(available): the context ends it, and so does a       *)
(* failed volume or one no listing shows.  The answer repeats the          *)
(* requested bytes and zone, not those of the volume.                      *)
WaitVolumeBeAvailable(h) ==
  /\ pc[h] = "waitAvailable"
  /\ \/ ~live[h] /\ AnswerError(h)
     \/ ~Visible(vid[h]) /\ AnswerError(h)
     \/ /\ Visible(vid[h])
        /\ status[vid[h]] = "available"
        /\ AnswerVolume(h, vid[h], Capacity(req[h]), ZoneId(req[h]))
  /\ UNCHANGED <<podZone, cloudVars, wire, restarts>>
-----------------------------------------------------------------------------
(* DeleteVolume. *)

(* VolumeById: no volume is success, an error (or a failed volume) is not. *)
(* The delete request is not sent when the context is done. *)
FindById(h) ==
  /\ pc[h] = "find"
  /\ \/ AnswerError(h)
     \/ vid[h] \notin listed /\ AnswerDeleted(h)
     \/ /\ Visible(vid[h])
        /\ live[h]
        /\ pc' = [pc EXCEPT ![h] = "delete"]
        /\ UNCHANGED <<inFlight, req, vid, live, history>>
  /\ UNCHANGED <<podZone, cloudVars, wire, restarts>>

(* A mistake: success as soon as the cloud has accepted the request. *)
DeleteCallNoWait(h) ==
  /\ pc[h] = "delete"
  /\ status[vid[h]] \in {"available", "deleting", "deleted"}
  /\ status' = [status EXCEPT ![vid[h]] = IF @ = "deleted" THEN @ ELSE "deleting"]
  /\ AnswerDeleted(h)
  /\ UNCHANGED <<attr, listed, podZone, wire, restarts>>

(* The DeleteVolume API call: 404 is success; after an error the cloud may *)
(* yet carry the request out. *)
DeleteCall(h) ==
  /\ pc[h] = "delete"
  /\ \/ /\ status[vid[h]] = "deleted"
        /\ AnswerDeleted(h)
        /\ UNCHANGED <<status, lateDelete>>
     \/ /\ status[vid[h]] \in {"available", "deleting"}
        /\ status' = [status EXCEPT ![vid[h]] = "deleting"]
        /\ pc' = [pc EXCEPT ![h] = "waitDeleted"]
        /\ UNCHANGED <<inFlight, req, vid, live, history, lateDelete>>
     \/ /\ AnswerError(h)
        /\ lateDelete' \in {lateDelete, lateDelete \cup {vid[h]}}
        /\ UNCHANGED status
  /\ UNCHANGED <<attr, listed, podZone, late, restarts>>

(* A mistake: the same WaitVolumeBeStatus, waiting for the deletion. *)
WaitDeletedForever(h) ==
  /\ pc[h] = "waitDeleted"
  /\ vid[h] \notin listed \/ status[vid[h]] = "deleted"
  /\ AnswerDeleted(h)
  /\ UNCHANGED <<podZone, cloudVars, wire, restarts>>

(* WaitVolumeBeStatus(deleted): the context ends it; not found counts as   *)
(* deleted.                                                                *)
WaitVolumeBeDeleted(h) ==
  /\ pc[h] = "waitDeleted"
  /\ \/ ~live[h] /\ AnswerError(h)
     \/ /\ vid[h] \notin listed \/ status[vid[h]] = "deleted"
        /\ AnswerDeleted(h)
  /\ UNCHANGED <<podZone, cloudVars, wire, restarts>>

(* Either WaitVolumeBeStatus ends at once when a DescribeVolumes fails;    *)
(* no call has to fail, so no poll may count on this to end.               *)
PollFails(h) ==
  /\ pc[h] \in {"waitAvailable", "waitDeleted"}
  /\ AnswerError(h)
  /\ UNCHANGED <<podZone, cloudVars, wire, restarts>>
-----------------------------------------------------------------------------
(* The plugin is restarted, perhaps in another zone.  Its goroutines and   *)
(* the in-flight table are lost; requests on the wire are not.             *)
Restart ==
  /\ restarts < MaxRestarts
  /\ restarts' = restarts + 1
  /\ inFlight' = NewInFlight
  /\ pc'   = [h \in Handler |-> "idle"]
  /\ req'  = [h \in Handler |-> None]
  /\ vid'  = [h \in Handler |-> None]
  /\ live' = [h \in Handler |-> FALSE]
  /\ podZone' \in PodZone
  /\ late' = late \cup {Wanted(req[h]) : h \in {g \in Handler : pc[g] = "create"}}
  /\ lateDelete' = lateDelete \cup {vid[h] : h \in {g \in Handler : pc[g] = "delete"}}
  /\ unsure' = unsure \cup {req[h].name : h \in {g \in Handler :
                 pc[g] = "create" \/ (pc[g] = "waitCreated" /\ vid[g] \notin listed)}}
  /\ UNCHANGED <<cloudVars, told, gone>>

(* The block-storage service. *)
CloudLateCreate ==
  /\ \E a \in late, v \in VolId : CloudCreates(v, a) /\ late' = late \ {a}
  /\ UNCHANGED <<driverVars, podZone, lateDelete, history, restarts>>

CloudLateDelete ==
  /\ \E v \in lateDelete : /\ status[v] = "available"
                          /\ status' = [status EXCEPT ![v] = "deleting"]
                          /\ lateDelete' = lateDelete \ {v}
  /\ UNCHANGED <<driverVars, podZone, attr, listed, late, history, restarts>>

(* A volume becomes available, its creation fails, or its deletion ends. *)
CloudStatus(v) ==
  /\ \/ status[v] = "creating" /\ status' = [status EXCEPT ![v] = "available"]
     \/ status[v] = "creating" /\ status' = [status EXCEPT ![v] = "failed"]
     \/ status[v] = "deleting" /\ status' = [status EXCEPT ![v] = "deleted"]
  /\ UNCHANGED <<driverVars, podZone, attr, listed, wire, history, restarts>>

(* A volume enters the listings, a deleted one leaves them. *)
CloudListing(v) ==
  /\ \/ status[v] \in {"creating", "available", "failed"} /\ listed' = listed \cup {v}
     \/ status[v] = "deleted" /\ listed' = listed \ {v}
  /\ UNCHANGED <<driverVars, podZone, status, attr, wire, history, restarts>>
-----------------------------------------------------------------------------
(* What a handler does when it is scheduled and its calls return. *)
Proceed(h) ==
  \/ InsertKey(h) \/ Abort(h)
  \/ ListByName(h) \/ CreateReplies(h) \/ CreateFails(h)
  \/ WaitVolumeBeCreated(h) \/ WaitVolumeBeAvailable(h)
  \/ FindById(h) \/ DeleteCall(h) \/ WaitVolumeBeDeleted(h)

HandlerStep(h) == Proceed(h) \/ PollFails(h)

Next ==
  \/ \E h \in Handler : BeginCreate(h) \/ BeginDelete(h) \/ Deadline(h) \/ HandlerStep(h)
  \/ Restart
  \/ CloudLateCreate \/ CloudLateDelete
  \/ \E v \in VolId : CloudStatus(v) \/ CloudListing(v)

Spec == Init /\ [][Next]_vars

(* Goroutines are scheduled and API calls return (the SDK's HTTP client);  *)
(* every sidecar call has a deadline.  The cloud owes nothing, not even an *)
(* error that would end a poll.                                            *)
FairSpec ==
  /\ Spec
  /\ \A h \in Handler : WF_vars(Deadline(h)) /\ WF_vars(Proceed(h))
-----------------------------------------------------------------------------
(* Properties. *)

(* controllersvc.go:65-69, 175-179: the in-flight table holds exactly the  *)
(* keys of the handlers between Insert and the deferred Delete, and no two *)
(* of them share a key.  A key that outlives its handler would make every  *)
(* retry answer Aborted for ever; a key deleted too early lets two         *)
(* creations of one name race.                                             *)
KeysExact ==
  /\ inFlight = {KeyOf(h) : h \in Busy}
  /\ \A g, h \in Busy : KeyOf(g) = KeyOf(h) => g = h

(* controllersvc.go:102-147: two volumes of one name can exist only when   *)
(* some create call for that name ended without the plugin having seen its *)
(* volume in a listing (an error reply, a deadline or a restart in that    *)
(* window).  In-flight key, VolumeByName and WaitVolumeBeCreated together  *)
(* must exclude every other way to a duplicate.                            *)
LiveVol(v) == status[v] \in {"creating", "available", "failed", "deleting"}
OneVolumePerName ==
  \A v, w \in VolId :
    (LiveVol(v) /\ LiveVol(w) /\ v # w /\ attr[v].name = attr[w].name)
      => attr[v].name \in unsure

(* controllersvc.go:107-165: a volume the caller is given satisfies the    *)
(* request, whether it was found or created, and whatever happened between *)
(* the retries: name, type, the zone when one was asked for, at least the  *)
(* requested bytes; and the capacity and the topology of the answer are    *)
(* those the volume has, also when the plugin, and with it the zone a      *)
(* request falls back to, has moved between two attempts.                  *)
AnswersFit ==
  \A a \in told :
    /\ attr[a.id].name = a.req.name
    /\ attr[a.id].type = a.req.type
    /\ a.req.zone # NoZone => attr[a.id].zone = a.req.zone
    /\ a.zone = attr[a.id].zone
    /\ Capacity(a.req) <= a.bytes
    /\ a.bytes <= attr[a.id].gb * GB

(* controllersvc.go:181-196, cloud.go:129-150: an id for which DeleteVolume *)
(* was answered OK is deleted in the cloud, not merely on its way there.   *)
GoneIsDeleted == \A v \in gone : status[v] = "deleted"

(* cloud.go:442-480: every handler ends, so every key is released.  The    *)
(* cloud may leave a volume creating or deleting for ever and answer every *)
(* poll; each of the three loops must then end by its context alone.       *)
CallsEnd == \A h \in Handler : pc[h] # "idle" ~> pc[h] = "idle"

(* The handlers implement the exclusion the in-flight table stands for. *)
HeldKey == [h \in Handler |-> IF h \in Busy THEN KeyOf(h) ELSE None]
Exclusive == INSTANCE ExclusiveOps
               WITH Worker <- Handler, Key <- Name \cup VolId,
                    NoKey <- None, workingOn <- HeldKey
ImplementsExclusion == Exclusive!Spec

(* controllersvc.go:107-196, cloud.go:87-150: seen from the callers, the   *)
(* two operations are a plain store of volumes.  A volume is available     *)
(* when it is given; one nobody was given is never deleted; an OK to       *)
(* DeleteVolume means that it is gone for good - with every retry, lost    *)
(* reply, delayed listing, late request and restart hidden in between.     *)
StageOf == [s \in Status |->
              CASE s = "none" -> "absent" [] s \in {"creating", "failed"} -> "made"
                [] s = "available" -> "ready" [] s = "deleting" -> "dropped" [] OTHER -> "gone"]
Given == {a.id : a \in told}
Store == INSTANCE VolumeStore
           WITH Volume <- VolId, stage <- [v \in VolId |-> StageOf[status[v]]],
                given <- Given, confirmed <- gone
ImplementsStore == Store!Spec
=============================================================================
