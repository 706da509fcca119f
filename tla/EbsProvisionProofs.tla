------------------------- MODULE EbsProvisionProofs -------------------------
(***************************************************************************)
(* Proofs about EbsProvision for any number of handlers, names, volumes,   *)
(* requests and restarts.                                                  *)
(***************************************************************************)
EXTENDS EbsProvision, TLAPS

(* What a handler's locals hold at each point of its code. *)
CreatePcs == {"list", "create", "waitCreated", "waitAvailable"}
DeletePcs == {"find", "delete", "waitDeleted"}

LocalsOK ==
  \A h \in Handler :
    /\ pc[h] = "insert" => (req[h] \in Request \/ (req[h] = None /\ vid[h] \in VolId))
    /\ pc[h] \in CreatePcs => req[h] \in Request
    /\ pc[h] \in {"create", "waitCreated", "waitAvailable"} => ZoneId(req[h]) # NoZone
    /\ pc[h] \in {"waitCreated", "waitAvailable"} => vid[h] \in VolId
    /\ pc[h] \in DeletePcs => (req[h] = None /\ vid[h] \in VolId)

(* A volume the cloud has taken on has attributes; only such a volume is listed. *)
CloudOK ==
  \A v \in VolId : /\ status[v] # "none" => attr[v] \in Attr
                   /\ v \in listed => status[v] # "none"

TypeInv == TypeOK /\ LocalsOK /\ CloudOK

(* Sizes stay natural numbers through the rounding of cloud.go. *)
LEMMA CeilGBNat == ASSUME NEW b \in Nat PROVE CeilGB(b) \in Nat
BY ProvisionAssumption DEF CeilGB

LEMMA RequestFields ==
  ASSUME NEW r \in Request
  PROVE  /\ r.name \in Name
         /\ r.type \in Type
         /\ r.zone \in Zone \cup {NoZone}
         /\ r.bytes \in Nat
         /\ Capacity(r) \in Nat
BY ProvisionAssumption DEF Capacity

(* The record sent to the cloud is well formed once the zone is known. *)
LEMMA WantedAttr ==
  ASSUME NEW r \in Request, podZone \in Zone \cup {NoZone}, ZoneId(r) # NoZone
  PROVE  Wanted(r) \in Attr /\ Wanted(r).name = r.name
<1>1. ZoneId(r) \in Zone
  BY RequestFields, ProvisionAssumption DEF ZoneId
<1>2. CeilGB(Capacity(r)) \in Nat
  BY RequestFields, CeilGBNat
<1> QED BY <1>1, <1>2, RequestFields DEF Wanted, Attr
-----------------------------------------------------------------------------
(* Type correctness. *)

LEMMA TypeInit == Init => TypeInv
BY ProvisionAssumption DEF Init, TypeInv, TypeOK, LocalsOK, CloudOK, NewInFlight,
   CreatePcs, DeletePcs, Critical, Status, Attr, Answer

(* The steps of a handler that do not touch the cloud's state. *)
LEMMA TypeArrive ==
  ASSUME TypeInv, NEW h \in Handler,
         BeginCreate(h) \/ BeginDelete(h) \/ InsertKey(h) \/ Abort(h) \/ Deadline(h)
  PROVE  TypeInv'
<1> USE ProvisionAssumption DEF TypeInv, TypeOK, LocalsOK, CloudOK, CreatePcs, DeletePcs,
        Critical, Answer, cloudVars, wire, history, ZoneId
<1>1. CASE BeginCreate(h)
  BY <1>1 DEF BeginCreate, Begin
<1>2. CASE BeginDelete(h)
  BY <1>2 DEF BeginDelete, Begin
<1>3. CASE InsertKey(h)
  BY <1>3, RequestFields DEF InsertKey, Insert, KeyOf
<1>4. CASE Abort(h)
  BY <1>4 DEF Abort, Leave
<1>5. CASE Deadline(h)
  BY <1>5 DEF Deadline
<1> QED BY <1>1, <1>2, <1>3, <1>4, <1>5

(* What a return leaves behind, whichever answer it gives. *)
LEMMA TypeReturn ==
  ASSUME TypeInv, NEW h \in Handler, Return(h)
  PROVE  /\ inFlight' \subseteq Name \cup VolId
         /\ pc' \in [Handler -> {"idle", "insert"} \cup Critical]
         /\ req' \in [Handler -> Request \cup {None}]
         /\ vid' \in [Handler -> VolId \cup {None}]
         /\ live' \in [Handler -> BOOLEAN]
         /\ podZone' = podZone => LocalsOK'
BY DEF TypeInv, TypeOK, LocalsOK, CreatePcs, DeletePcs, Critical, Return, Leave, Delete, ZoneId

LEMMA TypeCreate ==
  ASSUME TypeInv, NEW h \in Handler,
         \/ ListByName(h) \/ CreateReplies(h) \/ CreateFails(h)
         \/ WaitVolumeBeCreated(h) \/ WaitVolumeBeAvailable(h)
  PROVE  TypeInv'
<1> USE ProvisionAssumption, TypeReturn DEF TypeInv, TypeOK, LocalsOK, CloudOK, CreatePcs,
        DeletePcs, Critical, cloudVars, wire, history, AnswerError
<1>1. CASE ListByName(h)
  <2> DEFINE found == {v \in listed : attr[v].name = req[h].name}
  <2>1. req[h] \in Request /\ req[h].name \in Name
    BY <1>1, RequestFields DEF ListByName, Found
  <2>2. CASE AnswerError(h)
    BY <1>1, <2>2 DEF ListByName, Found
  <2>3. ASSUME NEW v \in found, AnswerVolume(h, v, attr[v].gb * GB, attr[v].zone)
        PROVE  TypeInv'
    <3>1. v \in VolId /\ attr[v].gb * GB \in Nat /\ attr[v].zone \in Zone
      BY <2>3 DEF Attr
    <3>2. [req |-> req[h], id |-> v, bytes |-> attr[v].gb * GB, zone |-> attr[v].zone] \in Answer
      BY <2>1, <3>1 DEF Answer
    <3> QED BY <1>1, <2>3, <3>2 DEF ListByName, Found, AnswerVolume
  <2>4. CASE /\ ZoneId(req[h]) # NoZone
             /\ pc' = [pc EXCEPT ![h] = "create"]
             /\ UNCHANGED <<inFlight, req, vid, live, history>>
    BY <1>1, <2>1, <2>4 DEF ListByName, Found, ZoneId
  <2> QED BY <1>1, <2>2, <2>3, <2>4 DEF ListByName, Found
<1>2. CASE CreateReplies(h)
  <2>1. Wanted(req[h]) \in Attr
    BY <1>2, WantedAttr DEF CreateReplies
  <2> QED BY <1>2, <2>1 DEF CreateReplies, CloudCreates, Status, ZoneId
<1>3. CASE CreateFails(h)
  <2>1. Wanted(req[h]) \in Attr /\ req[h].name \in Name
    BY <1>3, WantedAttr, RequestFields DEF CreateFails
  <2> QED BY <1>3, <2>1 DEF CreateFails
<1>4. CASE WaitVolumeBeCreated(h)
  <2>1. req[h].name \in Name
    BY <1>4, RequestFields DEF WaitVolumeBeCreated
  <2> QED BY <1>4, <2>1 DEF WaitVolumeBeCreated, ZoneId
<1>5. CASE WaitVolumeBeAvailable(h)
  <2>1. req[h] \in Request /\ vid[h] \in VolId /\ ZoneId(req[h]) # NoZone
    BY <1>5 DEF WaitVolumeBeAvailable
  <2>2. [req |-> req[h], id |-> vid[h], bytes |-> Capacity(req[h]), zone |-> ZoneId(req[h])]
          \in Answer
    BY <2>1, RequestFields DEF Answer, ZoneId
  <2> QED BY <1>5, <2>2 DEF WaitVolumeBeAvailable, AnswerVolume
<1> QED BY <1>1, <1>2, <1>3, <1>4, <1>5

LEMMA TypeDelete ==
  ASSUME TypeInv, NEW h \in Handler,
         FindById(h) \/ DeleteCall(h) \/ WaitVolumeBeDeleted(h) \/ PollFails(h)
  PROVE  TypeInv'
<1> USE ProvisionAssumption, TypeReturn DEF TypeInv, TypeOK, LocalsOK, CloudOK, CreatePcs,
        DeletePcs, Critical, cloudVars, wire, history, AnswerError, AnswerDeleted
<1>1. CASE FindById(h)
  BY <1>1 DEF FindById, ZoneId
<1>2. CASE DeleteCall(h)
  <2>1. status' \in [VolId -> Status] /\ CloudOK'
    BY <1>2 DEF DeleteCall, Status
  <2> QED BY <1>2, <2>1 DEF DeleteCall, ZoneId
<1>3. CASE WaitVolumeBeDeleted(h) \/ PollFails(h)
  BY <1>3 DEF WaitVolumeBeDeleted, PollFails
<1> QED BY <1>1, <1>2, <1>3

LEMMA TypeRestart == ASSUME TypeInv, Restart PROVE TypeInv'
<1>1. ASSUME NEW h \in Handler, pc[h] = "create"
      PROVE  Wanted(req[h]) \in Attr /\ req[h].name \in Name
  BY <1>1, WantedAttr, RequestFields DEF TypeInv, TypeOK, LocalsOK, CreatePcs
<1>2. ASSUME NEW h \in Handler, pc[h] = "waitCreated"
      PROVE  req[h].name \in Name
  BY <1>2, RequestFields DEF TypeInv, TypeOK, LocalsOK, CreatePcs
<1>3. late' \subseteq Attr /\ unsure' \subseteq Name
  BY <1>1, <1>2 DEF Restart, TypeInv, TypeOK
<1> QED BY <1>3, ProvisionAssumption DEF Restart, TypeInv, TypeOK, LocalsOK, CloudOK,
        CreatePcs, DeletePcs, Critical, NewInFlight, cloudVars

LEMMA TypeCloud ==
  ASSUME TypeInv,
         \/ CloudLateCreate \/ CloudLateDelete
         \/ \E v \in VolId : CloudStatus(v) \/ CloudListing(v)
  PROVE  TypeInv'
<1> USE DEF TypeInv, TypeOK, LocalsOK, CloudOK, driverVars, wire, history, ZoneId
<1>1. CASE CloudLateCreate
  BY <1>1 DEF CloudLateCreate, CloudCreates, Status
<1>0. CASE CloudLateDelete
  BY <1>0 DEF CloudLateDelete, Status
<1>2. ASSUME NEW v \in VolId, CloudStatus(v) PROVE TypeInv'
  BY <1>2 DEF CloudStatus, Status
<1>3. ASSUME NEW v \in VolId, CloudListing(v) PROVE TypeInv'
  BY <1>3 DEF CloudListing
<1> QED BY <1>0, <1>1, <1>2, <1>3

LEMMA TypeStutter == ASSUME TypeInv, UNCHANGED vars PROVE TypeInv'
BY DEF TypeInv, TypeOK, LocalsOK, CloudOK, vars, driverVars, cloudVars, wire, history, ZoneId

(* Every variable keeps its type: the locals a handler uses at a point of  *)
(* its code have been set there, so KeyOf, Wanted and the answers are      *)
(* always well formed.                                                     *)
THEOREM TypeCorrect == Spec => [](TypeOK /\ TypeInv)
<1>1. Init => TypeInv
  BY TypeInit
<1>2. TypeInv /\ [Next]_vars => TypeInv'
  BY TypeArrive, TypeCreate, TypeDelete, TypeRestart, TypeCloud, TypeStutter
     DEF Next, HandlerStep, Proceed
<1>3. TypeInv => TypeOK
  BY DEF TypeInv
<1> QED BY <1>1, <1>2, <1>3, PTL DEF Spec
-----------------------------------------------------------------------------
(* The in-flight table. *)

(* A step that leaves the table alone and no handler's place in it. *)
LEMMA KeysKept ==
  ASSUME TypeInv, KeysExact, UNCHANGED inFlight, Busy' = Busy,
         \A h \in Busy : KeyOf(h)' = KeyOf(h)
  PROVE  KeysExact'
BY DEF KeysExact

LEMMA KeysReturned ==
  ASSUME TypeInv, KeysExact, NEW h \in Busy, Return(h)
  PROVE  KeysExact' /\ Busy' = Busy \ {h} /\ \A g \in Busy \ {h} : KeyOf(g)' = KeyOf(g)
<1>1. Busy' = Busy \ {h}
  BY DEF Return, Leave, Busy, Critical, TypeInv, TypeOK
<1>2. \A g \in Busy \ {h} : KeyOf(g)' = KeyOf(g)
  BY DEF Return, Leave, Busy, KeyOf, TypeInv, TypeOK
<1>3. inFlight' = inFlight \ {KeyOf(h)}
  BY DEF Return, Delete
<1> QED BY <1>1, <1>2, <1>3 DEF KeysExact

(* How a step changes the set of busy handlers and their keys: one enters  *)
(* with a free key, one leaves, all leave, or nobody moves.                *)
Enters(h) == /\ h \notin Busy /\ KeyOf(h) \notin inFlight
             /\ KeyOf(h)' = KeyOf(h) /\ KeyOf(h) \in Name \cup VolId
             /\ Busy' = Busy \cup {h} /\ inFlight' = inFlight \cup {KeyOf(h)}
             /\ \A g \in Busy : KeyOf(g)' = KeyOf(g)
Leaves(h) == h \in Busy /\ Return(h)
AllLeave  == Busy' = {} /\ inFlight' = {}
NoneMoves == UNCHANGED inFlight /\ Busy' = Busy /\ \A h \in Busy : KeyOf(h)' = KeyOf(h)

LEMMA KeysEntered ==
  ASSUME TypeInv, NEW h \in Handler, InsertKey(h)
  PROVE  Enters(h)
<1> USE DEF TypeInv, TypeOK, LocalsOK
<1>1. KeyOf(h) \in Name \cup VolId
  BY RequestFields, ProvisionAssumption DEF InsertKey, KeyOf
<1>2. Busy' = Busy \cup {h} /\ h \notin Busy
  BY DEF InsertKey, Busy, Critical
<1> QED BY <1>1, <1>2 DEF Enters, InsertKey, CanInsert, Insert, KeyOf

LEMMA StepKinds ==
  ASSUME TypeInv, [Next]_vars
  PROVE  NoneMoves \/ AllLeave \/ \E h \in Handler : Enters(h) \/ Leaves(h)
<1> USE DEF TypeInv, TypeOK, LocalsOK, CreatePcs, DeletePcs, Critical, Busy, KeyOf,
            driverVars, cloudVars, wire, history
<1>1. ASSUME NEW h \in Handler, BeginCreate(h) \/ BeginDelete(h) \/ Abort(h) \/ Deadline(h)
      PROVE  NoneMoves
  BY <1>1 DEF NoneMoves, BeginCreate, BeginDelete, Begin, Abort, Leave, Deadline
<1>2. ASSUME NEW h \in Handler, InsertKey(h) PROVE Enters(h)
  BY <1>2, KeysEntered
<1>3. ASSUME NEW h \in Handler, ListByName(h) PROVE NoneMoves \/ Leaves(h)
  BY <1>3 DEF ListByName, Found, AnswerError, AnswerVolume, NoneMoves, Leaves
<1>4. ASSUME NEW h \in Handler, CreateReplies(h) PROVE NoneMoves
  BY <1>4, ProvisionAssumption DEF CreateReplies, NoneMoves
<1>5. ASSUME NEW h \in Handler, CreateFails(h) PROVE Leaves(h)
  BY <1>5 DEF CreateFails, Leaves
<1>6. ASSUME NEW h \in Handler, WaitVolumeBeCreated(h) \/ WaitVolumeBeAvailable(h)
      PROVE  NoneMoves \/ Leaves(h)
  BY <1>6 DEF WaitVolumeBeCreated, WaitVolumeBeAvailable, AnswerError, AnswerVolume,
              NoneMoves, Leaves
<1>7. ASSUME NEW h \in Handler,
             FindById(h) \/ DeleteCall(h) \/ WaitVolumeBeDeleted(h) \/ PollFails(h)
      PROVE  NoneMoves \/ Leaves(h)
  BY <1>7 DEF FindById, DeleteCall, WaitVolumeBeDeleted, PollFails, AnswerError, AnswerDeleted,
              NoneMoves, Leaves
<1>8. CASE Restart
  BY <1>8 DEF Restart, AllLeave, NewInFlight
<1>9. CASE CloudLateCreate \/ CloudLateDelete \/ \E v \in VolId : CloudStatus(v) \/ CloudListing(v)
  BY <1>9 DEF CloudLateCreate, CloudLateDelete, CloudStatus, CloudListing, NoneMoves
<1>10. CASE UNCHANGED vars
  BY <1>10 DEF vars, NoneMoves
<1> QED BY <1>1, <1>2, <1>3, <1>4, <1>5, <1>6, <1>7, <1>8, <1>9, <1>10 DEF Next, HandlerStep, Proceed

LEMMA KeysStep == ASSUME TypeInv, KeysExact, [Next]_vars PROVE KeysExact'
<1>1. CASE NoneMoves
  BY <1>1, KeysKept DEF NoneMoves
<1>2. CASE AllLeave
  BY <1>2 DEF AllLeave, KeysExact
<1>3. ASSUME NEW h \in Handler, Enters(h) PROVE KeysExact'
  BY <1>3 DEF Enters, KeysExact
<1>4. ASSUME NEW h \in Handler, Leaves(h) PROVE KeysExact'
  BY <1>4, KeysReturned DEF Leaves
<1> QED BY <1>1, <1>2, <1>3, <1>4, StepKinds

(* The table never loses a running handler's key nor keeps a finished one, *)
(* so a key is in the table exactly while one handler works on it.         *)
THEOREM InFlightExact == Spec => []KeysExact
<1>1. Init => KeysExact
  BY DEF Init, KeysExact, Busy, Critical, NewInFlight
<1>2. TypeInv /\ KeysExact /\ [Next]_vars => KeysExact'
  BY KeysStep
<1> QED BY <1>1, <1>2, TypeCorrect, PTL DEF Spec

(* The handlers implement the abstract exclusion: under the refinement     *)
(* mapping every step starts one operation on a free key, ends one, ends   *)
(* them all, or changes nothing.                                           *)
THEOREM ExclusionRefined == Spec => ImplementsExclusion
<1>1. Init => Exclusive!Init
  BY DEF Init, Exclusive!Init, HeldKey, Busy, Critical
<1>2. ASSUME TypeInv, KeysExact, [Next]_vars
      PROVE  [Exclusive!Next]_HeldKey
  <2>0. \A h \in Busy : KeyOf(h) # None /\ KeyOf(h) \in Name \cup VolId
    BY <1>2, RequestFields, ProvisionAssumption
       DEF TypeInv, TypeOK, LocalsOK, Busy, Critical, CreatePcs, DeletePcs, KeyOf
  <2>1. CASE NoneMoves
    BY <2>1 DEF NoneMoves, HeldKey
  <2>2. CASE AllLeave
    BY <2>2 DEF AllLeave, HeldKey, Exclusive!Next, Exclusive!Crash
  <2>3. ASSUME NEW h \in Handler, Enters(h) PROVE Exclusive!Next
    <3>1. HeldKey' = [HeldKey EXCEPT ![h] = KeyOf(h)]
      BY <2>3 DEF Enters, HeldKey
    <3>2. HeldKey[h] = None
      BY <2>3 DEF Enters, HeldKey
    <3>3. \A g \in Handler : HeldKey[g] # KeyOf(h)
      BY <1>2, <2>3, ProvisionAssumption DEF Enters, HeldKey, KeysExact
    <3>4. KeyOf(h) \in Name \cup VolId
      BY <2>3 DEF Enters
    <3> QED BY <3>1, <3>2, <3>3, <3>4 DEF Exclusive!Next, Exclusive!Start
  <2>4. ASSUME NEW h \in Handler, Leaves(h) PROVE Exclusive!Next
    <3>1. Busy' = Busy \ {h} /\ \A g \in Busy \ {h} : KeyOf(g)' = KeyOf(g)
      BY <1>2, <2>4, KeysReturned DEF Leaves
    <3>2. HeldKey' = [HeldKey EXCEPT ![h] = None]
      BY <3>1 DEF HeldKey, Busy
    <3>3. HeldKey[h] # None
      BY <2>0, <2>4 DEF HeldKey, Leaves
    <3> QED BY <3>2, <3>3 DEF Exclusive!Next, Exclusive!Finish
  <2> QED BY <1>2, <2>1, <2>2, <2>3, <2>4, StepKinds
<1> QED BY <1>1, <1>2, TypeCorrect, InFlightExact, PTL DEF Spec, ImplementsExclusion, Exclusive!Spec
-----------------------------------------------------------------------------
(* Duplicate volumes. *)

(* OneVolumePerName is not inductive: a create call that is about to be    *)
(* sent must know that the name is still free, every request that may be   *)
(* carried out late must be one of an unsure name, and a volume no listing *)
(* shows yet must be one whose creator still waits and so holds its name.  *)
LateUnsure == \A a \in late : a.name \in unsure

CreatorAlone ==
  \A h \in Handler, v \in VolId :
    (pc[h] = "create" /\ LiveVol(v) /\ attr[v].name = req[h].name)
      => req[h].name \in unsure

Awaited(v) == \E h \in Handler : /\ pc[h] = "waitCreated" /\ vid[h] = v
                                 /\ req[h].name = attr[v].name

UnlistedAwaited ==
  \A v \in VolId : (LiveVol(v) /\ v \notin listed) => (attr[v].name \in unsure \/ Awaited(v))

DupInv == LateUnsure /\ CreatorAlone /\ UnlistedAwaited /\ OneVolumePerName

(* The parts of the state DupInv reads, except for the handler that moves. *)
LEMMA DupFrame ==
  ASSUME TypeInv, DupInv, NEW h \in Handler,
         UNCHANGED <<attr, listed, late>>, unsure \subseteq unsure',
         \A v \in VolId : LiveVol(v)' => LiveVol(v),
         \A g \in Handler \ {h} : pc'[g] = pc[g] /\ req'[g] = req[g] /\ vid'[g] = vid[g],
         pc'[h] # "create",
         pc[h] = "waitCreated" => (vid[h] \in listed \/ req[h].name \in unsure')
  PROVE  DupInv'
<1> USE DEF DupInv, TypeInv, TypeOK
<1>1. LateUnsure'
  BY DEF LateUnsure
<1>2. CreatorAlone'
  BY DEF CreatorAlone
<1>3. UnlistedAwaited'
  <2> SUFFICES ASSUME NEW v \in VolId, LiveVol(v)', v \notin listed, attr[v].name \notin unsure'
               PROVE  Awaited(v)'
    BY DEF UnlistedAwaited
  <2>1. PICK g \in Handler : pc[g] = "waitCreated" /\ vid[g] = v /\ req[g].name = attr[v].name
    BY DEF UnlistedAwaited, Awaited
  <2>2. g # h
    BY <2>1
  <2> QED BY <2>1, <2>2 DEF Awaited
<1>4. OneVolumePerName'
  BY DEF OneVolumePerName
<1> QED BY <1>1, <1>2, <1>3, <1>4

(* A handler that returns from any point but the two that leave the        *)
(* outcome of a creation open. *)
LEMMA DupReturn ==
  ASSUME TypeInv, DupInv, NEW h \in Handler, Return(h), pc[h] # "waitCreated",
         UNCHANGED <<attr, listed, late, unsure>>, \A v \in VolId : LiveVol(v)' => LiveVol(v)
  PROVE  DupInv'
BY DupFrame DEF Return, Leave, TypeInv, TypeOK

LEMMA DupArrive ==
  ASSUME TypeInv, DupInv, NEW h \in Handler,
         BeginCreate(h) \/ BeginDelete(h) \/ InsertKey(h) \/ Abort(h) \/ Deadline(h)
  PROVE  DupInv'
<1> USE DEF TypeInv, TypeOK, cloudVars, wire, history, LiveVol
<1>1. CASE BeginCreate(h) \/ BeginDelete(h) \/ InsertKey(h) \/ Abort(h)
  BY <1>1, DupFrame DEF BeginCreate, BeginDelete, Begin, InsertKey, Abort, Leave
<1>2. CASE Deadline(h)
  BY <1>2 DEF Deadline, DupInv, LateUnsure, CreatorAlone, UnlistedAwaited, Awaited,
              OneVolumePerName
<1> QED BY <1>1, <1>2

(* VolumeByName found nothing while the handler held the name: a volume of *)
(* that name would be listed, or awaited by a second holder of the name.   *)
LEMMA DupList ==
  ASSUME TypeInv, KeysExact, DupInv, NEW h \in Handler, ListByName(h)
  PROVE  DupInv'
<1> USE DEF ListByName, Found, cloudVars, wire, history, LiveVol
<1>1. CASE Return(h) /\ UNCHANGED unsure
  BY <1>1, DupReturn
<1>2. CASE /\ {v \in listed : attr[v].name = req[h].name} = {}
           /\ pc' = [pc EXCEPT ![h] = "create"]
           /\ UNCHANGED <<inFlight, req, vid, live, history>>
  <2> USE DEF DupInv, TypeInv, TypeOK
  <2>1. ASSUME NEW v \in VolId, LiveVol(v), attr[v].name = req[h].name
        PROVE  req[h].name \in unsure
    <3>1. v \notin listed
      BY <1>2, <2>1
    <3>2. ASSUME NEW g \in Handler, pc[g] = "waitCreated", req[g].name = attr[v].name
          PROVE  FALSE
      <4>1. KeyOf(g) = KeyOf(h) /\ g \in Busy /\ h \in Busy
        BY <2>1, <3>2, ProvisionAssumption
           DEF KeyOf, Busy, Critical, LocalsOK, CreatePcs
      <4> QED BY <3>2, <4>1 DEF KeysExact
    <3> QED BY <2>1, <3>1, <3>2 DEF UnlistedAwaited, Awaited
  <2>2. CreatorAlone'
    BY <1>2, <2>1 DEF CreatorAlone
  <2>3. UnlistedAwaited'
    BY <1>2 DEF UnlistedAwaited, Awaited
  <2> QED BY <1>2, <2>2, <2>3 DEF LateUnsure, OneVolumePerName
<1> QED BY <1>1, <1>2 DEF AnswerError, AnswerVolume

(* The cloud takes the request of the only handler that holds the name. *)
LEMMA DupCreate ==
  ASSUME TypeInv, KeysExact, DupInv, NEW h \in Handler, CreateReplies(h)
  PROVE  DupInv'
<1> USE DEF DupInv, TypeInv, TypeOK
<1>1. PICK u \in VolId : CloudCreates(u, Wanted(req[h])) /\ vid' = [vid EXCEPT ![h] = u]
  BY DEF CreateReplies
<1>2. /\ req[h] \in Request
      /\ Wanted(req[h]).name = req[h].name
  BY WantedAttr DEF CreateReplies, LocalsOK, CreatePcs
<1>3. /\ status'[u] = "creating" /\ attr'[u].name = req[h].name
      /\ \A v \in VolId \ {u} : status'[v] = status[v] /\ attr'[v] = attr[v]
      /\ ~LiveVol(u)
  BY <1>1, <1>2 DEF CloudCreates, LiveVol
<1>4. /\ pc'[h] = "waitCreated" /\ req' = req /\ vid'[h] = u
      /\ \A g \in Handler \ {h} : pc'[g] = pc[g] /\ vid'[g] = vid[g]
      /\ UNCHANGED <<listed, late, unsure>>
  BY <1>1 DEF CreateReplies, CloudCreates, wire, history
<1>5. LateUnsure'
  BY <1>4 DEF LateUnsure
<1>6. CreatorAlone'
  <2> SUFFICES ASSUME NEW g \in Handler, NEW v \in VolId, pc'[g] = "create", LiveVol(v)',
                      attr'[v].name = req[g].name
               PROVE  req[g].name \in unsure
    BY <1>4 DEF CreatorAlone
  <2>1. g # h
    BY <1>4
  <2>2. CASE v = u
    <3>1. KeyOf(g) = KeyOf(h) /\ g \in Busy /\ h \in Busy
      BY <1>2, <1>3, <1>4, <2>1, <2>2, ProvisionAssumption
         DEF KeyOf, Busy, Critical, LocalsOK, CreatePcs, CreateReplies
    <3> QED BY <2>1, <3>1 DEF KeysExact
  <2>3. CASE v # u
    BY <1>3, <1>4, <2>1, <2>3 DEF CreatorAlone, LiveVol
  <2> QED BY <2>2, <2>3
<1>7. UnlistedAwaited'
  <2> SUFFICES ASSUME NEW v \in VolId, LiveVol(v)', v \notin listed, attr'[v].name \notin unsure
               PROVE  Awaited(v)'
    BY <1>4 DEF UnlistedAwaited
  <2>1. CASE v = u
    BY <1>3, <1>4, <2>1 DEF Awaited
  <2>2. CASE v # u
    <3>1. PICK g \in Handler : pc[g] = "waitCreated" /\ vid[g] = v /\ req[g].name = attr[v].name
      BY <1>3, <2>2 DEF UnlistedAwaited, Awaited, LiveVol
    <3>2. g # h
      BY <3>1 DEF CreateReplies
    <3> QED BY <1>3, <1>4, <2>2, <3>1, <3>2 DEF Awaited
  <2> QED BY <2>1, <2>2
<1>8. OneVolumePerName'
  <2>1. \A v \in VolId : (LiveVol(v) /\ attr[v].name = req[h].name) => req[h].name \in unsure
    BY DEF CreatorAlone, CreateReplies
  <2> QED BY <1>3, <1>4, <2>1 DEF OneVolumePerName, LiveVol
<1> QED BY <1>5, <1>6, <1>7, <1>8

LEMMA DupCreateFails ==
  ASSUME TypeInv, DupInv, NEW h \in Handler, CreateFails(h)
  PROVE  DupInv'
<1> USE DEF CreateFails, cloudVars
<1>1. CASE UNCHANGED <<late, unsure>>
  BY <1>1, DupReturn DEF LiveVol
<1>2. CASE late' = late \cup {Wanted(req[h])} /\ unsure' = unsure \cup {req[h].name}
  <2> USE DEF DupInv, TypeInv, TypeOK, Return, Leave
  <2>1. LateUnsure'
    <3>1. Wanted(req[h]).name = req[h].name
      BY WantedAttr DEF LocalsOK, CreatePcs
    <3> QED BY <1>2, <3>1 DEF LateUnsure
  <2>2. CreatorAlone'
    BY <1>2 DEF CreatorAlone, LiveVol
  <2>3. UnlistedAwaited'
    <3> SUFFICES ASSUME NEW v \in VolId, LiveVol(v), v \notin listed, attr[v].name \notin unsure'
                 PROVE  Awaited(v)'
      BY <1>2 DEF UnlistedAwaited, LiveVol
    <3>1. PICK g \in Handler : pc[g] = "waitCreated" /\ vid[g] = v /\ req[g].name = attr[v].name
      BY <1>2 DEF UnlistedAwaited, Awaited
    <3>2. g # h
      BY <3>1
    <3> QED BY <3>1, <3>2 DEF Awaited
  <2>4. OneVolumePerName'
    BY <1>2 DEF OneVolumePerName, LiveVol
  <2> QED BY <2>1, <2>2, <2>3, <2>4
<1> QED BY <1>1, <1>2

LEMMA DupWait ==
  ASSUME TypeInv, DupInv, NEW h \in Handler,
         WaitVolumeBeCreated(h) \/ WaitVolumeBeAvailable(h)
  PROVE  DupInv'
<1> USE DEF TypeInv, TypeOK, cloudVars, wire, history, LiveVol
<1>1. CASE WaitVolumeBeCreated(h)
  <2>1. CASE Visible(vid[h]) /\ pc' = [pc EXCEPT ![h] = "waitAvailable"]
             /\ UNCHANGED <<inFlight, req, vid, live, unsure>>
    BY <1>1, <2>1, DupFrame DEF WaitVolumeBeCreated, Visible
  <2>2. CASE /\ Return(h)
             /\ unsure' = IF vid[h] \in listed THEN unsure ELSE unsure \cup {req[h].name}
    BY <1>1, <2>2, DupFrame DEF WaitVolumeBeCreated, Return, Leave
  <2> QED BY <1>1, <2>1, <2>2 DEF WaitVolumeBeCreated
<1>2. CASE WaitVolumeBeAvailable(h)
  BY <1>2, DupReturn DEF WaitVolumeBeAvailable, AnswerError, AnswerVolume
<1> QED BY <1>1, <1>2

LEMMA DupDelete ==
  ASSUME TypeInv, DupInv, NEW h \in Handler,
         FindById(h) \/ DeleteCall(h) \/ WaitVolumeBeDeleted(h) \/ PollFails(h)
  PROVE  DupInv'
<1> USE DEF AnswerError, AnswerDeleted, cloudVars, wire, history
<1>1. \A v \in VolId : LiveVol(v)' => LiveVol(v)
  BY DEF FindById, DeleteCall, WaitVolumeBeDeleted, PollFails, LiveVol, TypeInv, TypeOK
<1>2. CASE Return(h) /\ UNCHANGED unsure
  BY <1>1, <1>2, DupReturn DEF FindById, DeleteCall, WaitVolumeBeDeleted, PollFails
<1>3. CASE pc' \in {[pc EXCEPT ![h] = "delete"], [pc EXCEPT ![h] = "waitDeleted"]}
           /\ UNCHANGED <<inFlight, req, vid, live, history>>
  BY <1>1, <1>3, DupFrame DEF FindById, DeleteCall, WaitVolumeBeDeleted, PollFails, TypeInv, TypeOK
<1> QED BY <1>2, <1>3 DEF FindById, DeleteCall, WaitVolumeBeDeleted, PollFails

LEMMA DupRestart == ASSUME TypeInv, DupInv, Restart PROVE DupInv'
<1> USE DEF DupInv, TypeInv, TypeOK, Restart, cloudVars
<1>1. \A h \in Handler : pc[h] = "create" => Wanted(req[h]).name = req[h].name
  BY WantedAttr DEF LocalsOK, CreatePcs
<1>2. LateUnsure'
  BY <1>1 DEF LateUnsure
<1>3. CreatorAlone'
  BY DEF CreatorAlone
<1>4. UnlistedAwaited'
  BY DEF UnlistedAwaited, Awaited, LiveVol
<1>5. OneVolumePerName'
  BY DEF OneVolumePerName, LiveVol
<1> QED BY <1>2, <1>3, <1>4, <1>5

LEMMA DupCloud ==
  ASSUME TypeInv, DupInv,
         \/ CloudLateCreate \/ CloudLateDelete
         \/ \E v \in VolId : CloudStatus(v) \/ CloudListing(v)
  PROVE  DupInv'
<1> USE DEF DupInv, TypeInv, TypeOK, driverVars, wire, history, LateUnsure, CreatorAlone,
            UnlistedAwaited, Awaited, OneVolumePerName, LiveVol
<1>1. CASE CloudLateCreate
  BY <1>1 DEF CloudLateCreate, CloudCreates
<1>0. CASE CloudLateDelete
  BY <1>0 DEF CloudLateDelete
<1>2. ASSUME NEW v \in VolId, CloudStatus(v) PROVE DupInv'
  BY <1>2 DEF CloudStatus
<1>3. ASSUME NEW v \in VolId, CloudListing(v) PROVE DupInv'
  BY <1>3 DEF CloudListing
<1> QED BY <1>0, <1>1, <1>2, <1>3

LEMMA DupStep == ASSUME TypeInv, KeysExact, DupInv, [Next]_vars PROVE DupInv'
<1>1. CASE UNCHANGED vars
  BY <1>1 DEF vars, driverVars, cloudVars, wire, history, DupInv, LateUnsure, CreatorAlone,
              UnlistedAwaited, Awaited, OneVolumePerName, LiveVol
<1> QED BY <1>1, DupArrive, DupList, DupCreate, DupCreateFails, DupWait, DupDelete, DupRestart,
           DupCloud DEF Next, HandlerStep, Proceed

(* Two volumes of one name appear only after a create call for the name    *)
(* has ended without having seen its volume listed: whatever the           *)
(* interleaving of handlers, retries, deadlines, restarts and cloud delays.*)
THEOREM NoOtherDuplicates == Spec => []OneVolumePerName
<1>1. Init => DupInv
  BY DEF Init, DupInv, LateUnsure, CreatorAlone, UnlistedAwaited, OneVolumePerName, LiveVol
<1>2. TypeInv /\ KeysExact /\ DupInv /\ [Next]_vars => DupInv'
  BY DupStep
<1>3. DupInv => OneVolumePerName
  BY DEF DupInv
<1> QED BY <1>1, <1>2, <1>3, TypeCorrect, InFlightExact, PTL DEF Spec
-----------------------------------------------------------------------------
(* What a step changes of the cloud, of a handler and of the answers.      *)

(* Once the cloud has taken a volume on, its attributes never change.      *)
AttrsStay ==
  \A v \in VolId : status[v] # "none" => status'[v] # "none" /\ attr'[v] = attr[v]

(* A volume its caller knows of is listed until it is deleted, so "not     *)
(* found" can be taken for "deleted" where the id came from a caller. *)
Known(v) == v \in listed \/ status[v] = "deleted"

KnownStays ==
  \A v \in VolId : /\ Known(v) => Known(v)'
                   /\ status[v] = "deleted" => status'[v] = "deleted"

LEMMA CloudFrame ==
  ASSUME TypeInv, UNCHANGED cloudVars
  PROVE  AttrsStay /\ KnownStays
BY DEF cloudVars, AttrsStay, KnownStays, Known

LEMMA CloudTaken ==
  ASSUME TypeInv, NEW u \in VolId, NEW a, CloudCreates(u, a)
  PROVE  AttrsStay /\ KnownStays
BY DEF CloudCreates, AttrsStay, KnownStays, Known, TypeInv, TypeOK

LEMMA CloudMoved ==
  ASSUME TypeInv, NEW u \in VolId, NEW s \in Status \ {"none"}, status[u] # "deleted",
         status' = [status EXCEPT ![u] = s], UNCHANGED <<attr, listed>>
  PROVE  AttrsStay /\ KnownStays
BY DEF AttrsStay, KnownStays, Known, TypeInv, TypeOK

LEMMA CloudForward == ASSUME TypeInv, [Next]_vars PROVE AttrsStay /\ KnownStays
<1> USE DEF TypeInv, TypeOK
<1>1. ASSUME NEW h \in Handler,
             \/ BeginCreate(h) \/ BeginDelete(h) \/ Deadline(h) \/ InsertKey(h) \/ Abort(h)
             \/ ListByName(h) \/ CreateFails(h) \/ WaitVolumeBeCreated(h)
             \/ WaitVolumeBeAvailable(h) \/ FindById(h) \/ WaitVolumeBeDeleted(h) \/ PollFails(h)
      PROVE  UNCHANGED cloudVars
  BY <1>1 DEF BeginCreate, BeginDelete, Begin, Deadline, InsertKey, Abort, ListByName,
              CreateFails, WaitVolumeBeCreated, WaitVolumeBeAvailable, FindById,
              WaitVolumeBeDeleted, PollFails
<1>2. CASE Restart \/ UNCHANGED vars
  BY <1>2, CloudFrame DEF Restart, vars
<1>3. CASE CloudLateCreate \/ \E h \in Handler : CreateReplies(h)
  BY <1>3, CloudTaken DEF CloudLateCreate, CreateReplies
<1>4. ASSUME NEW h \in Handler, DeleteCall(h) PROVE AttrsStay /\ KnownStays
  <2>1. CASE UNCHANGED status
    BY <1>4, <2>1, CloudFrame DEF DeleteCall, cloudVars
  <2>2. CASE /\ status[vid[h]] \in {"available", "deleting"}
             /\ status' = [status EXCEPT ![vid[h]] = "deleting"]
    <3>1. vid[h] \in VolId
      BY <1>4 DEF DeleteCall, LocalsOK, DeletePcs
    <3> QED BY <1>4, <2>2, <3>1, CloudMoved DEF DeleteCall, Status
  <2> QED BY <1>4, <2>1, <2>2 DEF DeleteCall
<1>5. CASE CloudLateDelete
  <2>1. PICK v \in lateDelete : status[v] = "available" /\ status' = [status EXCEPT ![v] = "deleting"]
    BY <1>5 DEF CloudLateDelete
  <2> QED BY <1>5, <2>1, CloudMoved DEF CloudLateDelete, Status
<1>6. ASSUME NEW v \in VolId, CloudStatus(v) PROVE AttrsStay /\ KnownStays
  <2>1. PICK s \in {"available", "failed", "deleted"} :
          status[v] \in {"creating", "deleting"} /\ status' = [status EXCEPT ![v] = s]
    BY <1>6 DEF CloudStatus
  <2> QED BY <1>6, <2>1, CloudMoved DEF CloudStatus, Status
<1>7. ASSUME NEW v \in VolId, CloudListing(v) PROVE AttrsStay /\ KnownStays
  BY <1>7 DEF CloudListing, AttrsStay, KnownStays, Known
<1> QED BY <1>1, <1>2, <1>3, <1>4, <1>5, <1>6, <1>7, CloudFrame DEF Next, HandlerStep, Proceed

(* A handler stays where it is, begins, goes on with what it has, has its  *)
(* volume created, or is over.                                             *)
Stays(g) == pc'[g] = pc[g] /\ req'[g] = req[g] /\ vid'[g] = vid[g]
Begins(g) == /\ pc'[g] = "insert"
             /\ req'[g] = None => \E a \in told : vid'[g] = a.id
ToNext == {<<"list", "create">>, <<"waitCreated", "waitAvailable">>,
           <<"find", "delete">>, <<"delete", "waitDeleted">>}
GoesOn(g) ==
  /\ \/ pc[g] = "insert" /\ pc'[g] = (IF req[g] # None THEN "list" ELSE "find")
     \/ <<pc[g], pc'[g]>> \in ToNext
  /\ req'[g] = req[g] /\ vid'[g] = vid[g]
HandlerMoves ==
  \A g \in Handler : Stays(g) \/ Begins(g) \/ GoesOn(g) \/ CreateReplies(g) \/ pc'[g] = "idle"

(* An action of one handler leaves the others alone.                       *)
LEMMA OneMoves ==
  ASSUME TypeInv, NEW h \in Handler, NEW p, NEW r, NEW i,
         pc' = [pc EXCEPT ![h] = p], req' = [req EXCEPT ![h] = r], vid' = [vid EXCEPT ![h] = i],
         \/ p = "insert" /\ (r = None => \E a \in told : i = a.id)
         \/ pc[h] = "insert" /\ p = (IF req[h] # None THEN "list" ELSE "find")
              /\ r = req[h] /\ i = vid[h]
         \/ <<pc[h], p>> \in ToNext /\ r = req[h] /\ i = vid[h]
         \/ CreateReplies(h)
         \/ p = "idle"
  PROVE  HandlerMoves
<1>1. pc'[h] = p /\ req'[h] = r /\ vid'[h] = i
  BY DEF TypeInv, TypeOK
<1>2. \A g \in Handler \ {h} : Stays(g)
  BY DEF TypeInv, TypeOK, Stays
<1>3. Begins(h) \/ GoesOn(h) \/ CreateReplies(h) \/ pc'[h] = "idle"
  BY <1>1 DEF Begins, GoesOn
<1> QED BY <1>2, <1>3 DEF HandlerMoves

LEMMA MovesOn ==
  ASSUME TypeInv, NEW h \in Handler, NEW p, pc' = [pc EXCEPT ![h] = p], UNCHANGED <<req, vid>>,
         \/ pc[h] = "insert" /\ p = (IF req[h] # None THEN "list" ELSE "find")
         \/ <<pc[h], p>> \in ToNext
  PROVE  HandlerMoves
<1>1. pc'[h] = p /\ \A g \in Handler \ {h} : pc'[g] = pc[g]
  BY DEF TypeInv, TypeOK
<1>2. GoesOn(h)
  BY <1>1 DEF GoesOn
<1>3. \A g \in Handler \ {h} : Stays(g)
  BY <1>1 DEF Stays
<1> QED BY <1>2, <1>3 DEF HandlerMoves

LEMMA MovesNone == ASSUME UNCHANGED <<pc, req, vid>> PROVE HandlerMoves
BY DEF HandlerMoves, Stays

LEMMA HandlerSteps == ASSUME TypeInv, [Next]_vars PROVE HandlerMoves
<1>1. ASSUME NEW h \in Handler, Leave(h) PROVE HandlerMoves
  BY <1>1, OneMoves DEF Leave
<1>2. ASSUME NEW h \in Handler, BeginCreate(h) PROVE HandlerMoves
  <2>1. PICK r \in Request : Begin(h, r, None)
    BY <1>2 DEF BeginCreate
  <2> QED BY <2>1, OneMoves, ProvisionAssumption DEF Begin
<1>3. ASSUME NEW h \in Handler, BeginDelete(h) PROVE HandlerMoves
  <2>1. PICK a \in told : Begin(h, None, a.id)
    BY <1>3 DEF BeginDelete
  <2> QED BY <2>1, OneMoves DEF Begin
<1>4. ASSUME NEW h \in Handler, InsertKey(h) PROVE HandlerMoves
  BY <1>4, MovesOn DEF InsertKey
<1>5. ASSUME NEW h \in Handler, CreateReplies(h) PROVE HandlerMoves
  <2>1. PICK v \in VolId : vid' = [vid EXCEPT ![h] = v]
    BY <1>5 DEF CreateReplies
  <2>2. req' = [req EXCEPT ![h] = req[h]]
    BY <1>5 DEF CreateReplies, TypeInv, TypeOK
  <2> QED BY <1>5, <2>1, <2>2, OneMoves DEF CreateReplies
<1>6. ASSUME NEW h \in Handler,
             \/ Abort(h) \/ ListByName(h) \/ CreateFails(h) \/ WaitVolumeBeCreated(h)
             \/ WaitVolumeBeAvailable(h) \/ FindById(h) \/ DeleteCall(h) \/ WaitVolumeBeDeleted(h)
             \/ PollFails(h)
      PROVE  \/ Leave(h)
             \/ \E p : /\ pc' = [pc EXCEPT ![h] = p] /\ <<pc[h], p>> \in ToNext
                       /\ UNCHANGED <<req, vid>>
  <2>1. CASE \/ Abort(h) \/ CreateFails(h) \/ WaitVolumeBeAvailable(h) \/ WaitVolumeBeDeleted(h)
             \/ PollFails(h)
    BY <2>1 DEF Abort, PollFails, CreateFails, WaitVolumeBeAvailable, WaitVolumeBeDeleted, AnswerError,
                AnswerVolume, AnswerDeleted, Return
  <2>2. CASE ListByName(h)
    BY <2>2 DEF ListByName, AnswerError, AnswerVolume, Return, ToNext
  <2>3. CASE WaitVolumeBeCreated(h)
    BY <2>3 DEF WaitVolumeBeCreated, Return, ToNext
  <2>4. CASE FindById(h)
    BY <2>4 DEF FindById, AnswerError, AnswerDeleted, Return, ToNext
  <2>5. CASE DeleteCall(h)
    BY <2>5 DEF DeleteCall, AnswerError, AnswerDeleted, Return, ToNext
  <2> QED BY <1>6, <2>1, <2>2, <2>3, <2>4, <2>5
<1>7. CASE Restart
  BY <1>7 DEF Restart, HandlerMoves
<1>8. CASE \/ CloudLateCreate \/ CloudLateDelete \/ UNCHANGED vars
           \/ \E h \in Handler : Deadline(h)
           \/ \E v \in VolId : CloudStatus(v) \/ CloudListing(v)
  BY <1>8, MovesNone DEF CloudLateCreate, CloudLateDelete, CloudStatus, CloudListing, Deadline,
                         vars, driverVars
<1> QED BY <1>1, <1>2, <1>3, <1>4, <1>5, <1>6, <1>7, <1>8, MovesOn DEF Next, HandlerStep, Proceed

(* The plugin moves to another zone only when it is restarted.             *)
LEMMA PodZoneStays ==
  ASSUME [Next]_vars, NEW g \in Handler, pc'[g] # "idle"
  PROVE  podZone' = podZone
<1>1. CASE Restart
  BY <1>1 DEF Restart
<1>2. ASSUME NEW h \in Handler,
             \/ BeginCreate(h) \/ BeginDelete(h) \/ Deadline(h) \/ InsertKey(h) \/ Abort(h)
             \/ ListByName(h) \/ CreateReplies(h) \/ CreateFails(h) \/ WaitVolumeBeCreated(h)
             \/ WaitVolumeBeAvailable(h) \/ FindById(h) \/ DeleteCall(h) \/ WaitVolumeBeDeleted(h)
             \/ PollFails(h)
      PROVE  podZone' = podZone
  BY <1>2 DEF BeginCreate, BeginDelete, Begin, Deadline, InsertKey, Abort, ListByName,
       CreateReplies, CreateFails, WaitVolumeBeCreated, WaitVolumeBeAvailable, FindById,
       DeleteCall, WaitVolumeBeDeleted, PollFails
<1>3. CASE \/ CloudLateCreate \/ CloudLateDelete \/ UNCHANGED vars
           \/ \E v \in VolId : CloudStatus(v) \/ CloudListing(v)
  BY <1>3 DEF CloudLateCreate, CloudLateDelete, CloudStatus, CloudListing, vars
<1> QED BY <1>1, <1>2, <1>3 DEF Next, HandlerStep, Proceed

(* Only two steps give a volume to a caller, and three confirm a deletion. *)
LEMMA HistorySteps ==
  ASSUME [Next]_vars
  PROVE  /\ told' = told \/ \E h \in Handler : ListByName(h) \/ WaitVolumeBeAvailable(h)
         /\ gone' = gone \/ \E h \in Handler : FindById(h) \/ DeleteCall(h) \/ WaitVolumeBeDeleted(h)
<1> USE DEF history
<1>1. ASSUME NEW h \in Handler,
             \/ BeginCreate(h) \/ BeginDelete(h) \/ Deadline(h) \/ InsertKey(h) \/ Abort(h)
             \/ CreateReplies(h) \/ CreateFails(h) \/ WaitVolumeBeCreated(h) \/ PollFails(h)
      PROVE  UNCHANGED <<told, gone>>
  BY <1>1 DEF BeginCreate, BeginDelete, Begin, Deadline, InsertKey, Abort, CreateReplies,
              CreateFails, WaitVolumeBeCreated, PollFails, AnswerError
<1>2. ASSUME NEW h \in Handler, ListByName(h) \/ WaitVolumeBeAvailable(h)
      PROVE  gone' = gone
  BY <1>2 DEF ListByName, WaitVolumeBeAvailable, AnswerError, AnswerVolume
<1>3. ASSUME NEW h \in Handler, FindById(h) \/ DeleteCall(h) \/ WaitVolumeBeDeleted(h)
      PROVE  told' = told
  BY <1>3 DEF FindById, DeleteCall, WaitVolumeBeDeleted, AnswerError, AnswerDeleted
<1>4. CASE \/ Restart \/ CloudLateCreate \/ CloudLateDelete \/ UNCHANGED vars
           \/ \E v \in VolId : CloudStatus(v) \/ CloudListing(v)
  BY <1>4 DEF Restart, CloudLateCreate, CloudLateDelete, CloudStatus, CloudListing, vars
<1> QED BY <1>1, <1>2, <1>3, <1>4 DEF Next, HandlerStep, Proceed

-----------------------------------------------------------------------------
(* What the callers are answered. *)

LEMMA CeilGBCovers == ASSUME NEW b \in Nat PROVE b <= CeilGB(b) * GB
BY ProvisionAssumption DEF CeilGB

(* The volume a handler has had created is the one it asked for. *)
CreatedAsWanted ==
  \A h \in Handler :
    pc[h] \in {"waitCreated", "waitAvailable"} =>
      (status[vid[h]] # "none" /\ attr[vid[h]] = Wanted(req[h]))

ToldExists == \A a \in told : status[a.id] # "none"

FitInv == CreatedAsWanted /\ ToldExists /\ AnswersFit

(* The sizes and attributes behind the two ways to an OK answer. *)
Fits(a) ==
  /\ attr[a.id].name = a.req.name
  /\ attr[a.id].type = a.req.type
  /\ a.req.zone # NoZone => attr[a.id].zone = a.req.zone
  /\ a.zone = attr[a.id].zone
  /\ Capacity(a.req) <= a.bytes
  /\ a.bytes <= attr[a.id].gb * GB

LEMMA FoundFits ==
  ASSUME TypeInv, NEW r \in Request, NEW v \in listed, Usable(v, r), attr[v].name = r.name
  PROVE  Fits([req |-> r, id |-> v, bytes |-> attr[v].gb * GB, zone |-> attr[v].zone])
<1>1. attr[v].gb * GB \in Nat
  BY ProvisionAssumption DEF TypeInv, TypeOK, CloudOK, Attr
<1> QED BY <1>1, RequestFields DEF Fits, Usable, ZoneId

LEMMA CreatedFits ==
  ASSUME TypeInv, FitInv, NEW h \in Handler, pc[h] = "waitAvailable"
  PROVE  Fits([req |-> req[h], id |-> vid[h], bytes |-> Capacity(req[h]),
                zone |-> ZoneId(req[h])])
<1>1. req[h] \in Request /\ attr[vid[h]] = Wanted(req[h])
  BY DEF TypeInv, TypeOK, LocalsOK, CreatePcs, FitInv, CreatedAsWanted
<1>2. Capacity(req[h]) <= CeilGB(Capacity(req[h])) * GB
  BY <1>1, RequestFields, CeilGBCovers
<1> QED BY <1>1, <1>2, RequestFields DEF Fits, Wanted, ZoneId

LEMMA FitStep == ASSUME TypeInv, FitInv, [Next]_vars PROVE FitInv'
<1> USE DEF TypeInv, TypeOK
<1>1. AttrsStay
  BY CloudForward
<1>2. \A a \in told' \ told :
         a.id \in VolId /\ Fits(a) /\ status[a.id] # "none"
  <2>1. ASSUME NEW h \in Handler, ListByName(h), NEW a \in told' \ told
        PROVE  a.id \in VolId /\ Fits(a) /\ status[a.id] # "none"
    <3>1. PICK v \in {w \in listed : attr[w].name = req[h].name} :
              Usable(v, req[h]) /\ AnswerVolume(h, v, attr[v].gb * GB, attr[v].zone)
      BY <2>1 DEF ListByName, Found, AnswerError, history
    <3>2. a = [req |-> req[h], id |-> v, bytes |-> attr[v].gb * GB, zone |-> attr[v].zone]
      BY <2>1, <3>1 DEF AnswerVolume
    <3>3. req[h] \in Request
      BY <2>1 DEF ListByName, LocalsOK, CreatePcs
    <3> QED BY <3>1, <3>2, <3>3, FoundFits DEF CloudOK
  <2>2. ASSUME NEW h \in Handler, WaitVolumeBeAvailable(h), NEW a \in told' \ told
        PROVE  a.id \in VolId /\ Fits(a) /\ status[a.id] # "none"
    <3>1. a = [req |-> req[h], id |-> vid[h], bytes |-> Capacity(req[h]),
               zone |-> ZoneId(req[h])]
      BY <2>2 DEF WaitVolumeBeAvailable, AnswerVolume, AnswerError, history
    <3>2. vid[h] \in VolId /\ status[vid[h]] # "none" /\ pc[h] = "waitAvailable"
      BY <2>2 DEF WaitVolumeBeAvailable, FitInv, CreatedAsWanted, LocalsOK
    <3> QED BY <3>1, <3>2, CreatedFits
  <2> QED BY <2>1, <2>2, HistorySteps
<1>3. ToldExists' /\ AnswersFit'
  BY <1>1, <1>2 DEF FitInv, ToldExists, AnswersFit, Fits, Answer, Capacity, AttrsStay
<1>4. CreatedAsWanted'
  <2> SUFFICES ASSUME NEW h \in Handler, pc'[h] \in {"waitCreated", "waitAvailable"}
               PROVE  status'[vid'[h]] # "none" /\ attr'[vid'[h]] = Wanted(req[h])'
    BY DEF CreatedAsWanted
  <2>1. CASE CreateReplies(h)
    <3>1. PICK v \in VolId : CloudCreates(v, Wanted(req[h])) /\ vid' = [vid EXCEPT ![h] = v]
      BY <2>1 DEF CreateReplies
    <3>2. vid'[h] = v /\ status'[v] = "creating" /\ attr'[v] = Wanted(req[h])
      BY <3>1 DEF CloudCreates
    <3>3. Wanted(req[h])' = Wanted(req[h])
      BY <2>1 DEF CreateReplies, Wanted, ZoneId
    <3> QED BY <3>2, <3>3
  <2>2. CASE ~CreateReplies(h)
    <3>1. /\ pc[h] \in {"waitCreated", "waitAvailable"}
          /\ vid'[h] = vid[h] /\ req'[h] = req[h]
      BY <2>2, HandlerSteps DEF HandlerMoves, Stays, Begins, GoesOn, ToNext
    <3>2. vid[h] \in VolId /\ ZoneId(req[h]) # NoZone
      BY <3>1 DEF LocalsOK
    <3>3. podZone' = podZone
      BY <2>2, PodZoneStays
    <3>4. attr'[vid[h]] = Wanted(req[h]) /\ status'[vid[h]] # "none"
      BY <1>1, <3>1, <3>2 DEF AttrsStay, FitInv, CreatedAsWanted
    <3>5. Wanted(req[h])' = Wanted(req[h])
      BY <3>1, <3>3 DEF Wanted, ZoneId
    <3> QED BY <3>1, <3>4, <3>5
  <2> QED BY <2>1, <2>2
<1> QED BY <1>3, <1>4 DEF FitInv

(* Whatever volume a caller is given satisfies its request, and has at     *)
(* least the capacity of the answer. *)
THEOREM AnswersAreFit == Spec => []AnswersFit
<1>1. Init => FitInv
  BY DEF Init, FitInv, CreatedAsWanted, ToldExists, AnswersFit
<1>2. TypeInv /\ FitInv /\ [Next]_vars => FitInv'
  BY FitStep
<1>3. FitInv => AnswersFit
  BY DEF FitInv
<1> QED BY <1>1, <1>2, <1>3, TypeCorrect, PTL DEF Spec
-----------------------------------------------------------------------------
(* Deletion. *)

DeleteInv ==
  /\ \A a \in told : Known(a.id)
  /\ \A h \in Handler : /\ pc[h] \in DeletePcs => Known(vid[h])
                        /\ pc[h] = "insert" /\ req[h] = None => Known(vid[h])
  /\ GoneIsDeleted

LEMMA DeleteStep == ASSUME TypeInv, DeleteInv, [Next]_vars PROVE DeleteInv'
<1> USE DEF TypeInv, TypeOK
<1>1. KnownStays
  BY CloudForward
<1>2. \A a \in told' \ told : a.id \in listed
  <2>1. ASSUME NEW h \in Handler, ListByName(h), NEW a \in told' \ told PROVE a.id \in listed
    BY <2>1 DEF ListByName, Found, AnswerVolume, AnswerError, history
  <2>2. ASSUME NEW h \in Handler, WaitVolumeBeAvailable(h), NEW a \in told' \ told
        PROVE  a.id \in listed
    BY <2>2 DEF WaitVolumeBeAvailable, AnswerVolume, AnswerError, Visible, history
  <2> QED BY <2>1, <2>2, HistorySteps
<1>3. \A a \in told' : Known(a.id)'
  BY <1>1, <1>2 DEF DeleteInv, Known, KnownStays, Answer
<1>4. ASSUME NEW h \in Handler,
             pc'[h] \in DeletePcs \/ (pc'[h] = "insert" /\ req'[h] = None)
      PROVE  vid'[h] \in VolId /\ Known(vid'[h])
  <2>1. CASE Begins(h)
    <3>1. pc'[h] = "insert"
      BY <2>1 DEF Begins
    <3>2. PICK a \in told : vid'[h] = a.id
      BY <1>4, <2>1, <3>1 DEF Begins, DeletePcs
    <3> QED BY <3>2 DEF DeleteInv, Answer
  <2>2. CASE ~Begins(h)
    <3>1. /\ vid'[h] = vid[h]
          /\ pc[h] \in DeletePcs \/ (pc[h] = "insert" /\ req[h] = None)
      BY <1>4, <2>2, HandlerSteps
         DEF HandlerMoves, Stays, GoesOn, ToNext, CreateReplies, DeletePcs
    <3> QED BY <3>1, ProvisionAssumption DEF LocalsOK, DeleteInv
  <2> QED BY <2>1, <2>2
<1>5. \A v \in gone' \ gone : v \in VolId /\ status'[v] = "deleted"
  <2>1. ASSUME NEW h \in Handler, NEW v \in gone' \ gone, FindById(h)
        PROVE  v \in VolId /\ status[v] = "deleted"
    <3>1. v = vid[h] /\ v \notin listed /\ pc[h] = "find"
      BY <2>1 DEF FindById, AnswerError, AnswerDeleted, history
    <3> QED BY <3>1 DEF LocalsOK, DeletePcs, DeleteInv, Known
  <2>2. ASSUME NEW h \in Handler, NEW v \in gone' \ gone, DeleteCall(h)
        PROVE  v \in VolId /\ status[v] = "deleted"
    <3>1. v = vid[h] /\ status[v] = "deleted" /\ pc[h] = "delete"
      BY <2>2 DEF DeleteCall, AnswerError, AnswerDeleted, history
    <3> QED BY <3>1 DEF LocalsOK, DeletePcs
  <2>3. ASSUME NEW h \in Handler, NEW v \in gone' \ gone, WaitVolumeBeDeleted(h)
        PROVE  v \in VolId /\ status[v] = "deleted"
    <3>1. /\ v = vid[h] /\ pc[h] = "waitDeleted"
          /\ v \notin listed \/ status[v] = "deleted"
      BY <2>3 DEF WaitVolumeBeDeleted, AnswerError, AnswerDeleted, history
    <3> QED BY <3>1 DEF LocalsOK, DeletePcs, DeleteInv, Known
  <2> QED BY <1>1, <2>1, <2>2, <2>3, HistorySteps DEF KnownStays
<1>6. GoneIsDeleted'
  BY <1>1, <1>5 DEF DeleteInv, GoneIsDeleted, KnownStays
<1>7. \A h \in Handler : /\ pc'[h] \in DeletePcs => Known(vid[h])'
                         /\ (pc'[h] = "insert" /\ req'[h] = None) => Known(vid[h])'
  <2> SUFFICES ASSUME NEW h \in Handler,
                      pc'[h] \in DeletePcs \/ (pc'[h] = "insert" /\ req'[h] = None)
               PROVE  Known(vid[h])'
    OBVIOUS
  <2>1. vid'[h] \in VolId /\ Known(vid'[h])
    BY <1>4
  <2> QED BY <1>1, <2>1 DEF KnownStays, Known
<1> QED BY <1>3, <1>6, <1>7 DEF DeleteInv

(* A volume whose deletion was answered OK is deleted, and stays so. *)
THEOREM DeletedIsDeleted == Spec => []GoneIsDeleted
<1>1. Init => DeleteInv
  BY DEF Init, DeleteInv, GoneIsDeleted, DeletePcs
<1>2. TypeInv /\ DeleteInv /\ [Next]_vars => DeleteInv'
  BY DeleteStep
<1>3. DeleteInv => GoneIsDeleted
  BY DEF DeleteInv
<1> QED BY <1>1, <1>2, <1>3, TypeCorrect, PTL DEF Spec

-----------------------------------------------------------------------------
(* The store of volumes the callers see. *)

(* Only volumes somebody was given are on their way to deletion, as the    *)
(* argument of a call or as a request on the wire.                         *)
Deleting(h) == pc[h] \in DeletePcs \/ (pc[h] = "insert" /\ req[h] = None)

GivenInv ==
  /\ \A h \in Handler : Deleting(h) => vid[h] \in Given
  /\ lateDelete \subseteq Given

LEMMA GivenStep == ASSUME TypeInv, GivenInv, [Next]_vars PROVE GivenInv'
<1>1. told \subseteq told'
  BY HistorySteps DEF ListByName, WaitVolumeBeAvailable, AnswerError, AnswerVolume, history
<1>2. Given \subseteq Given'
  BY <1>1 DEF Given
<1>3. ASSUME NEW h \in Handler, Deleting(h)' PROVE vid'[h] \in Given'
  <2>1. CASE Begins(h)
    <3>1. pc'[h] = "insert" /\ req'[h] = None
      BY <1>3, <2>1 DEF Begins, Deleting, DeletePcs
    <3> QED BY <1>2, <2>1, <3>1 DEF Begins, Given
  <2>2. CASE ~Begins(h)
    <3>1. Deleting(h) /\ vid'[h] = vid[h]
      BY <1>3, <2>2, HandlerSteps
         DEF HandlerMoves, Stays, GoesOn, ToNext, CreateReplies, Deleting, DeletePcs,
             TypeInv, TypeOK
    <3> QED BY <1>2, <3>1 DEF GivenInv
  <2> QED BY <2>1, <2>2
<1>4. lateDelete' \subseteq Given
  <2>1. ASSUME NEW h \in Handler, DeleteCall(h) PROVE lateDelete' \subseteq Given
    BY <2>1 DEF DeleteCall, GivenInv, Deleting, DeletePcs
  <2>2. CASE Restart
    BY <2>2 DEF Restart, GivenInv, Deleting, DeletePcs
  <2>3. CASE CloudLateDelete
    BY <2>3 DEF CloudLateDelete, GivenInv
  <2>4. lateDelete \subseteq Given
    BY DEF GivenInv
  <2>5. ASSUME NEW h \in Handler,
               \/ BeginCreate(h) \/ BeginDelete(h) \/ Deadline(h) \/ InsertKey(h) \/ Abort(h)
               \/ ListByName(h) \/ CreateReplies(h) \/ CreateFails(h) \/ WaitVolumeBeCreated(h)
               \/ WaitVolumeBeAvailable(h) \/ FindById(h) \/ WaitVolumeBeDeleted(h) \/ PollFails(h)
        PROVE  UNCHANGED lateDelete
    BY <2>5 DEF BeginCreate, BeginDelete, Begin, Deadline, InsertKey, Abort, ListByName,
         CreateReplies, CreateFails, WaitVolumeBeCreated, WaitVolumeBeAvailable, FindById,
         WaitVolumeBeDeleted, PollFails, wire
  <2>6. CASE \/ CloudLateCreate \/ UNCHANGED vars
             \/ \E v \in VolId : CloudStatus(v) \/ CloudListing(v)
    <3>1. UNCHANGED lateDelete
      BY <2>6 DEF CloudLateCreate, CloudStatus, CloudListing, vars, wire
    <3> QED BY <2>4, <3>1
  <2> QED BY <2>1, <2>2, <2>3, <2>4, <2>5, <2>6 DEF Next, HandlerStep, Proceed
<1> QED BY <1>2, <1>3, <1>4 DEF GivenInv

(* A step leaves the store alone, moves one volume along its life, gives   *)
(* out one that is available or confirms one that is deleted.              *)
VolumeMoves(v, from, to) ==
  /\ status[v] = from
  /\ status' = [status EXCEPT ![v] = to]
  /\ UNCHANGED <<told, gone>>

StoreKept == UNCHANGED <<status, told, gone>>

StoreMoves ==
  \E v \in VolId :
    \/ VolumeMoves(v, "none", "creating")
    \/ VolumeMoves(v, "creating", "available")
    \/ VolumeMoves(v, "creating", "failed")
    \/ v \in Given /\ VolumeMoves(v, "available", "deleting")
    \/ VolumeMoves(v, "deleting", "deleted")

StoreGives ==
  /\ \E a \in Answer : /\ status[a.id] = "available"
                       /\ told' = told \cup {a}
  /\ UNCHANGED <<status, gone>>

StoreConfirms ==
  /\ \E v \in VolId : /\ status[v] = "deleted"
                      /\ gone' = gone \cup {v}
  /\ UNCHANGED <<status, told>>

LEMMA StoreSteps ==
  ASSUME TypeInv, TypeInv', DeleteInv, GivenInv, [Next]_vars
  PROVE  StoreKept \/ StoreMoves \/ StoreGives \/ StoreConfirms
<1> USE DEF TypeInv, TypeOK, driverVars, cloudVars, wire, history, StoreKept
<1>1. ASSUME NEW h \in Handler, ListByName(h) \/ WaitVolumeBeAvailable(h)
      PROVE  StoreKept \/ StoreGives
  <2>1. CASE ListByName(h)
    BY <1>1, <2>1 DEF ListByName, Found, Usable, AnswerVolume, AnswerError, StoreGives
  <2>2. CASE WaitVolumeBeAvailable(h)
    BY <1>1, <2>2 DEF WaitVolumeBeAvailable, AnswerVolume, AnswerError, StoreGives
  <2> QED BY <1>1, <2>1, <2>2
<1>2. ASSUME NEW h \in Handler, CreateReplies(h) PROVE StoreMoves
  BY <1>2 DEF CreateReplies, CloudCreates, StoreMoves, VolumeMoves
<1>3. ASSUME NEW h \in Handler, FindById(h) \/ WaitVolumeBeDeleted(h)
      PROVE  StoreKept \/ StoreConfirms
  BY <1>3 DEF FindById, WaitVolumeBeDeleted, AnswerDeleted, AnswerError, StoreConfirms,
              DeleteInv, Known, LocalsOK, DeletePcs
<1>4. ASSUME NEW h \in Handler, DeleteCall(h) PROVE StoreKept \/ StoreMoves \/ StoreConfirms
  <2>1. vid[h] \in VolId /\ vid[h] \in Given
    BY <1>4 DEF DeleteCall, LocalsOK, DeletePcs, GivenInv, Deleting
  <2> QED BY <1>4, <2>1 DEF DeleteCall, AnswerDeleted, AnswerError, StoreMoves, VolumeMoves,
                            StoreConfirms
<1>5. CASE CloudLateCreate \/ CloudLateDelete
  BY <1>5 DEF CloudLateCreate, CloudCreates, CloudLateDelete, StoreMoves, VolumeMoves, GivenInv
<1>6. ASSUME NEW v \in VolId, CloudStatus(v) \/ CloudListing(v) PROVE StoreKept \/ StoreMoves
  BY <1>6 DEF CloudStatus, CloudListing, StoreMoves, VolumeMoves
<1>7. ASSUME NEW h \in Handler,
             \/ BeginCreate(h) \/ BeginDelete(h) \/ Deadline(h) \/ InsertKey(h) \/ Abort(h)
             \/ CreateFails(h) \/ WaitVolumeBeCreated(h) \/ PollFails(h)
      PROVE  StoreKept
  BY <1>7 DEF BeginCreate, BeginDelete, Begin, Deadline, InsertKey, Abort, CreateFails,
              WaitVolumeBeCreated, PollFails, AnswerError
<1> QED BY <1>1, <1>2, <1>3, <1>4, <1>5, <1>6, <1>7 DEF Next, HandlerStep, Proceed, vars, Restart

(* Seen from the callers, CreateVolume and DeleteVolume are the store of   *)
(* VolumeStore: a volume is available when it is given, one nobody was     *)
(* given is never deleted, and a confirmed deletion is final.              *)
THEOREM StoreRefined == Spec => ImplementsStore
<1> DEFINE SInv == TypeInv /\ DeleteInv /\ GivenInv
<1>1. Init => SInv
  BY TypeInit DEF Init, DeleteInv, GoneIsDeleted, DeletePcs, GivenInv, Deleting, Given
<1>2. SInv /\ [Next]_vars => SInv'
  BY TypeArrive, TypeCreate, TypeDelete, TypeRestart, TypeCloud, TypeStutter, DeleteStep, GivenStep
     DEF Next, HandlerStep, Proceed
<1>3. Init => Store!Init
  BY DEF Init, Store!Init, Given, StageOf, Status
<1>4. ASSUME SInv, SInv', [Next]_vars PROVE [Store!Next]_(Store!store)
  <2> USE DEF TypeInv, TypeOK
  <2>1. CASE StoreKept
    BY <2>1 DEF StoreKept, Store!store, Given
  <2>2. ASSUME NEW v \in VolId, NEW f \in Status, NEW t \in Status, VolumeMoves(v, f, t)
        PROVE  Store!Moves(v, StageOf[f], StageOf[t])
    BY <1>4, <2>2 DEF VolumeMoves, Store!Moves, Given
  <2>3. CASE StoreMoves
    <3>1. /\ StageOf["none"] = "absent" /\ StageOf["creating"] = "made"
          /\ StageOf["failed"] = "made" /\ StageOf["available"] = "ready"
          /\ StageOf["deleting"] = "dropped" /\ StageOf["deleted"] = "gone"
      BY DEF StageOf, Status
    <3>2. PICK v \in VolId :
            \/ VolumeMoves(v, "none", "creating")
            \/ VolumeMoves(v, "creating", "available")
            \/ VolumeMoves(v, "creating", "failed")
            \/ v \in Given /\ VolumeMoves(v, "available", "deleting")
            \/ VolumeMoves(v, "deleting", "deleted")
      BY <2>3 DEF StoreMoves
    <3>3. CASE VolumeMoves(v, "none", "creating")
      <4>1. Store!Moves(v, "absent", "made")
        BY <2>2, <3>1, <3>3 DEF Status
      <4> QED BY <4>1 DEF Store!Next, Store!Make
    <3>4. CASE VolumeMoves(v, "creating", "available")
      <4>1. Store!Moves(v, "made", "ready")
        BY <2>2, <3>1, <3>4 DEF Status
      <4> QED BY <4>1 DEF Store!Next, Store!Settle
    <3>5. CASE VolumeMoves(v, "creating", "failed")
      <4>1. UNCHANGED <<[u \in VolId |-> StageOf[status[u]]], Given, gone>>
        BY <1>4, <3>1, <3>5 DEF VolumeMoves, Given
      <4> QED BY <4>1 DEF Store!store
    <3>6. CASE v \in Given /\ VolumeMoves(v, "available", "deleting")
      <4>1. Store!Moves(v, "ready", "dropped")
        BY <2>2, <3>1, <3>6 DEF Status
      <4> QED BY <3>6, <4>1 DEF Store!Next, Store!Drop
    <3>7. CASE VolumeMoves(v, "deleting", "deleted")
      <4>1. Store!Moves(v, "dropped", "gone")
        BY <2>2, <3>1, <3>7 DEF Status
      <4> QED BY <4>1 DEF Store!Next, Store!Vanish
    <3> QED BY <3>2, <3>3, <3>4, <3>5, <3>6, <3>7
  <2>4. CASE StoreGives
    BY <1>4, <2>4 DEF StoreGives, StageOf, Status, Given, Answer, Store!Next, Store!Give
  <2>5. CASE StoreConfirms
    BY <1>4, <2>5 DEF StoreConfirms, StageOf, Status, Given, Store!Next, Store!Confirm
  <2> QED BY <1>4, <2>1, <2>3, <2>4, <2>5, StoreSteps
<1> QED BY <1>1, <1>2, <1>3, <1>4, PTL DEF Spec, ImplementsStore, Store!Spec
=============================================================================
