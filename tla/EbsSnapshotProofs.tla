------------------------- MODULE EbsSnapshotProofs -------------------------
(***************************************************************************)
(* Proofs about EbsSnapshot for any number of handlers, names, volumes,    *)
(* snapshots, requests and restarts.                                       *)
(***************************************************************************)
EXTENDS EbsSnapshot, TLAPS

(* What a handler's locals hold at each point of its code.                 *)
CreatePcs == {"lookUp", "volume", "create"}

LocalsOK ==
  \A h \in Handler :
    /\ pc[h] = "insert" => (req[h] \in Request \/ (req[h] = None /\ sid[h] \in SnapId))
    /\ pc[h] \in CreatePcs => req[h] \in Request
    /\ pc[h] \in {"delete", "list"} => (req[h] = None /\ sid[h] \in SnapId)

(* A snapshot has a name and a source while the cloud knows it, and only   *)
(* such a snapshot is listed.                                              *)
Known(s) == status[s] \in {"creating", "available", "failed", "deleting"}

CloudOK ==
  \A s \in SnapId : /\ Known(s) <=> of[s] \in Request
                    /\ s \in listed => Known(s)

Types == TypeOK /\ LocalsOK /\ CloudOK

(* CloudOK needs more: a request to delete is always for a snapshot that   *)
(* was taken, whichever way it reaches the cloud.                          *)
Taken == {s \in SnapId : status[s] # "none"}

TakenOnly ==
  /\ known \cup lateDelete \subseteq Taken
  /\ \A h \in Handler : sid[h] # None => sid[h] \in Taken

TypeInv == Types /\ TakenOnly

(* The in-flight table holds exactly the keys of the handlers at work.     *)
Busy == {h \in Handler : pc[h] \in Critical}

KeysExact ==
  /\ inFlight = {KeyOf(h) : h \in Busy}
  /\ \A g, h \in Busy : KeyOf(g) = KeyOf(h) => g = h

(* A snapshot that a retry must find: the cloud has not given it up.       *)
LiveSnap(s) == status[s] \in {"creating", "available", "failed"}

(* OneSnapshotPerName is not inductive: what may be created late is of an  *)
(* unsure name, so is a snapshot no listing shows, and a handler on its    *)
(* way to create one still has the name for itself.                        *)
LateUnsure == \A r \in late : r.name \in unsure

UnlistedUnsure ==
  \A s \in SnapId : LiveSnap(s) /\ s \notin listed => of[s].name \in unsure

CreatorAlone ==
  \A h \in Handler, s \in SnapId :
    pc[h] \in {"volume", "create"} /\ LiveSnap(s) /\ of[s].name = req[h].name
      => of[s].name \in unsure

NameInv == LateUnsure /\ UnlistedUnsure /\ CreatorAlone /\ OneSnapshotPerName

(* A volume never gets smaller without going away: what a handler has read *)
(* is not more than a snapshot taken later will hold.                      *)
ReadStillThere ==
  \A h \in Handler : pc[h] = "create" =>
    \/ capacity[req[h].source] = 0
    \/ bytes[h] <= capacity[req[h].source]
-----------------------------------------------------------------------------
(* Type correctness.                                                       *)

LEMMA RequestFields ==
  ASSUME NEW r \in Request
  PROVE  r.name \in Name /\ r.source \in Volume /\ r # None
BY SnapshotAssumption

LEMMA SameRequest ==
  ASSUME NEW q \in Request, NEW r \in Request, q.name = r.name, q.source = r.source
  PROVE  q = r
BY SnapshotAssumption

LEMMA TypeInit == Init => TypeInv
BY SnapshotAssumption
   DEF Init, TypeInv, Types, TakenOnly, Taken, TypeOK, LocalsOK, CloudOK, Known, CreatePcs, NewInFlight, Critical, Status,
       Answer

LEMMA TypeArrive ==
  ASSUME TypeInv, NEW h \in Handler,
         CallCreate(h) \/ CallDelete(h) \/ CallList(h) \/ InsertKey(h) \/ Deadline(h)
  PROVE  Types'
<1> USE SnapshotAssumption DEF TypeInv, Types, TypeOK, LocalsOK, CloudOK, Known, CreatePcs, Critical,
        Answer, cloudVars, wire, history, Silent
<1>1. CASE CallCreate(h)
  BY <1>1 DEF CallCreate, Begin
<1>2. CASE CallDelete(h)
  BY <1>2 DEF CallDelete, Begin
<1>3. CASE CallList(h)
  BY <1>3 DEF CallList, Begin
<1>4. CASE InsertKey(h)
  <2>1. KeyOf(h) \in Name \cup SnapId /\ (req[h] # None <=> req[h] \in Request)
    BY <1>4, RequestFields DEF InsertKey, KeyOf
  <2>2. CASE /\ inFlight' = Insert(inFlight, KeyOf(h))
             /\ pc' = [pc EXCEPT ![h] = IF req[h] # None THEN "lookUp" ELSE "delete"]
             /\ UNCHANGED <<req, sid, bytes, live>>
    <3>1. CASE req[h] \in Request
      BY <1>4, <2>1, <2>2, <3>1 DEF InsertKey, Insert
    <3>2. CASE req[h] \notin Request
      BY <1>4, <2>1, <2>2, <3>2 DEF InsertKey, Insert
    <3> QED BY <3>1, <3>2
  <2>3. CASE Leave(h) /\ UNCHANGED inFlight
    BY <1>4, <2>3 DEF InsertKey, Leave
  <2> QED BY <1>4, <2>2, <2>3 DEF InsertKey
<1>5. CASE Deadline(h)
  BY <1>5 DEF Deadline
<1> QED BY <1>1, <1>2, <1>3, <1>4, <1>5

(* What holds after a handler has returned, whatever it has answered.      *)
LEMMA TypeReturn ==
  ASSUME TypeInv, NEW h \in Handler, Leave(h), inFlight' \subseteq inFlight
  PROVE  /\ inFlight' \subseteq Name \cup SnapId
         /\ pc' \in [Handler -> {"idle", "insert", "list"} \cup Critical]
         /\ req' \in [Handler -> Request \cup {None}]
         /\ sid' \in [Handler -> SnapId \cup {None}]
         /\ bytes' \in [Handler -> 0..MaxCapacity]
         /\ \A g \in Handler : pc'[g] = "create" => bytes'[g] > 0
         /\ live' \in [Handler -> BOOLEAN]
         /\ LocalsOK'
BY SnapshotAssumption DEF TypeInv, Types, TypeOK, LocalsOK, CreatePcs, Critical, Leave

(* What the caller is told.                                                *)
LEMMA TypeTell ==
  ASSUME TypeInv, NEW h \in Handler, NEW s \in SnapId, NEW b \in Nat, NEW r \in BOOLEAN,
         Tell(h, s, b, r)
  PROVE  known' \subseteq SnapId /\ answer' \in Answer \cup {None}
BY DEF TypeInv, Types, TypeOK, Tell, Answer

LEMMA TypeCreates ==
  ASSUME TypeInv, NEW s \in SnapId, NEW r \in Request, CloudCreates(s, r)
  PROVE  /\ capacity' \in [Volume -> 0..MaxCapacity] /\ status' \in [SnapId -> Status]
         /\ of' \in [SnapId -> Request \cup {None}] /\ size' \in [SnapId -> 0..MaxCapacity]
         /\ listed' \subseteq SnapId
         /\ CloudOK'
<1>1. capacity[r.source] \in 0..MaxCapacity
  BY RequestFields DEF TypeInv, Types, TypeOK
<1> QED BY <1>1, SnapshotAssumption DEF TypeInv, Types, TypeOK, CloudOK, Known, CloudCreates, Status

LEMMA TypeHandler ==
  ASSUME TypeInv, NEW h \in Handler,
         \/ LookUp(h) \/ VolumeById(h) \/ CreateReplies(h) \/ CreateFails(h)
         \/ DeleteSnapshot(h) \/ ListSnapshots(h)
  PROVE  Types'
<1> USE SnapshotAssumption DEF TypeInv, Types, cloudVars, wire, history
<1>0. Return(h) => Leave(h) /\ inFlight' \subseteq inFlight
  BY DEF Return, Delete
<1>1. CASE LookUp(h)
  <2>1. CASE Return(h) /\ Silent /\ UNCHANGED history
    BY <1>0, <1>1, <2>1, TypeReturn DEF LookUp, TypeOK, CloudOK, Known, Silent
  <2>2. ASSUME NEW s \in Found(req[h].name), Return(h),
               Tell(h, s, size[s], ReadyToUse(s)), UNCHANGED unsure
        PROVE  Types'
    <3>1. s \in SnapId /\ size[s] \in Nat /\ ReadyToUse(s) \in BOOLEAN
      BY DEF Found, TypeOK, ReadyToUse
    <3>2. known' \subseteq SnapId /\ answer' \in Answer \cup {None}
      BY <2>2, <3>1, TypeTell
    <3> QED BY <1>0, <1>1, <2>2, <3>2, TypeReturn DEF LookUp, TypeOK, CloudOK, Known
  <2>3. CASE GoTo(h, "volume") /\ Silent /\ UNCHANGED <<bytes, history>>
    BY <1>1, <2>3 DEF LookUp, GoTo, TypeOK, LocalsOK, CreatePcs, CloudOK, Known, Silent, Critical
  <2> QED BY <1>1, <2>1, <2>2, <2>3 DEF LookUp
<1>2. CASE VolumeById(h)
  <2>1. CASE Return(h) /\ Silent /\ UNCHANGED history
    BY <1>0, <1>2, <2>1, TypeReturn DEF VolumeById, TypeOK, CloudOK, Known, Silent
  <2>2. CASE /\ capacity[req[h].source] > 0
             /\ bytes' = [bytes EXCEPT ![h] = capacity[req[h].source]]
             /\ GoTo(h, "create") /\ Silent /\ UNCHANGED history
    <3>1. req[h] \in Request /\ capacity[req[h].source] \in 0..MaxCapacity
      BY <1>2, RequestFields DEF VolumeById, LocalsOK, CreatePcs, TypeOK
    <3> QED BY <1>2, <2>2, <3>1
            DEF VolumeById, GoTo, TypeOK, LocalsOK, CreatePcs, CloudOK, Known, Silent, Critical
  <2> QED BY <1>2, <2>1, <2>2 DEF VolumeById
<1>3. CASE CreateReplies(h)
  <2>1. PICK s \in SnapId :
          /\ CloudCreates(s, req[h])
          /\ Tell(h, s, bytes[h], FALSE)
          /\ unsure' = IF s \in listed' THEN unsure ELSE unsure \cup {req[h].name}
    BY <1>3 DEF CreateReplies
  <2>2. req[h] \in Request /\ req[h].name \in Name /\ bytes[h] \in Nat
    BY <1>3, RequestFields DEF CreateReplies, LocalsOK, CreatePcs, TypeOK
  <2>3. known' \subseteq SnapId /\ answer' \in Answer \cup {None}
    BY <2>1, <2>2, TypeTell
  <2>4. unsure' \subseteq Name
    BY <2>1, <2>2 DEF TypeOK
  <2> QED BY <1>0, <1>3, <2>1, <2>2, <2>3, <2>4, TypeReturn, TypeCreates
          DEF CreateReplies, TypeOK
<1>4. CASE CreateFails(h)
  <2>1. req[h] \in Request /\ req[h].name \in Name
    BY <1>4, RequestFields DEF CreateFails, LocalsOK, CreatePcs
  <2>2. late' \subseteq Request /\ unsure' \subseteq Name
    BY <1>4, <2>1 DEF CreateFails, TypeOK
  <2> QED BY <1>0, <1>4, <2>2, TypeReturn DEF CreateFails, TypeOK, CloudOK, Known, Silent
<1>5. CASE DeleteSnapshot(h)
  <2>1. sid[h] \in SnapId
    BY <1>5 DEF DeleteSnapshot, LocalsOK
  <2>2. status' \in [SnapId -> Status] /\ CloudOK'
    <3>1. CASE CloudDeletes(sid[h])
      <4>1. CASE Gone(sid[h])
        BY <1>5, <3>1, <4>1 DEF DeleteSnapshot, CloudDeletes, TypeOK, CloudOK, Known
      <4>2. CASE ~Gone(sid[h])
        BY <1>5, <2>1, <3>1, <4>2
           DEF DeleteSnapshot, CloudDeletes, Gone, Status, TypeOK, LocalsOK, CloudOK, Known,
               TakenOnly, Taken
      <4> QED BY <4>1, <4>2
    <3>2. CASE UNCHANGED status
      BY <1>5, <3>2 DEF DeleteSnapshot, TypeOK, CloudOK, Known
    <3> QED BY <1>5, <3>1, <3>2 DEF DeleteSnapshot
  <2>3. known' \subseteq SnapId /\ lateDelete' \subseteq SnapId
    BY <1>5, <2>1 DEF DeleteSnapshot, Delayed, TypeOK
  <2> QED BY <1>0, <1>5, <2>2, <2>3, TypeReturn DEF DeleteSnapshot, TypeOK, Silent
<1>6. CASE ListSnapshots(h)
  <2>1. known' \subseteq SnapId /\ answer' \in Answer \cup {None}
    <3>1. sid[h] \in SnapId /\ size[sid[h]] \in Nat /\ ReadyToUse(sid[h]) \in BOOLEAN
      BY <1>6 DEF ListSnapshots, LocalsOK, TypeOK, ReadyToUse
    <3> QED BY <1>6, <3>1, TypeTell DEF ListSnapshots, Silent, TypeOK
  <2> QED BY <1>6, <2>1, TypeReturn DEF ListSnapshots, TypeOK, CloudOK, Known
<1> QED BY <1>1, <1>2, <1>3, <1>4, <1>5, <1>6

LEMMA TypeWorld ==
  ASSUME TypeInv,
         \/ Restart \/ CloudLateCreate \/ CloudLateDelete \/ CloudStatus \/ CloudListing
         \/ VolumeChanges
  PROVE  Types'
<1> USE SnapshotAssumption
    DEF TypeInv, Types, TypeOK, LocalsOK, CloudOK, Known, CreatePcs, Critical, Status, Silent,
        handlerVars, cloudVars, wire, history
<1>1. CASE Restart
  <2>1. \A h \in Handler : pc[h] = "create" => req[h] \in Request /\ req[h].name \in Name
    BY RequestFields
  <2>2. \A h \in Handler : pc[h] = "delete" => sid[h] \in SnapId
    OBVIOUS
  <2>3. late' \subseteq Request /\ unsure' \subseteq Name
    BY <1>1, <2>1 DEF Restart
  <2>4. lateDelete' \subseteq SnapId
    BY <1>1, <2>2 DEF Restart, Delayed
  <2> QED BY <1>1, <2>3, <2>4 DEF Restart, NewInFlight
<1>2. CASE CloudLateCreate
  <2>1. PICK r \in late, s \in SnapId : late' = late \ {r} /\ CloudCreates(s, r)
    BY <1>2 DEF CloudLateCreate
  <2>2. r \in Request
    OBVIOUS
  <2>3. /\ capacity' \in [Volume -> 0..MaxCapacity] /\ status' \in [SnapId -> Status]
        /\ of' \in [SnapId -> Request \cup {None}] /\ size' \in [SnapId -> 0..MaxCapacity]
        /\ listed' \subseteq SnapId
        /\ CloudOK'
    BY <2>1, <2>2, TypeCreates
  <2> QED BY <1>2, <2>1, <2>3 DEF CloudLateCreate
<1>3. CASE CloudLateDelete
  <2>1. PICK s \in lateDelete : lateDelete' = lateDelete \ {s} /\ CloudDeletes(s)
    BY <1>3 DEF CloudLateDelete
  <2>2. s \in SnapId /\ lateDelete' \subseteq SnapId
    BY <2>1
  <2>3. status' \in [SnapId -> Status] /\ CloudOK'
    <3>1. CASE Gone(s)
      BY <1>3, <2>1, <3>1 DEF CloudLateDelete, CloudDeletes
    <3>2. CASE ~Gone(s)
      BY <1>3, <2>1, <2>2, <3>2 DEF CloudLateDelete, CloudDeletes, Gone, TakenOnly, Taken
    <3> QED BY <3>1, <3>2
  <2> QED BY <1>3, <2>2, <2>3 DEF CloudLateDelete
<1>4. CASE CloudStatus
  BY <1>4 DEF CloudStatus
<1>5. CASE CloudListing
  BY <1>5 DEF CloudListing
<1>6. CASE VolumeChanges
  <2>1. PICK v \in Volume :
          \E c \in {0} \cup (capacity[v] + 1)..MaxCapacity :
            capacity' = [capacity EXCEPT ![v] = c]
    BY <1>6 DEF VolumeChanges
  <2>2. PICK c \in {0} \cup (capacity[v] + 1)..MaxCapacity : capacity' = [capacity EXCEPT ![v] = c]
    BY <2>1
  <2>3. capacity' \in [Volume -> 0..MaxCapacity]
    <3>1. c \in 0..MaxCapacity
      OBVIOUS
    <3> QED BY <2>2, <3>1
  <2> QED BY <1>6, <2>3 DEF VolumeChanges
<1> QED BY <1>1, <1>2, <1>3, <1>4, <1>5, <1>6

(* No snapshot becomes one that was never taken, and nobody hears of one   *)
(* before it is.                                                           *)
LEMMA TakenGrows ==
  ASSUME TypeInv, [Next]_vars, NEW s \in Taken
  PROVE  s \in Taken'
<1> USE DEF TypeInv, Types, TypeOK, Taken, cloudVars
<1>1. ASSUME NEW t \in SnapId, NEW r, CloudCreates(t, r) PROVE s \in Taken'
  BY <1>1 DEF CloudCreates
<1>2. ASSUME NEW t, CloudDeletes(t) PROVE s \in Taken'
  BY <1>2 DEF CloudDeletes
<1>3. CASE CloudStatus
  BY <1>3 DEF CloudStatus
<1>4. CASE UNCHANGED status
  BY <1>4
<1>5. CASE \E h \in Handler : CreateReplies(h)
  BY <1>1, <1>5 DEF CreateReplies
<1>6. CASE CloudLateCreate
  BY <1>1, <1>6 DEF CloudLateCreate
<1>7. CASE \E h \in Handler : DeleteSnapshot(h)
  BY <1>2, <1>4, <1>7 DEF DeleteSnapshot
<1>8. CASE CloudLateDelete
  BY <1>2, <1>8 DEF CloudLateDelete
<1>9. \/ \E h \in Handler : CreateReplies(h) \/ DeleteSnapshot(h)
      \/ CloudStatus \/ CloudLateCreate \/ CloudLateDelete \/ UNCHANGED status
  BY DEF Next, HandlerStep, vars, CallCreate, CallDelete, CallList, Begin, Deadline, InsertKey,
         LookUp, VolumeById, CreateFails, ListSnapshots, Restart, CloudListing, VolumeChanges
<1> QED BY <1>3, <1>4, <1>5, <1>6, <1>7, <1>8, <1>9

LEMMA TakenStep == ASSUME TypeInv, [Next]_vars PROVE TakenOnly'
<1> USE DEF TypeInv, Types, TypeOK, TakenOnly, cloudVars, wire, history, handlerVars
<1>0. Taken \subseteq Taken'
  BY TakenGrows
<1>1. ASSUME NEW h \in Handler, Leave(h) PROVE \A g \in Handler : sid'[g] # None => sid'[g] = sid[g]
  BY <1>1 DEF Leave
<1>2. CASE UNCHANGED <<known, lateDelete, sid>>
  BY <1>0, <1>2
<1>3. ASSUME NEW h \in Handler, CallCreate(h) \/ CallDelete(h) \/ CallList(h) PROVE TakenOnly'
  BY <1>0, <1>3 DEF CallCreate, CallDelete, CallList, Begin
<1>4. ASSUME NEW h \in Handler, Leave(h), known' \subseteq Taken', lateDelete' \subseteq Taken'
      PROVE  TakenOnly'
  BY <1>0, <1>1, <1>4
<1>5. ASSUME NEW h \in Handler, HandlerStep(h) PROVE TakenOnly'
  <2>1. CASE InsertKey(h)
    BY <1>0, <1>2, <1>4, <2>1 DEF InsertKey
  <2>2. CASE LookUp(h)
    <3>1. ASSUME NEW s \in Found(req[h].name), Tell(h, s, size[s], ReadyToUse(s))
          PROVE  known' \subseteq Taken'
      <4>1. s \in Taken
        BY DEF Found, CloudOK, Known, Taken
      <4> QED BY <1>0, <3>1, <4>1 DEF Tell
    <3> QED BY <1>0, <1>2, <1>4, <2>2, <3>1 DEF LookUp, Return, GoTo
  <2>3. CASE VolumeById(h)
    BY <1>0, <1>2, <1>4, <2>3 DEF VolumeById, Return, GoTo
  <2>4. CASE CreateReplies(h)
    <3>1. PICK s \in SnapId : CloudCreates(s, req[h]) /\ Tell(h, s, bytes[h], FALSE)
      BY <2>4 DEF CreateReplies
    <3>2. s \in Taken'
      BY <3>1 DEF CloudCreates, Taken
    <3> QED BY <1>0, <1>4, <2>4, <3>1, <3>2 DEF CreateReplies, Return, Tell
  <2>5. CASE CreateFails(h)
    BY <1>0, <1>4, <2>5 DEF CreateFails, Return
  <2>6. CASE DeleteSnapshot(h)
    <3>1. sid[h] \in Taken
      BY <2>6, SnapshotAssumption DEF DeleteSnapshot, LocalsOK
    <3> QED BY <1>0, <1>4, <2>6, <3>1 DEF DeleteSnapshot, Return, Delayed
  <2>7. CASE ListSnapshots(h)
    <3>1. sid[h] \in Taken
      BY <2>7, SnapshotAssumption DEF ListSnapshots, LocalsOK
    <3> QED BY <1>0, <1>4, <2>7, <3>1 DEF ListSnapshots, Tell
  <2> QED BY <1>5, <2>1, <2>2, <2>3, <2>4, <2>5, <2>6, <2>7 DEF HandlerStep
<1>6. CASE Restart
  <2>1. \A h \in Handler : pc[h] = "delete" => sid[h] \in Taken
    BY SnapshotAssumption DEF LocalsOK
  <2> QED BY <1>0, <1>6, <2>1 DEF Restart, Delayed
<1>7. CASE \/ \E h \in Handler : Deadline(h)
           \/ CloudLateCreate \/ CloudStatus \/ CloudListing \/ VolumeChanges \/ UNCHANGED vars
  BY <1>2, <1>7 DEF Deadline, CloudLateCreate, CloudStatus, CloudListing, VolumeChanges, vars
<1>8. CASE CloudLateDelete
  BY <1>0, <1>8 DEF CloudLateDelete
<1> QED BY <1>3, <1>5, <1>6, <1>7, <1>8 DEF Next

LEMMA TypeStep == ASSUME TypeInv, [Next]_vars PROVE TypeInv'
<1>1. CASE UNCHANGED vars
  BY <1>1, TakenStep
     DEF TypeInv, Types, TypeOK, LocalsOK, CloudOK, Known, vars, handlerVars, cloudVars, wire
<1> QED BY <1>1, TakenStep, TypeArrive, TypeHandler, TypeWorld DEF Next, HandlerStep, TypeInv

LEMMA TypeInvariant == Spec => []TypeInv
BY TypeInit, TypeStep, PTL DEF Spec

(* Every variable keeps its type: a handler has the request or the         *)
(* snapshot its code uses at that point, and the bytes it answers.         *)
THEOREM TypeCorrect == Spec => []TypeOK
<1>1. TypeInv => TypeOK
  BY DEF TypeInv, Types
<1> QED BY <1>1, TypeInvariant, PTL
-----------------------------------------------------------------------------
(* The in-flight table. *)

(* How a step changes the set of busy handlers and their keys: one enters  *)
(* with a free key, one leaves, all leave, or nobody moves.                *)
Enters(h) == /\ h \notin Busy /\ KeyOf(h) \notin inFlight
             /\ KeyOf(h)' = KeyOf(h) /\ KeyOf(h) \in Name \cup SnapId
             /\ Busy' = Busy \cup {h} /\ inFlight' = inFlight \cup {KeyOf(h)}
             /\ \A g \in Busy : KeyOf(g)' = KeyOf(g)
Leaves(h) == h \in Busy /\ Return(h)
AllLeave  == Busy' = {} /\ inFlight' = {}
NoneMoves == UNCHANGED inFlight /\ Busy' = Busy /\ \A h \in Busy : KeyOf(h)' = KeyOf(h)

LEMMA KeysEntered ==
  ASSUME TypeInv, NEW h \in Handler, InsertKey(h)
  PROVE  Enters(h) \/ NoneMoves
<1> USE DEF TypeInv, Types, TypeOK, LocalsOK
<1>1. KeyOf(h) \in Name \cup SnapId
  BY RequestFields, SnapshotAssumption DEF InsertKey, KeyOf
<1>2. CASE /\ CanInsert(inFlight, KeyOf(h))
           /\ inFlight' = Insert(inFlight, KeyOf(h))
           /\ pc' = [pc EXCEPT ![h] = IF req[h] # None THEN "lookUp" ELSE "delete"]
           /\ UNCHANGED <<req, sid, bytes, live>>
  <2>1. Busy' = Busy \cup {h} /\ h \notin Busy
    BY <1>2 DEF InsertKey, Busy, Critical
  <2> QED BY <1>1, <1>2, <2>1 DEF Enters, CanInsert, Insert, KeyOf
<1>3. CASE Leave(h) /\ UNCHANGED inFlight
  BY <1>3 DEF InsertKey, Leave, NoneMoves, Busy, Critical, KeyOf
<1> QED BY <1>2, <1>3 DEF InsertKey

LEMMA KeysReturned ==
  ASSUME TypeInv, KeysExact, NEW h \in Busy, Return(h)
  PROVE  KeysExact' /\ Busy' = Busy \ {h} /\ \A g \in Busy \ {h} : KeyOf(g)' = KeyOf(g)
<1> USE DEF TypeInv, Types, TypeOK
<1>1. Busy' = Busy \ {h}
  BY DEF Return, Leave, Busy, Critical
<1>2. \A g \in Busy \ {h} : KeyOf(g)' = KeyOf(g)
  BY DEF Return, Leave, Busy, KeyOf
<1>3. inFlight' = inFlight \ {KeyOf(h)}
  BY DEF Return, Delete
<1> QED BY <1>1, <1>2, <1>3 DEF KeysExact

LEMMA StepKinds ==
  ASSUME TypeInv, [Next]_vars
  PROVE  NoneMoves \/ AllLeave \/ \E h \in Handler : Enters(h) \/ Leaves(h)
<1> USE DEF TypeInv, Types, TypeOK, Critical, Busy, KeyOf, handlerVars
<1>1. ASSUME NEW h \in Handler, CallCreate(h) \/ CallDelete(h) \/ CallList(h) \/ Deadline(h)
      PROVE  NoneMoves
  BY <1>1 DEF NoneMoves, CallCreate, CallDelete, CallList, Begin, Deadline
<1>2. ASSUME NEW h \in Handler, InsertKey(h) PROVE Enters(h) \/ NoneMoves
  BY <1>2, KeysEntered
<1>3. ASSUME NEW h \in Handler, LookUp(h) PROVE NoneMoves \/ Leaves(h)
  BY <1>3 DEF LookUp, GoTo, NoneMoves, Leaves
<1>4. ASSUME NEW h \in Handler, VolumeById(h) PROVE NoneMoves \/ Leaves(h)
  BY <1>4 DEF VolumeById, GoTo, NoneMoves, Leaves
<1>5. ASSUME NEW h \in Handler, CreateReplies(h) \/ CreateFails(h) \/ DeleteSnapshot(h)
      PROVE  Leaves(h)
  BY <1>5 DEF CreateReplies, CreateFails, DeleteSnapshot, Leaves
<1>6. ASSUME NEW h \in Handler, ListSnapshots(h) PROVE NoneMoves
  BY <1>6 DEF ListSnapshots, Leave, NoneMoves
<1>7. CASE Restart
  BY <1>7 DEF Restart, AllLeave, NewInFlight
<1>8. CASE CloudLateCreate \/ CloudLateDelete \/ CloudStatus \/ CloudListing \/ VolumeChanges
  BY <1>8 DEF CloudLateCreate, CloudLateDelete, CloudStatus, CloudListing, VolumeChanges,
              NoneMoves
<1>9. CASE UNCHANGED vars
  BY <1>9 DEF vars, NoneMoves
<1> QED BY <1>1, <1>2, <1>3, <1>4, <1>5, <1>6, <1>7, <1>8, <1>9 DEF Next, HandlerStep

LEMMA KeysStep == ASSUME TypeInv, KeysExact, [Next]_vars PROVE KeysExact'
<1>1. CASE NoneMoves
  BY <1>1 DEF NoneMoves, KeysExact
<1>2. CASE AllLeave
  BY <1>2 DEF AllLeave, KeysExact
<1>3. ASSUME NEW h \in Handler, Enters(h) PROVE KeysExact'
  BY <1>3 DEF Enters, KeysExact
<1>4. ASSUME NEW h \in Handler, Leaves(h) PROVE KeysExact'
  BY <1>4, KeysReturned DEF Leaves
<1> QED BY <1>1, <1>2, <1>3, <1>4, StepKinds

(* The table never loses a running handler's key nor keeps a finished one, *)
(* although CreateSnapshot keys it by name and DeleteSnapshot by id.       *)
THEOREM InFlightExact == Spec => []KeysExact
<1>1. Init => KeysExact
  BY DEF Init, KeysExact, Busy, Critical, NewInFlight
<1>2. TypeInv /\ KeysExact /\ [Next]_vars => KeysExact'
  BY KeysStep
<1> QED BY <1>1, <1>2, TypeInvariant, PTL DEF Spec

(* The handlers implement the abstract exclusion: under the refinement     *)
(* mapping every step starts one operation on a free key, ends one, ends   *)
(* them all, or changes nothing.                                           *)
THEOREM ExclusionRefined == Spec => ImplementsExclusion
<1>1. Init => Exclusion!Init
  BY DEF Init, Exclusion!Init, HeldKey, Busy, Critical
<1>2. ASSUME TypeInv, KeysExact, [Next]_vars
      PROVE  [Exclusion!Next]_HeldKey
  <2>0. \A h \in Busy : KeyOf(h) # None /\ KeyOf(h) \in Name \cup SnapId
    BY <1>2, RequestFields, SnapshotAssumption
       DEF TypeInv, Types, TypeOK, LocalsOK, Busy, Critical, CreatePcs, KeyOf
  <2>1. CASE NoneMoves
    BY <2>1 DEF NoneMoves, HeldKey, Busy
  <2>2. CASE AllLeave
    BY <2>2 DEF AllLeave, HeldKey, Busy, Exclusion!Next, Exclusion!Crash
  <2>3. ASSUME NEW h \in Handler, Enters(h) PROVE Exclusion!Next
    <3>1. HeldKey' = [HeldKey EXCEPT ![h] = KeyOf(h)]
      BY <2>3 DEF Enters, HeldKey, Busy
    <3>2. HeldKey[h] = None
      BY <2>3 DEF Enters, HeldKey, Busy
    <3>3. \A g \in Handler : HeldKey[g] # KeyOf(h)
      BY <1>2, <2>3, SnapshotAssumption DEF Enters, HeldKey, KeysExact, Busy
    <3>4. KeyOf(h) \in Name \cup SnapId
      BY <2>3 DEF Enters
    <3> QED BY <3>1, <3>2, <3>3, <3>4 DEF Exclusion!Next, Exclusion!Start
  <2>4. ASSUME NEW h \in Handler, Leaves(h) PROVE Exclusion!Next
    <3>1. Busy' = Busy \ {h} /\ \A g \in Busy \ {h} : KeyOf(g)' = KeyOf(g)
      BY <1>2, <2>4, KeysReturned DEF Leaves
    <3>2. HeldKey' = [HeldKey EXCEPT ![h] = None]
      BY <3>1 DEF HeldKey, Busy
    <3>3. HeldKey[h] # None
      BY <2>0, <2>4 DEF HeldKey, Leaves, Busy
    <3> QED BY <2>4, <3>2, <3>3 DEF Exclusion!Next, Exclusion!Finish
  <2> QED BY <1>2, <2>1, <2>2, <2>3, <2>4, StepKinds
<1> QED BY <1>1, <1>2, TypeInvariant, InFlightExact, PTL DEF Spec, ImplementsExclusion, Exclusion!Spec
-----------------------------------------------------------------------------
(* One snapshot per name. *)

(* What most steps do: no snapshot is new, and no handler is newly on its  *)
(* way to create one.                                                      *)
LiveKept ==
  \A s \in SnapId :
    LiveSnap(s)' => LiveSnap(s) /\ of'[s] = of[s] /\ (s \in listed => s \in listed')

CreatorsKept ==
  \A h \in Handler :
    pc'[h] \in {"volume", "create"} => pc[h] \in {"volume", "create"} /\ req'[h] = req[h]

LEMMA NameKept ==
  ASSUME NameInv, LiveKept, CreatorsKept, unsure \subseteq unsure', LateUnsure'
  PROVE  NameInv'
<1> USE DEF NameInv, LiveKept, CreatorsKept
<1>1. UnlistedUnsure'
  BY DEF UnlistedUnsure
<1>2. CreatorAlone'
  BY DEF CreatorAlone
<1>3. OneSnapshotPerName'
  BY DEF OneSnapshotPerName, LiveSnap
<1> QED BY <1>1, <1>2, <1>3

(* A snapshot is taken: of its name there is no other, nobody else is      *)
(* about to create one, and a listing shows it, or the name is unsure.     *)
LEMMA NameCreated ==
  ASSUME TypeInv, NameInv, NEW s \in SnapId, NEW r \in Request, CloudCreates(s, r),
         CreatorsKept, unsure \subseteq unsure', LateUnsure',
         s \notin listed' => r.name \in unsure',
         \A t \in SnapId : LiveSnap(t) /\ of[t].name = r.name => r.name \in unsure',
         \A g \in Handler : pc'[g] \in {"volume", "create"} /\ req'[g].name = r.name
                            => r.name \in unsure'
  PROVE  NameInv'
<1> USE DEF NameInv, CreatorsKept
<1>1. /\ ~LiveSnap(s) /\ LiveSnap(s)' /\ of'[s] = r
      /\ \A t \in SnapId \ {s} : LiveSnap(t)' = LiveSnap(t) /\ of'[t] = of[t]
      /\ listed \subseteq listed'
  BY DEF CloudCreates, LiveSnap, TypeInv, Types, TypeOK
<1>2. UnlistedUnsure'
  BY <1>1 DEF UnlistedUnsure
<1>3. CreatorAlone'
  BY <1>1 DEF CreatorAlone
<1>4. OneSnapshotPerName'
  <2>1. \A t \in SnapId : LiveSnap(t)' <=> status'[t] \in {"creating", "available", "failed"}
    BY DEF LiveSnap
  <2>2. SUFFICES ASSUME NEW t \in SnapId, NEW u \in SnapId, t # u, LiveSnap(t)', LiveSnap(u)',
                        of'[t].name = of'[u].name
                 PROVE  of'[t].name \in unsure'
    BY <2>1 DEF OneSnapshotPerName
  <2>3. CASE t # s /\ u # s
    BY <1>1, <2>2, <2>3 DEF OneSnapshotPerName, LiveSnap
  <2>4. CASE t = s \/ u = s
    BY <1>1, <2>2, <2>4
  <2> QED BY <2>3, <2>4
<1> QED BY <1>2, <1>3, <1>4

LEMMA NameHandler ==
  ASSUME TypeInv, KeysExact, NameInv, NEW h \in Handler, HandlerStep(h)
  PROVE  NameInv'
<1> USE DEF cloudVars, wire, history
<1>0. ASSUME Leave(h) PROVE CreatorsKept /\ pc'[h] = "idle"
  BY <1>0 DEF Leave, CreatorsKept, TypeInv, Types, TypeOK
<1>1. ASSUME UNCHANGED <<status, of, listed>> PROVE LiveKept
  BY <1>1 DEF LiveKept, LiveSnap
<1>2. ASSUME UNCHANGED <<late, unsure>> PROVE LateUnsure' /\ unsure \subseteq unsure'
  BY <1>2 DEF NameInv, LateUnsure
<1>3. CASE InsertKey(h)
  <2>1. CreatorsKept
    BY <1>0, <1>3 DEF InsertKey, CreatorsKept, TypeInv, Types, TypeOK
  <2> QED BY <1>1, <1>2, <1>3, <2>1, NameKept DEF InsertKey
<1>4. CASE LookUp(h)
  <2>1. CASE Return(h) /\ UNCHANGED unsure
    BY <1>0, <1>1, <1>2, <1>4, <2>1, NameKept DEF LookUp, Return
  <2>2. CASE Found(req[h].name) = {} /\ GoTo(h, "volume") /\ UNCHANGED history
    <3>1. \A s \in SnapId : LiveSnap(s) /\ of[s].name = req[h].name => of[s].name \in unsure
      BY <2>2 DEF Found, NameInv, UnlistedUnsure
    <3>2. \A g \in Handler : g # h => pc'[g] = pc[g] /\ req'[g] = req[g]
      BY <2>2 DEF GoTo, TypeInv, Types, TypeOK
    <3>3. CreatorAlone'
      BY <1>4, <2>2, <3>1, <3>2 DEF LookUp, GoTo, NameInv, CreatorAlone, LiveSnap
    <3> QED BY <1>4, <2>2, <3>3
            DEF LookUp, NameInv, LateUnsure, UnlistedUnsure, OneSnapshotPerName, LiveSnap
  <2> QED BY <1>4, <2>1, <2>2 DEF LookUp
<1>5. CASE VolumeById(h)
  <2>1. CreatorsKept
    BY <1>0, <1>5 DEF VolumeById, Return, GoTo, CreatorsKept, TypeInv, Types, TypeOK
  <2> QED BY <1>1, <1>2, <1>5, <2>1, NameKept DEF VolumeById
<1>6. CASE CreateReplies(h)
  <2>1. PICK s \in SnapId :
          /\ CloudCreates(s, req[h])
          /\ unsure' = IF s \in listed' THEN unsure ELSE unsure \cup {req[h].name}
    BY <1>6 DEF CreateReplies
  <2>2. req[h] \in Request /\ h \in Busy /\ KeyOf(h) = req[h].name
    BY <1>6, SnapshotAssumption
       DEF CreateReplies, TypeInv, Types, LocalsOK, CreatePcs, Busy, Critical, KeyOf
  <2>3. CreatorsKept /\ pc'[h] = "idle"
    BY <1>0, <1>6 DEF CreateReplies, Return
  <2>4. ASSUME NEW g \in Handler, pc'[g] \in {"volume", "create"}
        PROVE  req'[g].name # req[h].name
    <3>1. g # h /\ pc[g] \in {"volume", "create"} /\ req'[g] = req[g]
      BY <2>3, <2>4 DEF CreatorsKept
    <3>2. g \in Busy /\ KeyOf(g) = req[g].name
      BY <3>1, SnapshotAssumption DEF TypeInv, Types, LocalsOK, CreatePcs, Busy, Critical, KeyOf
    <3> QED BY <2>2, <3>1, <3>2 DEF KeysExact
  <2>5. unsure \subseteq unsure' /\ LateUnsure' /\ (s \notin listed' => req[h].name \in unsure')
    BY <1>6, <2>1 DEF CreateReplies, NameInv, LateUnsure
  <2>6. \A t \in SnapId : LiveSnap(t) /\ of[t].name = req[h].name => req[h].name \in unsure'
    BY <1>6, <2>5 DEF CreateReplies, NameInv, CreatorAlone
  <2> QED BY <2>1, <2>2, <2>3, <2>4, <2>5, <2>6, NameCreated
<1>7. CASE CreateFails(h)
  <2>1. LateUnsure' /\ unsure \subseteq unsure'
    BY <1>7 DEF CreateFails, NameInv, LateUnsure
  <2> QED BY <1>0, <1>1, <1>7, <2>1, NameKept DEF CreateFails, Return
<1>8. CASE DeleteSnapshot(h)
  <2>1. LiveKept
    BY <1>8 DEF DeleteSnapshot, CloudDeletes, LiveKept, LiveSnap, TypeInv, Types, TypeOK
  <2> QED BY <1>0, <1>2, <1>8, <2>1, NameKept DEF DeleteSnapshot, Return
<1>9. CASE ListSnapshots(h)
  BY <1>0, <1>1, <1>2, <1>9, NameKept DEF ListSnapshots
<1> QED BY <1>3, <1>4, <1>5, <1>6, <1>7, <1>8, <1>9 DEF HandlerStep

LEMMA NameStep == ASSUME TypeInv, KeysExact, NameInv, [Next]_vars PROVE NameInv'
<1> USE DEF handlerVars, cloudVars, wire, history
<1>1. ASSUME UNCHANGED <<status, of, listed>> PROVE LiveKept
  BY <1>1 DEF LiveKept, LiveSnap
<1>2. ASSUME UNCHANGED <<late, unsure>> PROVE LateUnsure' /\ unsure \subseteq unsure'
  BY <1>2 DEF NameInv, LateUnsure
<1>3. ASSUME UNCHANGED <<pc, req>> PROVE CreatorsKept
  BY <1>3 DEF CreatorsKept
<1>4. ASSUME NEW h \in Handler, CallCreate(h) \/ CallDelete(h) \/ CallList(h) PROVE NameInv'
  <2>1. CreatorsKept
    BY <1>4 DEF CallCreate, CallDelete, CallList, Begin, CreatorsKept, TypeInv, Types, TypeOK
  <2> QED BY <1>1, <1>2, <1>4, <2>1, NameKept DEF CallCreate, CallDelete, CallList, Begin
<1>5. ASSUME NEW h \in Handler, Deadline(h) PROVE NameInv'
  BY <1>1, <1>2, <1>3, <1>5, NameKept DEF Deadline
<1>6. CASE Restart
  <2>1. CreatorsKept
    BY <1>6 DEF Restart, CreatorsKept
  <2>2. PICK sent \in SUBSET {h \in Handler : pc[h] = "create"} :
          late' = late \cup {req[h] : h \in sent} /\ unsure' = unsure \cup {req[h].name : h \in sent}
    BY <1>6 DEF Restart
  <2>3. LateUnsure' /\ unsure \subseteq unsure'
    BY <2>2 DEF NameInv, LateUnsure
  <2> QED BY <1>1, <1>6, <2>1, <2>3, NameKept DEF Restart
<1>7. CASE CloudLateCreate
  <2>1. PICK r \in late, s \in SnapId : late' = late \ {r} /\ CloudCreates(s, r)
    BY <1>7 DEF CloudLateCreate
  <2>2. r \in Request /\ r.name \in unsure
    BY DEF TypeInv, Types, TypeOK, NameInv, LateUnsure
  <2>3. LateUnsure' /\ UNCHANGED unsure /\ CreatorsKept
    BY <1>3, <1>7, <2>1 DEF CloudLateCreate, NameInv, LateUnsure
  <2> QED BY <2>1, <2>2, <2>3, NameCreated
<1>8. CASE CloudLateDelete
  <2>1. LiveKept
    BY <1>8 DEF CloudLateDelete, CloudDeletes, LiveKept, LiveSnap, TypeInv, Types, TypeOK
  <2> QED BY <1>2, <1>3, <1>8, <2>1, NameKept DEF CloudLateDelete
<1>9. CASE CloudStatus
  <2>1. LiveKept
    BY <1>9 DEF CloudStatus, LiveKept, LiveSnap, TypeInv, Types, TypeOK
  <2> QED BY <1>2, <1>3, <1>9, <2>1, NameKept DEF CloudStatus
<1>10. CASE CloudListing
  <2>1. LiveKept
    BY <1>10 DEF CloudListing, LiveKept, LiveSnap
  <2> QED BY <1>2, <1>3, <1>10, <2>1, NameKept DEF CloudListing
<1>11. CASE VolumeChanges \/ UNCHANGED vars
  BY <1>1, <1>2, <1>3, <1>11, NameKept DEF VolumeChanges, vars
<1> QED BY <1>4, <1>5, <1>6, <1>7, <1>8, <1>9, <1>10, <1>11, NameHandler DEF Next

(* A retry, a late reply or a slow listing gives a name a second snapshot  *)
(* only when a create call ended before its snapshot could be found.       *)
THEOREM NameHasOneSnapshot == Spec => []OneSnapshotPerName
<1>1. Init => NameInv
  BY DEF Init, NameInv, LateUnsure, UnlistedUnsure, CreatorAlone, OneSnapshotPerName, LiveSnap
<1>2. TypeInv /\ KeysExact /\ NameInv /\ [Next]_vars => NameInv'
  BY NameStep
<1>3. NameInv => OneSnapshotPerName
  BY DEF NameInv
<1> QED BY <1>1, <1>2, <1>3, TypeInvariant, InFlightExact, PTL DEF Spec
-----------------------------------------------------------------------------
(* What the answers say. *)

LEMMA ReadStep ==
  ASSUME TypeInv, ReadStillThere, [Next]_vars
  PROVE  ReadStillThere'
<1> USE DEF TypeInv, Types, TypeOK, ReadStillThere, handlerVars, cloudVars
<1>1. CASE /\ UNCHANGED capacity
           /\ \A h \in Handler : pc'[h] = "create" => /\ pc[h] = "create" /\ req'[h] = req[h]
                                                     /\ bytes'[h] = bytes[h]
  BY <1>1
<1>2. ASSUME NEW h \in Handler,
             CallCreate(h) \/ CallDelete(h) \/ CallList(h) \/ Deadline(h) \/ InsertKey(h)
      PROVE  ReadStillThere'
  BY <1>1, <1>2 DEF CallCreate, CallDelete, CallList, Begin, Deadline, InsertKey, Leave
<1>3. ASSUME NEW h \in Handler, LookUp(h) PROVE ReadStillThere'
  BY <1>1, <1>3 DEF LookUp, GoTo, Return, Leave
<1>4. ASSUME NEW h \in Handler, VolumeById(h) PROVE ReadStillThere'
  <2>1. CASE Return(h)
    BY <1>1, <1>4, <2>1 DEF VolumeById, Return, Leave
  <2>2. CASE bytes' = [bytes EXCEPT ![h] = capacity[req[h].source]] /\ GoTo(h, "create")
    <3>1. req[h] \in Request
      BY <1>4 DEF VolumeById, LocalsOK, CreatePcs
    <3>2. capacity[req[h].source] \in Nat
      BY <3>1, RequestFields
    <3> QED BY <1>4, <2>2, <3>2 DEF VolumeById, GoTo
  <2> QED BY <1>4, <2>1, <2>2 DEF VolumeById
<1>5. ASSUME NEW h \in Handler, CreateReplies(h) \/ CreateFails(h) \/ DeleteSnapshot(h) \/ ListSnapshots(h)
      PROVE  ReadStillThere'
  <2>1. Leave(h) /\ UNCHANGED capacity
    BY <1>5 DEF CreateReplies, CreateFails, DeleteSnapshot, ListSnapshots, Return, CloudCreates
  <2> QED BY <1>1, <2>1 DEF Leave
<1>6. CASE Restart
  BY <1>1, <1>6 DEF Restart
<1>7. CASE CloudLateCreate \/ CloudLateDelete \/ CloudStatus \/ CloudListing \/ UNCHANGED vars
  BY <1>1, <1>7 DEF CloudLateCreate, CloudCreates, CloudLateDelete, CloudStatus, CloudListing, vars
<1>8. CASE VolumeChanges
  <2>1. PICK v \in Volume :
          /\ capacity[v] > 0
          /\ \E c \in {0} \cup (capacity[v] + 1)..MaxCapacity :
               capacity' = [capacity EXCEPT ![v] = c]
    BY <1>8 DEF VolumeChanges
  <2>2. PICK c \in {0} \cup (capacity[v] + 1)..MaxCapacity : capacity' = [capacity EXCEPT ![v] = c]
    BY <2>1
  <2>3. c = 0 \/ c > capacity[v]
    OBVIOUS
  <2>4. ASSUME NEW h \in Handler, pc'[h] = "create"
        PROVE  capacity'[req'[h].source] = 0 \/ bytes'[h] <= capacity'[req'[h].source]
    <3>1. pc[h] = "create" /\ req'[h] = req[h] /\ bytes'[h] = bytes[h] /\ bytes[h] \in Nat
      BY <1>8, <2>4 DEF VolumeChanges
    <3>2. req[h].source \in Volume
      BY <3>1, RequestFields DEF LocalsOK, CreatePcs
    <3>3. CASE req[h].source # v
      BY <2>2, <3>1, <3>2, <3>3
    <3>4. CASE req[h].source = v
      <4>1. capacity'[v] = c /\ c \in Nat /\ capacity[v] \in Nat /\ bytes[h] > 0
        BY <2>2, <3>1, SnapshotAssumption
      <4>2. bytes[h] <= capacity[v]
        BY <2>1, <3>1, <3>4, <4>1
      <4>3. req'[h].source = v
        BY <3>1, <3>4
      <4>4. c = 0 \/ bytes[h] <= c
        BY <2>3, <3>1, <4>1, <4>2
      <4> QED BY <3>1, <4>1, <4>3, <4>4
    <3> QED BY <3>3, <3>4
  <2> QED BY <2>4
<1> QED BY <1>2, <1>3, <1>4, <1>5, <1>6, <1>7, <1>8 DEF Next, HandlerStep

LEMMA AnswerStep ==
  ASSUME TypeInv, ReadStillThere, AnswersFit, [Next]_vars
  PROVE  AnswersFit'
<1> USE DEF TypeInv, Types, TypeOK
<1>1. CASE Silent
  BY <1>1 DEF Silent, AnswersFit
<1>2. CASE UNCHANGED vars
  BY <1>2 DEF vars, cloudVars, AnswersFit
<1>3. ASSUME NEW h \in Handler, NEW s, NEW b, NEW ready, Tell(h, s, b, ready), answer' # None
      PROVE  answer' = [req |-> req[h], id |-> s, size |-> b, ready |-> ready]
  BY <1>3 DEF Tell
<1>4. ASSUME NEW h \in Handler, LookUp(h) PROVE AnswersFit'
  <2>1. ASSUME NEW s \in Found(req[h].name), of[s].source = req[h].source,
               Tell(h, s, size[s], ReadyToUse(s))
        PROVE  AnswersFit'
    <3>1. req[h] \in Request /\ s \in SnapId /\ of[s] \in Request
      BY <1>4 DEF LookUp, LocalsOK, CreatePcs, Found, CloudOK
    <3>2. of[s] = req[h]
      BY <2>1, <3>1, SameRequest DEF Found
    <3>3. CASE answer' = None
      BY <3>3 DEF AnswersFit
    <3>4. CASE answer' # None
      <4>1. answer' = [req |-> req[h], id |-> s, size |-> size[s], ready |-> ReadyToUse(s)]
        BY <1>3, <2>1, <3>4
      <4>2. size[s] \in Nat
        BY <3>1
      <4>3. answer'.ready => ReadyToUse(s)
        BY <4>1
      <4>4. answer'.ready => status'[s] = "available"
        BY <1>4, <4>3 DEF LookUp, cloudVars, ReadyToUse
      <4> QED BY <1>4, <3>2, <4>1, <4>2, <4>4 DEF LookUp, cloudVars, AnswersFit
    <3> QED BY <3>3, <3>4
  <2> QED BY <1>1, <1>4, <2>1 DEF LookUp
<1>5. ASSUME NEW h \in Handler, CreateReplies(h) PROVE AnswersFit'
  <2>1. PICK s \in SnapId : CloudCreates(s, req[h]) /\ Tell(h, s, bytes[h], FALSE)
    BY <1>5 DEF CreateReplies
  <2>2. req[h] \in Request /\ req[h].source \in Volume
    BY <1>5, RequestFields DEF CreateReplies, LocalsOK, CreatePcs
  <2>3. of'[s] = req[h] /\ size'[s] = capacity[req[h].source] /\ capacity[req[h].source] > 0
    BY <2>1 DEF CloudCreates
  <2>4. bytes[h] <= size'[s]
    BY <1>5, <2>2, <2>3 DEF CreateReplies, ReadStillThere
  <2>5. CASE answer' = None
    BY <2>5 DEF AnswersFit
  <2>6. CASE answer' # None
    <3>1. answer' = [req |-> req[h], id |-> s, size |-> bytes[h], ready |-> FALSE]
      BY <1>3, <2>1, <2>6
    <3> QED BY <2>3, <2>4, <3>1 DEF AnswersFit
  <2> QED BY <2>5, <2>6
<1>6. ASSUME NEW h \in Handler, ListSnapshots(h) PROVE AnswersFit'
  <2>1. CASE Tell(h, sid[h], size[sid[h]], ReadyToUse(sid[h])) /\ answer' # None
    <3>1. req[h] = None /\ sid[h] \in SnapId
      BY <1>6 DEF ListSnapshots, LocalsOK
    <3>2. answer' = [req |-> None, id |-> sid[h], size |-> size[sid[h]], ready |-> ReadyToUse(sid[h])]
      BY <1>3, <2>1, <3>1
    <3>3. size[sid[h]] \in Nat
      BY <3>1
    <3>4. answer'.ready => ReadyToUse(sid[h])
      BY <3>2
    <3>5. answer'.ready => status'[sid[h]] = "available"
      BY <1>6, <3>4 DEF ListSnapshots, cloudVars, ReadyToUse
    <3> QED BY <1>6, <3>2, <3>3, <3>5 DEF ListSnapshots, cloudVars, AnswersFit
  <2>2. CASE answer' = None
    BY <2>2 DEF AnswersFit
  <2> QED BY <1>1, <1>6, <2>1, <2>2 DEF ListSnapshots
<1> QED BY <1>1, <1>2, <1>4, <1>5, <1>6
        DEF Next, HandlerStep, CallCreate, CallDelete, CallList, Begin, Deadline, InsertKey,
            VolumeById, CreateFails, DeleteSnapshot, Restart, CloudLateCreate, CloudLateDelete,
            CloudStatus, CloudListing, VolumeChanges

(* Whatever the volumes do between the read and the create call, an answer *)
(* is about the snapshot that was asked for and promises no more bytes     *)
(* than it has, and no snapshot is called ready before it is.              *)
THEOREM AnswersAreTrue == Spec => []AnswersFit
<1>1. Init => ReadStillThere /\ AnswersFit
  BY DEF Init, ReadStillThere, AnswersFit
<1>2. TypeInv /\ ReadStillThere /\ AnswersFit /\ [Next]_vars => ReadStillThere' /\ AnswersFit'
  BY ReadStep, AnswerStep
<1> QED BY <1>1, <1>2, TypeInvariant, PTL DEF Spec
=============================================================================
