--------------------------- MODULE EbsAttachProofs ---------------------------
(***************************************************************************)
(* Proofs about EbsAttach for any number of handlers, volumes, nodes and   *)
(* restarts.                                                               *)
(***************************************************************************)
EXTENDS EbsAttach, FiniteSetTheorems, TLAPS

(* What a handler's locals hold while it runs.                             *)
LocalsOK ==
  \A h \in Handler : /\ pc[h] # "idle" => vol[h] \in Volume /\ target[h] \in Node
                     /\ live[h] => pc[h] # "idle"

TypeInv == TypeOK /\ LocalsOK

PublishPcs   == {"publish", "checkNode", "attach", "waitAttached"}
UnpublishPcs == {"unpublish", "detach", "waitAvailable"}

(* The attacher waits for one call of a pair at a time, and what it was    *)
(* answered before does not count any more while it waits for the opposite.*)
LiveAlone ==
  \A g, h \in Handler : live[g] /\ live[h] /\ PairOf(g) = PairOf(h) => g = h

LiveRetracts ==
  \A h \in Handler :
    live[h] => /\ pc[h] \in PublishPcs => PairOf(h) \notin unpublished
               /\ pc[h] \in UnpublishPcs => PairOf(h) \notin published

(* A request that may be carried out late is one of an unsettled pair.     *)
LateUnsettled == \A c \in late : <<c.vol, c.node>> \in unsettled

(* Exactly a volume on its way to, on, or from a node has one.             *)
FreeNowhere ==
  \A v \in Volume : status[v] \in {"available", "deleted"} <=> node[v] = None

(* WaitVolumeBeStatus does not compare the node; the volume it waits for   *)
(* is on its way to the right one nevertheless.                            *)
AwaitedOnNode ==
  \A h \in Handler :
    live[h] /\ pc[h] = "waitAttached"
      => \/ PairOf(h) \in unsettled
         \/ status[vol[h]] \in {"attaching", "attached"} /\ node[vol[h]] = target[h]

AttachInv ==
  /\ TypeInv /\ LiveAlone /\ LiveRetracts /\ LateUnsettled /\ FreeNowhere /\ AwaitedOnNode
  /\ PublishedIsAttached /\ UnpublishedIsDetached
-----------------------------------------------------------------------------
LEMMA AttachInit == Init => AttachInv
BY AttachAssumption
   DEF Init, AttachInv, TypeInv, TypeOK, LocalsOK, LiveAlone, LiveRetracts, LateUnsettled,
       FreeNowhere, AwaitedOnNode, PublishedIsAttached, UnpublishedIsDetached,
       Pc, Status, PublishPcs, UnpublishPcs

(* A call arrives: its pair has no other live call, and what was answered  *)
(* for the pair is retracted.                                              *)
LEMMA StepBegin ==
  ASSUME AttachInv, NEW h \in Handler, BeginPublish(h) \/ BeginUnpublish(h)
  PROVE  AttachInv'
<1> USE AttachAssumption DEF AttachInv, TypeInv, TypeOK, LocalsOK, Pc, Begin, cloudVars
<1>1. CASE BeginPublish(h)
  <2>1. PICK v \in Volume, n \in Node :
          /\ Begin(h, v, n, "publish")
          /\ unpublished' = unpublished \ {<<v, n>>}
          /\ UNCHANGED published
    BY <1>1 DEF BeginPublish
  <2>2. TypeInv'
    BY <2>1
  <2>3. LiveAlone' /\ LiveRetracts'
    BY <2>1 DEF LiveAlone, LiveRetracts, PairOf, PublishPcs, UnpublishPcs
  <2>4. AwaitedOnNode'
    BY <2>1 DEF AwaitedOnNode, PairOf
  <2> QED BY <2>1, <2>2, <2>3, <2>4
          DEF LateUnsettled, FreeNowhere, PublishedIsAttached, UnpublishedIsDetached
<1>2. CASE BeginUnpublish(h)
  <2>1. PICK v \in Volume, n \in Node :
          /\ Begin(h, v, n, "unpublish")
          /\ published' = published \ {<<v, n>>}
          /\ UNCHANGED unpublished
    BY <1>2 DEF BeginUnpublish
  <2>2. TypeInv'
    BY <2>1
  <2>3. LiveAlone' /\ LiveRetracts'
    BY <2>1 DEF LiveAlone, LiveRetracts, PairOf, PublishPcs, UnpublishPcs
  <2>4. AwaitedOnNode'
    BY <2>1 DEF AwaitedOnNode, PairOf
  <2> QED BY <2>1, <2>2, <2>3, <2>4
          DEF LateUnsettled, FreeNowhere, PublishedIsAttached, UnpublishedIsDetached
<1> QED BY <1>1, <1>2

LEMMA StepDeadline ==
  ASSUME AttachInv, NEW h \in Handler, Deadline(h)
  PROVE  AttachInv'
BY DEF Deadline, AttachInv, TypeInv, TypeOK, LocalsOK, LiveAlone, LiveRetracts, LateUnsettled,
       FreeNowhere, AwaitedOnNode, PublishedIsAttached, UnpublishedIsDetached, PairOf,
       cloudVars, history

(* What holds of the handlers after one of them has returned.              *)
LEMMA Returned ==
  ASSUME AttachInv, NEW h \in Handler, Return(h), UNCHANGED cloudVars,
         unsettled \subseteq unsettled'
  PROVE  /\ pc' \in [Handler -> Pc]
         /\ vol' \in [Handler -> Volume \cup {None}]
         /\ target' \in [Handler -> Node \cup {None}]
         /\ live' \in [Handler -> BOOLEAN]
         /\ LocalsOK' /\ LiveAlone' /\ AwaitedOnNode'
         /\ \A g \in Handler : live'[g] => /\ g # h /\ live[g] /\ pc'[g] = pc[g]
                                           /\ PairOf(g)' = PairOf(g)
<1> USE DEF AttachInv, TypeInv, TypeOK, LocalsOK, Pc, Return, cloudVars
<1>1. LocalsOK' /\ LiveAlone'
  BY DEF LiveAlone, PairOf
<1>2. AwaitedOnNode'
  BY DEF AwaitedOnNode, PairOf
<1> QED BY <1>1, <1>2 DEF PairOf

LEMMA StepError ==
  ASSUME AttachInv, NEW h \in Handler, AnswerError(h), UNCHANGED <<cloudVars, late, restarts>>
  PROVE  AttachInv'
<1>1. Return(h) /\ UNCHANGED <<cloudVars, late, history, restarts>>
  BY DEF AnswerError
<1>2. TypeInv' /\ LiveAlone' /\ LiveRetracts' /\ AwaitedOnNode'
  BY <1>1, Returned DEF AttachInv, TypeInv, TypeOK, LiveRetracts, cloudVars, history
<1> QED BY <1>1, <1>2
        DEF AttachInv, LateUnsettled, FreeNowhere, PublishedIsAttached, UnpublishedIsDetached,
            cloudVars, history

(* OK to a publish: the volume is where the caller is told, now.           *)
LEMMA StepPublished ==
  ASSUME AttachInv, NEW h \in Handler, AnswerPublished(h), UNCHANGED <<cloudVars, late, restarts>>,
         pc[h] \in PublishPcs,
         live[h] => \/ PairOf(h) \in unsettled
                    \/ status[vol[h]] = "attached" /\ node[vol[h]] = target[h]
  PROVE  AttachInv'
<1> USE DEF AttachInv, TypeInv, cloudVars, history
<1>0. PairOf(h) \in Pair /\ UNCHANGED <<unpublished, unsettled>> /\ Return(h)
  BY DEF AnswerPublished, TypeOK, LocalsOK, PairOf, Pair, PublishPcs
<1>1. published' \subseteq published \cup {PairOf(h)}
  BY DEF AnswerPublished
<1>2. TypeInv' /\ LiveAlone' /\ AwaitedOnNode'
  BY <1>0, <1>1, Returned DEF TypeOK
<1>3. LiveRetracts'
  <2> SUFFICES ASSUME NEW g \in Handler, live'[g]
               PROVE  /\ pc'[g] \in PublishPcs => PairOf(g)' \notin unpublished'
                      /\ pc'[g] \in UnpublishPcs => PairOf(g)' \notin published'
    BY DEF LiveRetracts
  <2>1. g # h /\ live[g] /\ pc'[g] = pc[g] /\ PairOf(g)' = PairOf(g)
    BY <1>0, Returned
  <2>2. live[h] => PairOf(g) # PairOf(h)
    BY <2>1 DEF LiveAlone
  <2> QED BY <1>0, <2>1, <2>2 DEF LiveRetracts, AnswerPublished
<1>4. PublishedIsAttached'
  BY <1>0 DEF AnswerPublished, PublishedIsAttached, PairOf
<1> QED BY <1>0, <1>2, <1>3, <1>4 DEF LateUnsettled, FreeNowhere, UnpublishedIsDetached

(* OK to an unpublish: the volume is not on that node, now.                *)
LEMMA StepUnpublished ==
  ASSUME AttachInv, NEW h \in Handler, AnswerUnpublished(h), UNCHANGED <<cloudVars, late, restarts>>,
         pc[h] \in UnpublishPcs, node[vol[h]] # target[h]
  PROVE  AttachInv'
<1> USE DEF AttachInv, TypeInv, cloudVars, history
<1>0. PairOf(h) \in Pair /\ UNCHANGED <<published, unsettled>> /\ Return(h)
  BY DEF AnswerUnpublished, TypeOK, LocalsOK, PairOf, Pair, UnpublishPcs
<1>1. unpublished' \subseteq unpublished \cup {PairOf(h)}
  BY DEF AnswerUnpublished
<1>2. TypeInv' /\ LiveAlone' /\ AwaitedOnNode'
  BY <1>0, <1>1, Returned DEF TypeOK
<1>3. LiveRetracts'
  <2> SUFFICES ASSUME NEW g \in Handler, live'[g]
               PROVE  /\ pc'[g] \in PublishPcs => PairOf(g)' \notin unpublished'
                      /\ pc'[g] \in UnpublishPcs => PairOf(g)' \notin published'
    BY DEF LiveRetracts
  <2>1. g # h /\ live[g] /\ pc'[g] = pc[g] /\ PairOf(g)' = PairOf(g)
    BY <1>0, Returned
  <2>2. live[h] => PairOf(g) # PairOf(h)
    BY <2>1 DEF LiveAlone
  <2> QED BY <1>0, <2>1, <2>2 DEF LiveRetracts, AnswerUnpublished
<1>4. UnpublishedIsDetached'
  BY <1>0 DEF AnswerUnpublished, UnpublishedIsDetached, PairOf
<1> QED BY <1>0, <1>2, <1>3, <1>4 DEF LateUnsettled, FreeNowhere, PublishedIsAttached

(* A handler goes on to its next call within the same RPC.                 *)
LEMMA StepGoTo ==
  ASSUME AttachInv, NEW h \in Handler, NEW next \in Pc, GoTo(h, next),
         UNCHANGED <<cloudVars, late, restarts>>,
         next # "waitAttached", next # "idle", pc[h] # "idle",
         next \in PublishPcs => pc[h] \in PublishPcs,
         next \in UnpublishPcs => pc[h] \in UnpublishPcs
  PROVE  AttachInv'
<1> USE DEF AttachInv, TypeInv, TypeOK, GoTo, cloudVars, history
<1>1. TypeInv'
  BY DEF LocalsOK
<1>2. LiveAlone'
  BY DEF LiveAlone, PairOf
<1>3. LiveRetracts'
  BY DEF LiveRetracts, PairOf
<1>4. AwaitedOnNode'
  BY DEF AwaitedOnNode, PairOf
<1> QED BY <1>1, <1>2, <1>3, <1>4
        DEF LateUnsettled, FreeNowhere, PublishedIsAttached, UnpublishedIsDetached
-----------------------------------------------------------------------------
(* What the cloud does with a request keeps every promise: it is for an    *)
(* unsettled pair, or of a live handler whose pair the caller has asked to *)
(* change.  Only the sender of an attach begins to wait for the volume.    *)
LEMMA Accepted ==
  ASSUME AttachInv, NEW c \in Call, CloudAccepts(c),
         \/ <<c.vol, c.node>> \in unsettled
         \/ c.op = "attach" /\ <<c.vol, c.node>> \notin unpublished
         \/ /\ c.op = "detach" /\ <<c.vol, c.node>> \notin published
            /\ \A h \in Handler : PairOf(h) = <<c.vol, c.node>> /\ live[h] => pc[h] # "waitAttached",
         UNCHANGED <<vol, target, live, history>>,
         \A g \in Handler :
           live[g] /\ pc'[g] = "waitAttached"
             => pc[g] = "waitAttached" \/ (c.op = "attach" /\ PairOf(g) = <<c.vol, c.node>>)
  PROVE  /\ status' \in [Volume -> Status] /\ node' \in [Volume -> Node \cup {None}]
         /\ FreeNowhere' /\ AwaitedOnNode' /\ PublishedIsAttached' /\ UnpublishedIsDetached'
<1> USE AttachAssumption DEF AttachInv, TypeInv, TypeOK, LocalsOK, Call, Status, handlerVars,
        history, CloudAccepts
<1>1. status' \in [Volume -> Status] /\ node' \in [Volume -> Node \cup {None}]
  OBVIOUS
<1>2. FreeNowhere'
  BY DEF FreeNowhere
<1>3. AwaitedOnNode'
  BY DEF AwaitedOnNode, PairOf, FreeNowhere
<1>4. PublishedIsAttached'
  BY DEF PublishedIsAttached, Pair
<1>5. UnpublishedIsDetached'
  BY DEF UnpublishedIsDetached, Pair
<1> QED BY <1>1, <1>2, <1>3, <1>4, <1>5

(* AttachVolume and DetachVolume.                                          *)
LEMMA StepApiCall ==
  ASSUME AttachInv, NEW h \in Handler, AttachVolume(h) \/ DetachVolume(h)
  PROVE  AttachInv'
<1> DEFINE next == IF pc[h] = "attach" THEN "waitAttached" ELSE "waitAvailable"
           c    == CallOf(h)
<1> USE DEF AttachInv, TypeInv
<1>0. pc[h] \in {"attach", "detach"} /\ ApiCall(h, next) /\ UNCHANGED restarts
  BY DEF AttachVolume, DetachVolume, ApiCall
<1>1. c \in Call /\ PairOf(h) \in Pair /\ <<c.vol, c.node>> = PairOf(h)
  BY <1>0 DEF CallOf, Call, PairOf, Pair, TypeOK, LocalsOK
<1>2. CASE live[h] /\ CloudAccepts(c) /\ GoTo(h, next) /\ UNCHANGED late
  <2>1. \A g \in Handler :
          live[g] /\ pc'[g] = "waitAttached"
            => pc[g] = "waitAttached" \/ (c.op = "attach" /\ PairOf(g) = <<c.vol, c.node>>)
    BY <1>0, <1>1, <1>2 DEF GoTo, CallOf, TypeOK
  <2>2. \/ c.op = "attach" /\ <<c.vol, c.node>> \notin unpublished
        \/ /\ c.op = "detach" /\ <<c.vol, c.node>> \notin published
           /\ \A g \in Handler : PairOf(g) = <<c.vol, c.node>> /\ live[g] => pc[g] # "waitAttached"
    BY <1>0, <1>1, <1>2 DEF CallOf, LiveRetracts, LiveAlone, PublishPcs, UnpublishPcs
  <2>3. /\ status' \in [Volume -> Status] /\ node' \in [Volume -> Node \cup {None}]
        /\ FreeNowhere' /\ AwaitedOnNode' /\ PublishedIsAttached' /\ UnpublishedIsDetached'
    <3> HIDE DEF c
    <3> QED BY <1>1, <1>2, <2>1, <2>2, Accepted DEF GoTo
  <2>4. TypeInv' /\ LiveAlone' /\ LiveRetracts' /\ LateUnsettled'
    <3>1. TypeInv'
      BY <1>0, <1>2, <2>3 DEF GoTo, TypeOK, LocalsOK, Pc, history
    <3>2. LiveAlone'
      BY <1>2 DEF GoTo, LiveAlone, PairOf
    <3>3. LiveRetracts'
      BY <1>0, <1>2 DEF GoTo, LiveRetracts, PairOf, TypeOK, PublishPcs, UnpublishPcs, history
    <3> QED BY <1>2, <3>1, <3>2, <3>3 DEF GoTo, LateUnsettled, history
  <2> QED BY <2>3, <2>4
<1>3. CASE AnswerError(h) /\ UNCHANGED <<cloudVars, late>>
  BY <1>0, <1>3, StepError
<1>4. CASE /\ Return(h)
           /\ late' = late \cup {c}
           /\ unsettled' = unsettled \cup {PairOf(h)}
           /\ UNCHANGED <<cloudVars, published, unpublished>>
  <2>1. LateUnsettled'
    BY <1>1, <1>4 DEF LateUnsettled
  <2>2. TypeInv' /\ LiveAlone' /\ AwaitedOnNode' /\ LiveRetracts'
    BY <1>0, <1>1, <1>4, Returned DEF TypeOK, LiveRetracts, cloudVars
  <2> QED BY <1>4, <2>1, <2>2
          DEF FreeNowhere, PublishedIsAttached, UnpublishedIsDetached, cloudVars
<1> QED BY <1>0, <1>2, <1>3, <1>4 DEF ApiCall

LEMMA StepHandler ==
  ASSUME AttachInv, NEW h \in Handler, HandlerStep(h)
  PROVE  AttachInv'
<1> DEFINE v == vol[h]
<1> USE DEF AttachInv, TypeInv, PublishPcs, UnpublishPcs, Pc
<1>0. pc[h] # "idle" => v \in Volume /\ target[h] \in Node /\ target[h] # None
  BY AttachAssumption DEF LocalsOK
<1>1. CASE Publish(h)
  BY <1>1, StepError, StepPublished, StepGoTo DEF Publish
<1>2. CASE CheckNode(h)
  BY <1>2, StepError, StepGoTo DEF CheckNode
<1>3. CASE AttachVolume(h) \/ DetachVolume(h)
  BY <1>3, StepApiCall
<1>4. CASE WaitVolumeBeAttached(h)
  <2>1. live[h] /\ status[v] = "attached" => PairOf(h) \in unsettled \/ node[v] = target[h]
    BY <1>4 DEF WaitVolumeBeAttached, AwaitedOnNode
  <2> QED BY <1>4, <2>1, StepError, StepPublished DEF WaitVolumeBeAttached
<1>5. CASE Unpublish(h)
  <2>1. NotOnNode(v, target[h]) => node[v] # target[h]
    BY <1>0, <1>5 DEF Unpublish, NotOnNode, FreeNowhere
  <2> QED BY <1>5, <2>1, StepError, StepUnpublished, StepGoTo DEF Unpublish
<1>6. CASE WaitVolumeBeAvailable(h)
  <2>1. status[v] = "available" => node[v] # target[h]
    BY <1>0, <1>6 DEF WaitVolumeBeAvailable, FreeNowhere
  <2> QED BY <1>6, <2>1, StepError, StepUnpublished DEF WaitVolumeBeAvailable
<1> QED BY <1>1, <1>2, <1>3, <1>4, <1>5, <1>6 DEF HandlerStep
-----------------------------------------------------------------------------
(* Requests on the wire when the plugin stops become late ones of          *)
(* unsettled pairs.                                                        *)
LEMMA StepRestart == ASSUME AttachInv, Restart PROVE AttachInv'
<1> DEFINE calling == {h \in Handler : pc[h] \in {"attach", "detach"}}
<1> USE DEF AttachInv, TypeInv, TypeOK, LocalsOK, Restart
<1>1. \A h \in calling : CallOf(h) \in Call /\ PairOf(h) \in Pair
                         /\ <<CallOf(h).vol, CallOf(h).node>> = PairOf(h)
  BY DEF CallOf, Call, PairOf, Pair
<1>2. late' \subseteq Call /\ unsettled' \subseteq Pair /\ restarts' \in 0..MaxRestarts
  BY <1>1, AttachAssumption
<1>3. LateUnsettled'
  BY <1>1 DEF LateUnsettled
<1>4. /\ pc' \in [Handler -> Pc] /\ vol' \in [Handler -> Volume \cup {None}]
      /\ target' \in [Handler -> Node \cup {None}] /\ live' \in [Handler -> BOOLEAN]
      /\ LocalsOK' /\ LiveAlone' /\ LiveRetracts' /\ AwaitedOnNode'
  BY DEF Pc, LiveAlone, LiveRetracts, AwaitedOnNode
<1>5. FreeNowhere' /\ PublishedIsAttached' /\ UnpublishedIsDetached'
  BY DEF cloudVars, FreeNowhere, PublishedIsAttached, UnpublishedIsDetached
<1> QED BY <1>2, <1>3, <1>4, <1>5 DEF cloudVars

LEMMA StepLateCall == ASSUME AttachInv, CloudLateCall PROVE AttachInv'
<1>1. PICK c \in late : CloudAccepts(c) /\ late' = late \ {c}
  BY DEF CloudLateCall
<1>2. c \in Call /\ <<c.vol, c.node>> \in unsettled
  BY DEF AttachInv, TypeInv, TypeOK, LateUnsettled
<1>3. UNCHANGED <<handlerVars, history, restarts>>
  BY DEF CloudLateCall
<1>4. /\ status' \in [Volume -> Status] /\ node' \in [Volume -> Node \cup {None}]
      /\ FreeNowhere' /\ AwaitedOnNode' /\ PublishedIsAttached' /\ UnpublishedIsDetached'
  BY <1>1, <1>2, <1>3, Accepted DEF handlerVars
<1> QED BY <1>1, <1>3, <1>4
        DEF AttachInv, TypeInv, TypeOK, LocalsOK, LiveAlone, LiveRetracts, LateUnsettled, PairOf,
            handlerVars, history

LEMMA StepSettles ==
  ASSUME AttachInv, NEW v \in Volume, CloudSettles(v)
  PROVE  AttachInv'
<1> USE AttachAssumption
    DEF AttachInv, TypeInv, TypeOK, Status, CloudSettles, handlerVars
<1>1. status[v] = "attaching" => <<v, node[v]>> \in Pair
  BY DEF FreeNowhere, Pair
<1>2. /\ status' \in [Volume -> Status] /\ node' \in [Volume -> Node \cup {None}]
      /\ unsettled \subseteq unsettled' /\ unsettled' \subseteq Pair
  BY <1>1
<1>3. TypeInv' /\ LiveAlone' /\ LiveRetracts' /\ LateUnsettled'
  BY <1>2 DEF LocalsOK, LiveAlone, LiveRetracts, LateUnsettled, PairOf
<1>4. FreeNowhere'
  BY DEF FreeNowhere
<1>5. AwaitedOnNode'
  <2> SUFFICES ASSUME NEW h \in Handler, live[h], pc[h] = "waitAttached",
                      PairOf(h) \notin unsettled'
               PROVE  status'[vol[h]] \in {"attaching", "attached"} /\ node'[vol[h]] = target[h]
    BY DEF AwaitedOnNode, PairOf
  <2>1. status[vol[h]] \in {"attaching", "attached"} /\ node[vol[h]] = target[h] /\ vol[h] \in Volume
    BY <1>2 DEF AwaitedOnNode, LocalsOK
  <2> QED BY <2>1 DEF PairOf
<1>6. PublishedIsAttached'
  BY DEF PublishedIsAttached, Pair
<1>7. UnpublishedIsDetached'
  BY DEF UnpublishedIsDetached, FreeNowhere, Pair
<1> QED BY <1>2, <1>3, <1>4, <1>5, <1>6, <1>7

LEMMA AttachStep == ASSUME AttachInv, [Next]_vars PROVE AttachInv'
<1>1. ASSUME NEW h \in Handler,
             BeginPublish(h) \/ BeginUnpublish(h) \/ Deadline(h) \/ HandlerStep(h)
      PROVE  AttachInv'
  BY <1>1, StepBegin, StepDeadline, StepHandler
<1>2. CASE Restart \/ CloudLateCall \/ \E v \in Volume : CloudSettles(v)
  BY <1>2, StepRestart, StepLateCall, StepSettles
<1>3. CASE UNCHANGED vars
  BY <1>3 DEF AttachInv, TypeInv, TypeOK, LocalsOK, LiveAlone, LiveRetracts, LateUnsettled,
              FreeNowhere, AwaitedOnNode, PublishedIsAttached, UnpublishedIsDetached, PairOf,
              vars, handlerVars, cloudVars, history
<1> QED BY <1>1, <1>2, <1>3 DEF Next

LEMMA AttachInvariant == Spec => []AttachInv
<1> QED BY AttachInit, AttachStep, PTL DEF Spec

(* Every variable keeps its type; a handler at work has a volume and a     *)
(* node, and a volume has a node exactly while it is not free.             *)
THEOREM TypeCorrect == Spec => []TypeOK
<1>1. AttachInv => TypeOK
  BY DEF AttachInv, TypeInv
<1> QED BY <1>1, AttachInvariant, PTL

(* What ControllerPublishVolume has answered stays true until the caller   *)
(* asks for something else or a request of unknown fate is about, although *)
(* no lock joins the reads, the decisions, the calls and the waits         *)
(* (controllersvc.go:199-258).                                             *)
THEOREM PublishedStaysAttached == Spec => []PublishedIsAttached
<1>1. AttachInv => PublishedIsAttached
  BY DEF AttachInv
<1> QED BY <1>1, AttachInvariant, PTL

(* The same for ControllerUnpublishVolume (controllersvc.go:260-291).      *)
THEOREM UnpublishedStaysDetached == Spec => []UnpublishedIsDetached
<1>1. AttachInv => UnpublishedIsDetached
  BY DEF AttachInv
<1> QED BY <1>1, AttachInvariant, PTL

(* A disk is for one node at a time.  No handler compares two callers, and *)
(* no lock joins them: of two nodes that were both answered OK for the     *)
(* same volume, one is the node of a request of unknown fate.              *)
NeverOnTwoNodes ==
  \A p, q \in published : p[1] = q[1] /\ p # q => p \in unsettled \/ q \in unsettled

(* Two attachers at once do not both get the volume: one node at most may  *)
(* rely on an OK (controllersvc.go:222-248).                               *)
THEOREM OneNodeAtATime == Spec => []NeverOnTwoNodes
<1>1. AttachInv => NeverOnTwoNodes
  <2> SUFFICES ASSUME AttachInv, NEW p \in published, NEW q \in published,
                      p[1] = q[1], p \notin unsettled, q \notin unsettled
               PROVE  p = q
    BY DEF NeverOnTwoNodes
  <2>1. p \in Pair /\ q \in Pair
    BY DEF AttachInv, TypeInv, TypeOK
  <2>2. node[p[1]] = p[2] /\ node[q[1]] = q[2]
    BY DEF AttachInv, PublishedIsAttached
  <2> QED BY <2>1, <2>2 DEF Pair
<1> QED BY <1>1, AttachInvariant, PTL
-----------------------------------------------------------------------------
(* The limit of a node, if the check and the attachment were one step.     *)

Attaching(h, n) == pc[h] = "attach" /\ target[h] = n
OneAttacher ==
  \A n \in Node : \A g, h \in Handler : Attaching(g, n) /\ Attaching(h, n) => g = h

(* A handler past the check still has room for its volume.                 *)
RoomLeft ==
  \A n \in Node :
    \/ \E v \in Volume : <<v, n>> \in unsettled
    \/ /\ Cardinality(VolumesOf(n)) <= MaxVolumesPerNode
       /\ \A h \in Handler : Attaching(h, n) => Cardinality(VolumesOf(n)) < MaxVolumesPerNode

LEMMA CountNat ==
  ASSUME NEW S \in SUBSET Volume
  PROVE  /\ IsFiniteSet(S) /\ Cardinality(S) \in Nat
         /\ \A T \in SUBSET S : Cardinality(T) <= Cardinality(S)
         /\ \A v \in Volume : Cardinality(S \cup {v}) <= Cardinality(S) + 1
<1>1. IsFiniteSet(S) /\ Cardinality(S) \in Nat
  BY AttachAssumption, FS_Subset, FS_CardinalityType
<1>2. \A T \in SUBSET S : Cardinality(T) <= Cardinality(S)
  BY <1>1, FS_Subset
<1>3. \A v \in Volume : Cardinality(S \cup {v}) <= Cardinality(S) + 1
  BY <1>1, FS_AddElement
<1> QED BY <1>1, <1>2, <1>3

(* What a step does to the volumes of a node that has no unsettled pair.   *)
LEMMA NodeGrows ==
  ASSUME AttachInv, [Next]_vars, NEW n \in Node, \A v \in Volume : <<v, n>> \notin unsettled'
  PROVE  \/ VolumesOf(n)' \subseteq VolumesOf(n)
         \/ \E h \in Handler : /\ Attaching(h, n) /\ pc'[h] = "waitAttached"
                               /\ \E v \in Volume : VolumesOf(n)' \subseteq VolumesOf(n) \cup {v}
                               /\ \A g \in Handler \ {h} : pc'[g] = pc[g] /\ target'[g] = target[g]
<1> USE DEF AttachInv, TypeInv, TypeOK
<1>1. CASE UNCHANGED node
  BY <1>1 DEF VolumesOf
<1>2. ASSUME NEW h \in Handler, AttachVolume(h), ~UNCHANGED node
      PROVE  /\ live[h] /\ CloudAccepts(CallOf(h)) /\ GoTo(h, "waitAttached")
             /\ pc[h] = "attach" /\ vol[h] \in Volume /\ target[h] \in Node
  BY <1>2 DEF AttachVolume, ApiCall, cloudVars, LocalsOK
<1>3. ASSUME NEW h \in Handler, AttachVolume(h), ~UNCHANGED node
      PROVE  \/ VolumesOf(n)' \subseteq VolumesOf(n)
             \/ /\ Attaching(h, n) /\ pc'[h] = "waitAttached"
                /\ \E v \in Volume : VolumesOf(n)' \subseteq VolumesOf(n) \cup {v}
                /\ \A g \in Handler \ {h} : pc'[g] = pc[g] /\ target'[g] = target[g]
  <2>1. node' = [node EXCEPT ![vol[h]] = target[h]]
    BY <1>2, <1>3 DEF CloudAccepts, CallOf
  <2>2. CASE target[h] = n
    BY <1>2, <1>3, <2>1, <2>2 DEF GoTo, VolumesOf, Attaching
  <2>3. CASE target[h] # n
    BY <1>2, <1>3, <2>1, <2>3 DEF VolumesOf
  <2> QED BY <2>2, <2>3
<1>4. ASSUME NEW h \in Handler, DetachVolume(h) PROVE UNCHANGED node
  BY <1>4 DEF DetachVolume, ApiCall, CloudAccepts, CallOf, cloudVars
<1>5. ASSUME NEW c \in late, CloudAccepts(c), UNCHANGED history
      PROVE  VolumesOf(n)' \subseteq VolumesOf(n)
  <2>1. c.vol \in Volume /\ c.node \in Node /\ <<c.vol, c.node>> \in unsettled'
    BY <1>5 DEF LateUnsettled, history, Call
  <2>2. c.node # n
    BY <2>1
  <2> QED BY <1>5, <2>1, <2>2 DEF CloudAccepts, VolumesOf
<1>6. ASSUME NEW v \in Volume, CloudSettles(v)
      PROVE  VolumesOf(n)' \subseteq VolumesOf(n)
  BY <1>6, AttachAssumption DEF CloudSettles, VolumesOf
<1>7. ASSUME NEW h \in Handler,
             \/ BeginPublish(h) \/ BeginUnpublish(h) \/ Deadline(h) \/ Publish(h) \/ CheckNode(h)
             \/ WaitVolumeBeAttached(h) \/ Unpublish(h) \/ WaitVolumeBeAvailable(h)
      PROVE  UNCHANGED node
  BY <1>7 DEF BeginPublish, BeginUnpublish, Begin, Deadline, Publish, CheckNode,
              WaitVolumeBeAttached, Unpublish, WaitVolumeBeAvailable, cloudVars
<1>8. Restart \/ UNCHANGED vars => UNCHANGED node
  BY DEF Restart, vars, cloudVars
<1> QED BY <1>1, <1>3, <1>4, <1>5, <1>6, <1>7, <1>8 DEF Next, HandlerStep, CloudLateCall

(* Who comes to an attachment has just counted.                            *)
LEMMA AttachingCounted ==
  ASSUME AttachInv, [Next]_vars, NEW n \in Node, NEW h \in Handler, Attaching(h, n)'
  PROVE  \/ Attaching(h, n)
         \/ Cardinality(VolumesOf(n)) < MaxVolumesPerNode /\ UNCHANGED node
<1> USE DEF AttachInv, TypeInv, TypeOK, Attaching
<1>1. ASSUME NEW g \in Handler, BeginPublish(g) \/ BeginUnpublish(g) PROVE Attaching(h, n)
  BY <1>1 DEF BeginPublish, BeginUnpublish, Begin
<1>2. ASSUME NEW g \in Handler, Deadline(g) PROVE Attaching(h, n)
  BY <1>2 DEF Deadline
<1>3. ASSUME NEW g \in Handler, CheckNode(g)
      PROVE  Attaching(h, n) \/ (Cardinality(VolumesOf(n)) < MaxVolumesPerNode /\ UNCHANGED node)
  BY <1>3 DEF CheckNode, AnswerError, Return, GoTo, cloudVars
<1>4. ASSUME NEW g \in Handler, HandlerStep(g), ~CheckNode(g) PROVE Attaching(h, n)
  BY <1>4 DEF HandlerStep, Publish, AttachVolume, WaitVolumeBeAttached, Unpublish, DetachVolume,
              WaitVolumeBeAvailable, ApiCall, AnswerError, AnswerPublished, AnswerUnpublished,
              Return, GoTo
<1>5. Restart => FALSE
  BY DEF Restart
<1>6. CloudLateCall \/ (\E v \in Volume : CloudSettles(v)) \/ UNCHANGED vars => Attaching(h, n)
  BY DEF CloudLateCall, CloudSettles, handlerVars, vars
<1> QED BY <1>1, <1>2, <1>3, <1>4, <1>5, <1>6 DEF Next

LEMMA UnsettledGrows == ASSUME [Next]_vars PROVE unsettled \subseteq unsettled'
<1>1. ASSUME NEW h \in Handler, HandlerStep(h) PROVE unsettled \subseteq unsettled'
  BY <1>1 DEF HandlerStep, Publish, CheckNode, AttachVolume, WaitVolumeBeAttached, Unpublish,
              DetachVolume, WaitVolumeBeAvailable, ApiCall, AnswerError, AnswerPublished,
              AnswerUnpublished, GoTo, history
<1> QED BY <1>1 DEF Next, BeginPublish, BeginUnpublish, Begin, Deadline, Restart, CloudLateCall,
                    CloudSettles, history, vars

LEMMA RoomStep ==
  ASSUME AttachInv, OneAttacher, RoomLeft, [Next]_vars
  PROVE  RoomLeft'
<1> SUFFICES ASSUME NEW n \in Node, \A v \in Volume : <<v, n>> \notin unsettled'
             PROVE  /\ Cardinality(VolumesOf(n)') <= MaxVolumesPerNode
                    /\ \A h \in Handler :
                         Attaching(h, n)' => Cardinality(VolumesOf(n)') < MaxVolumesPerNode
  BY DEF RoomLeft
<1>1. /\ VolumesOf(n) \in SUBSET Volume /\ VolumesOf(n)' \in SUBSET Volume
      /\ Cardinality(VolumesOf(n)) \in Nat /\ Cardinality(VolumesOf(n)') \in Nat
      /\ MaxVolumesPerNode \in Nat
  <2>1. VolumesOf(n) \in SUBSET Volume /\ VolumesOf(n)' \in SUBSET Volume
    BY DEF VolumesOf
  <2> QED BY <2>1, CountNat, AttachAssumption
<1>2. /\ Cardinality(VolumesOf(n)) <= MaxVolumesPerNode
      /\ \A h \in Handler : Attaching(h, n) => Cardinality(VolumesOf(n)) < MaxVolumesPerNode
  BY UnsettledGrows DEF RoomLeft
<1>3. CASE VolumesOf(n)' \subseteq VolumesOf(n)
  <2>1. Cardinality(VolumesOf(n)') <= Cardinality(VolumesOf(n))
    BY <1>1, <1>3, CountNat
  <2> QED BY <1>1, <1>2, <2>1, AttachingCounted
<1>4. ASSUME NEW h \in Handler, Attaching(h, n), pc'[h] = "waitAttached",
             \E v \in Volume : VolumesOf(n)' \subseteq VolumesOf(n) \cup {v},
             \A g \in Handler \ {h} : pc'[g] = pc[g] /\ target'[g] = target[g]
      PROVE  /\ Cardinality(VolumesOf(n)') <= MaxVolumesPerNode
             /\ \A g \in Handler : ~Attaching(g, n)'
  <2>1. PICK v \in Volume : VolumesOf(n)' \subseteq VolumesOf(n) \cup {v}
    BY <1>4
  <2>2. /\ Cardinality(VolumesOf(n)') <= Cardinality(VolumesOf(n) \cup {v})
        /\ Cardinality(VolumesOf(n) \cup {v}) <= Cardinality(VolumesOf(n)) + 1
        /\ Cardinality(VolumesOf(n) \cup {v}) \in Nat
    BY <1>1, <2>1, CountNat
  <2>3. Cardinality(VolumesOf(n)) < MaxVolumesPerNode
    BY <1>2, <1>4
  <2>4. \A g \in Handler : ~Attaching(g, n)'
    BY <1>4 DEF OneAttacher, Attaching
  <2> QED BY <1>1, <2>2, <2>3, <2>4
<1> QED BY <1>3, <1>4, NodeGrows

(* The count at controllersvc.go:244 keeps a node within its limit for as  *)
(* long as no two handlers are between that count and their AttachVolume   *)
(* for one node: nothing else can put too many volumes on it.              *)
THEOREM CountSufficesAlone == Spec /\ []OneAttacher => []NodeWithinLimit
<1>1. Init => RoomLeft
  <2>1. Init => \A n \in Node : VolumesOf(n) = {}
    BY AttachAssumption DEF Init, VolumesOf
  <2> QED BY <2>1, AttachAssumption, FS_EmptySet DEF Init, RoomLeft, Attaching
<1>2. RoomLeft => NodeWithinLimit
  BY DEF RoomLeft, NodeWithinLimit
<1> QED BY <1>1, <1>2, RoomStep, AttachInvariant, PTL DEF Spec
=============================================================================
