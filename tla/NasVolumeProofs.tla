--------------------------- MODULE NasVolumeProofs ---------------------------
(***************************************************************************)
(* Proofs about NasVolume for any volumes, pods, handlers, failures and    *)
(* calls given up.                                                         *)
(***************************************************************************)
EXTENDS NasVolume, TLAPS

USE DEF failures, Named

Stages == {"creating", "bound", "deleting", "gone",
           "starting", "running", "stopping", "stopped"}

(* The steps of doNfsMount and createNasSubDir, and of each call.          *)
MountSteps == {"grep", "mount", "subcheck", "subclean", "submount",
               "submkdir", "subumount", "remount"}
StepsOf(op) ==
  CASE op = "create"    -> MountSteps \cup {"mkdir", "undo", "umount"}
    [] op = "delete"    -> MountSteps \cup {"getpv", "stat", "drop", "deferred"}
    [] op = "publish"   -> MountSteps \cup {"check"}
    [] op = "unpublish" -> {"unpublish"}

(* The stage in which its caller makes a call.                             *)
Asked == [create |-> "creating", delete |-> "deleting",
          publish |-> "starting", unpublish |-> "stopping"]

RunningCall(r) ==
  /\ r \in Running
  /\ r.pc \in StepsOf(r.op)
  /\ r.op \in {"create", "delete"} => r.for \in Volume
  /\ r.op \in {"publish", "unpublish"} => r.for \in Pod

CallsOK == \A h \in Call : calls[h] # Idle => RunningCall(calls[h])

(* Whoever waits for an answer is still where it asked.                    *)
Awaits(c, h) == calls[h] # Idle /\ calls[h].for = c /\ stage[c] = Asked[calls[h].op]
CallersOK == \A c \in Client : caller[c] # NoCall => Awaits(c, caller[c])

TypeInv == TypeOK /\ stage \in [Client -> Stages] /\ CallsOK /\ CallersOK

-----------------------------------------------------------------------------
(* No stage comes back: a call that is under way, and what it has mounted, *)
(* tell how far its caller has come.                                       *)
Deleting(v) == stage[v] \in {"deleting", "gone"}

LateDelete == \A h \in Call : calls[h].op = "delete" => Deleting(calls[h].for)
LateUnpublish ==
  \A h \in Call : calls[h].op = "unpublish" => stage[calls[h].for] \in {"stopping", "stopped"}
PodsFirst == \A p \in Pod : Deleting(VolumeOf[p]) => stage[p] = "stopped"
DeleteMountLate == \A v \in Volume : <<"delete", v>> \in mounts => Deleting(v)

OrderInv == LateDelete /\ LateUnpublish /\ PodsFirst /\ DeleteMountLate

(* A directory that is mounted for a pod stays until the volume is         *)
(* deleted.                                                                *)
MountedHasDir ==
  \A p \in Pod : <<"target", p>> \in mounts => dir[VolumeOf[p]] # "none" \/ Deleting(VolumeOf[p])

RunInv == MountedHasDir /\ RunningSeesVolume

(* From the call of an unpublish on nothing is mounted for the pod.        *)
Unpublishing(p) == \E h \in Call : calls[h].op = "unpublish" /\ calls[h].for = p
NoLatePublish ==
  \A p \in Pod \ overtaken : Unpublishing(p) \/ stage[p] = "stopped" => ~Publishing(p)

StopInv == NoLatePublish /\ StoppedIsUnmounted

(* A call that finds the share unmounted under its feet has been overtaken *)
(* by one that had already made the directory.                             *)
Made(v) == dir[v] # "none" \/ Deleting(v)
MkdirOnShare ==
  \A h \in Call :
    /\ calls[h].op = "create" /\ calls[h].pc = "mkdir"
         => <<"create", calls[h].for>> \in mounts \/ Made(calls[h].for)
    /\ calls[h].op = "create" /\ calls[h].pc = "umount" => Made(calls[h].for)
    /\ calls[h].op = "create" => calls[h].pc # "undo"

BoundInv == "mkdir" \notin failed => MkdirOnShare /\ BoundHasDir

(* The same for the calls that remove it.                                  *)
DropOnShare ==
  \A h \in Call : calls[h].op = "delete" /\ policy[calls[h].for] # "invalid" =>
    /\ calls[h].pc \in {"stat", "drop"}
         => <<"delete", calls[h].for>> \in mounts \/ dir[calls[h].for] # "data"
    /\ calls[h].pc = "deferred" => dir[calls[h].for] # "data"

GoneInv == failed \cap {"remove", "rename"} = {} => DropOnShare /\ DeletedIsGone

(* Whatever is mounted on a scratch mount point has a handler left that    *)
(* will unmount it.                                                        *)
Holding == {"mkdir", "undo", "umount", "stat", "drop", "deferred"}
Unmounter(h, op, v) == calls[h].op = op /\ calls[h].for = v /\ calls[h].pc \in Holding
EveryMountIsUsed ==
  "unmount" \notin failed =>
    \A v \in Volume, op \in {"create", "delete"} :
      <<op, v>> \in mounts => \E h \in Call : Unmounter(h, op, v)

-----------------------------------------------------------------------------
(* How a handler moves on and how it returns, without the records.         *)

LEMMA Records ==
  /\ \A r \in Running : r # Idle
  /\ Idle.op = "none"
  /\ \A r \in Running : /\ r.op \in {"create", "delete", "publish", "unpublish"}
                        /\ r.for \in Client /\ r.pc \in Steps /\ r.ok \in BOOLEAN
<1>1. Idle.op = "none"
  BY DEF Idle
<1>2. ASSUME NEW r \in Running
      PROVE  /\ r.op \in {"create", "delete", "publish", "unpublish"}
             /\ r.for \in Client /\ r.pc \in Steps /\ r.ok \in BOOLEAN
  BY <1>2 DEF Running
<1> QED BY <1>1, <1>2

LEMMA RecordMoved ==
  ASSUME NEW r \in Running, NEW pc \in Steps, NEW s, s = [r EXCEPT !.pc = pc]
  PROVE  s \in Running /\ s.op = r.op /\ s.for = r.for /\ s.pc = pc
BY DEF Running

Moves(h, pc) ==
  /\ RunningCall(calls'[h]) /\ calls'[h].pc = pc
  /\ calls'[h].op = calls[h].op /\ calls'[h].for = calls[h].for
  /\ \A g \in Call \ {h} : calls'[g] = calls[g]
  /\ calls' \in [Call -> Running \cup {Idle}]
  /\ UNCHANGED client

Returns(h, ok) ==
  LET c == calls[h].for
  IN /\ calls'[h] = Idle
     /\ \A g \in Call \ {h} : calls'[g] = calls[g]
     /\ calls' \in [Call -> Running \cup {Idle}]
     /\ caller' \in [Client -> Call \cup {NoCall}] /\ caller'[c] # h
     /\ stage' \in [Client -> Stages]
     /\ \A d \in Client \ {c} : stage'[d] = stage[d] /\ caller'[d] = caller[d]
     /\ ok /\ caller[c] = h =>
          stage[c] = Asked[calls[h].op] /\ stage'[c] = Reached[calls[h].op]
     /\ ~ok \/ caller[c] # h => stage'[c] = stage[c]
     /\ caller'[c] \in {caller[c], NoCall}
     /\ UNCHANGED <<overtaken, timeouts>>

LEMMA TypeFacts ==
  ASSUME TypeInv, NEW h \in Call, calls[h] # Idle
  PROVE  /\ calls[h] \in Running /\ RunningCall(calls[h])
         /\ calls[h].op \in {"create", "delete", "publish", "unpublish"}
         /\ calls[h].for \in Client
         /\ calls[h].op \in {"create", "delete"} => Vol(h) = calls[h].for
         /\ calls[h].op = "publish" => Vol(h) = VolumeOf[calls[h].for]
         /\ Vol(h) \in Volume
BY Records, NasAssumption DEF TypeInv, TypeOK, CallsOK, RunningCall, Vol, VolumeFor, Client

LEMMA GoToMoves ==
  ASSUME TypeInv, NEW h \in Call, calls[h] # Idle, NEW pc \in Steps,
         pc \in StepsOf(calls[h].op), GoTo(h, pc)
  PROVE  Moves(h, pc)
<1>1. calls'[h] = [calls[h] EXCEPT !.pc = pc] /\ \A g \in Call \ {h} : calls'[g] = calls[g]
  BY DEF GoTo, TypeInv, TypeOK
<1>2. calls[h] \in Running /\ RunningCall(calls[h])
  BY TypeFacts
<1>3. calls'[h] \in Running /\ calls'[h].op = calls[h].op /\ calls'[h].for = calls[h].for
      /\ calls'[h].pc = pc
  BY <1>1, <1>2, RecordMoved
<1>4. calls' \in [Call -> Running \cup {Idle}]
  BY <1>1, <1>3 DEF GoTo, TypeInv, TypeOK
<1> QED BY <1>1, <1>2, <1>3, <1>4 DEF Moves, RunningCall, GoTo

LEMMA LeaveMoves ==
  ASSUME TypeInv, NEW h \in Call, calls[h] # Idle, calls[h].op = "delete",
         NEW ok \in BOOLEAN, Leave(h, ok)
  PROVE  Moves(h, "deferred")
<1>1. calls'[h] = [calls[h] EXCEPT !.pc = "deferred", !.ok = ok]
      /\ \A g \in Call \ {h} : calls'[g] = calls[g]
  BY DEF Leave, TypeInv, TypeOK
<1>2. calls[h] \in Running /\ RunningCall(calls[h]) /\ "deferred" \in Steps
  BY TypeFacts DEF Steps
<1>3. calls'[h] \in Running /\ calls'[h].op = calls[h].op /\ calls'[h].for = calls[h].for
      /\ calls'[h].pc = "deferred"
  <2> DEFINE r == calls[h]
             s == calls'[h]
  <2>1. r \in Running /\ s = [r EXCEPT !.pc = "deferred", !.ok = ok] /\ "deferred" \in Steps
    BY <1>1, <1>2
  <2> HIDE DEF r, s
  <2>2. s \in Running /\ s.op = r.op /\ s.for = r.for /\ s.pc = "deferred"
    BY <2>1 DEF Running
  <2> QED BY <2>2 DEF r, s
<1>4. calls' \in [Call -> Running \cup {Idle}]
  BY <1>1, <1>3 DEF Leave, TypeInv, TypeOK
<1> QED BY <1>1, <1>2, <1>3, <1>4 DEF Moves, RunningCall, Leave, StepsOf

LEMMA AnswerReturns ==
  ASSUME TypeInv, NEW h \in Call, calls[h] # Idle, NEW ok \in BOOLEAN, Answer(h, ok)
  PROVE  Returns(h, ok)
<1> DEFINE c == calls[h].for
<1>1. c \in Client /\ calls[h].op \in {"create", "delete", "publish", "unpublish"}
  BY TypeFacts
<1>2. /\ calls'[h] = Idle /\ \A g \in Call \ {h} : calls'[g] = calls[g]
      /\ calls' \in [Call -> Running \cup {Idle}]
      /\ UNCHANGED <<overtaken, timeouts>>
  BY DEF Answer, TypeInv, TypeOK
<1>3. h # NoCall
  BY NasAssumption
<1>4. CASE caller[c] # h
  BY <1>1, <1>2, <1>3, <1>4 DEF Answer, Returns, TypeInv, TypeOK
<1>5. CASE caller[c] = h
  <2>1. stage[c] = Asked[calls[h].op]
    BY <1>1, <1>3, <1>5 DEF TypeInv, CallersOK, Awaits
  <2>2. caller' = [caller EXCEPT ![c] = NoCall]
        /\ stage' = IF ok THEN [stage EXCEPT ![c] = Reached[calls[h].op]] ELSE stage
    BY <1>5 DEF Answer
  <2>3. Reached[calls[h].op] \in Stages
    BY <1>1 DEF Reached, Stages
  <2>4. /\ caller' \in [Client -> Call \cup {NoCall}] /\ caller'[c] = NoCall
        /\ stage' \in [Client -> Stages]
        /\ \A d \in Client \ {c} : stage'[d] = stage[d] /\ caller'[d] = caller[d]
        /\ ok => stage'[c] = Reached[calls[h].op]
        /\ ~ok => stage'[c] = stage[c]
    BY <1>1, <2>2, <2>3 DEF TypeInv, TypeOK
  <2> QED BY <1>2, <1>3, <1>5, <2>1, <2>4 DEF Returns
<1> QED BY <1>4, <1>5

LEMMA ProceedMoves ==
  ASSUME TypeInv, NEW h \in Call, calls[h] # Idle, Proceed(h),
         calls[h].op # "unpublish"
  PROVE  /\ calls[h].op = "create" => Moves(h, "mkdir")
         /\ calls[h].op = "delete" => Moves(h, "stat")
         /\ calls[h].op = "publish" => Returns(h, TRUE)
<1>1. calls[h].op \in {"create", "delete", "publish", "unpublish"}
  BY TypeFacts
<1>2. CASE calls[h].op = "create"
  BY <1>2, GoToMoves DEF Proceed, Steps, StepsOf
<1>3. CASE calls[h].op = "delete"
  BY <1>3, GoToMoves DEF Proceed, Steps, StepsOf
<1>4. CASE calls[h].op = "publish"
  BY <1>4, AnswerReturns DEF Proceed
<1> QED BY <1>1, <1>2, <1>3, <1>4

-----------------------------------------------------------------------------
(* What the steps of a handler come to.                                    *)

(* A step spoils nothing that was decided, and a failure is never undone.  *)
Steady == UNCHANGED <<policy, wrote>> /\ failed \subseteq failed'

(* Only temporary mounts change.                                           *)
TempOnly ==
  \A k \in {"create", "delete", "target"}, c \in Client :
    <<k, c>> \in mounts' <=> <<k, c>> \in mounts

(* No directory is lost or written to.                                     *)
DirKept ==
  \A v \in Volume : dir'[v] = dir[v] \/ (dir[v] = "none" /\ dir'[v] = "empty")

Proceeds(h) ==
  \/ calls[h].op = "create" /\ Moves(h, "mkdir")
  \/ calls[h].op = "delete" /\ Moves(h, "stat")
  \/ calls[h].op = "publish" /\ Returns(h, TRUE)

(* The steps that lead to the mount, and the mount.                        *)
GoesOn(h) ==
  /\ calls[h].pc \notin Holding
  /\ TempOnly /\ DirKept /\ \E pc \in MountSteps : Moves(h, pc)
GivesUp(h) == calls[h].pc \notin Holding /\ TempOnly /\ UNCHANGED dir /\ Returns(h, FALSE)
Finds(h) == isNfsPathMounted(Mountpoint(h)) /\ UNCHANGED <<mounts, dir>> /\ Proceeds(h)
MountsIt(h) ==
  /\ SourceExists(h) /\ mounts' = mounts \cup {Mountpoint(h)}
  /\ UNCHANGED dir /\ Proceeds(h)

(* What is done with the mounted share, and the unmount.                   *)
Makes(h) ==
  LET v == calls[h].for
  IN /\ calls[h].op = "create" /\ calls[h].pc = "mkdir" /\ UNCHANGED mounts
     /\ DirKept
     /\ \/ Moves(h, "umount") /\ (<<"create", v>> \in mounts => dir'[v] # "none")
        \/ Moves(h, "undo") /\ "mkdir" \in failed'

Looks(h) ==
  LET v == calls[h].for
  IN /\ calls[h].op = "delete" /\ calls[h].pc = "stat" /\ UNCHANGED <<mounts, dir>>
     /\ \/ Moves(h, "drop")
        \/ Moves(h, "deferred") /\ (~Found(h) \/ policy[v] = "invalid")

Drops(h) ==
  LET v == calls[h].for
  IN /\ calls[h].op = "delete" /\ calls[h].pc = "drop" /\ UNCHANGED mounts
     /\ Moves(h, "deferred")
     /\ UNCHANGED dir \/ dir' = [dir EXCEPT ![v] = "none"]
     /\ ~Found(h) \/ dir'[v] = "none" \/ failed' \cap {"remove", "rename"} # {}

TakesAway(h) ==
  LET m == <<calls[h].op, calls[h].for>>
  IN /\ \/ calls[h].op = "create" /\ calls[h].pc \in {"undo", "umount"}
        \/ calls[h].op = "delete" /\ calls[h].pc = "deferred"
     /\ UNCHANGED dir
     /\ \E ok \in BOOLEAN : Returns(h, ok)
     /\ \/ mounts' = mounts \ {m}
        \/ mounts' = mounts /\ (m \notin mounts \/ "unmount" \in failed')

Releases(h) ==
  /\ calls[h].op = "unpublish" /\ UNCHANGED dir
  /\ \/ mounts' = mounts \ {<<"target", calls[h].for>>} /\ Returns(h, TRUE)
     \/ mounts' = mounts /\ Returns(h, FALSE)

Effect(h) ==
  \/ GoesOn(h) \/ GivesUp(h) \/ Finds(h) \/ MountsIt(h)
  \/ Makes(h) \/ Looks(h) \/ Drops(h) \/ TakesAway(h) \/ Releases(h)

LEMMA MountpointIs ==
  ASSUME TypeInv, NEW h \in Call, calls[h] # Idle
  PROVE  /\ calls[h].op \in {"create", "delete"} => Mountpoint(h) = <<calls[h].op, calls[h].for>>
         /\ calls[h].op = "publish" => Mountpoint(h) = <<"target", calls[h].for>>
         /\ Mountpoint(h) \in Point \/ calls[h].op = "unpublish"
         /\ Temp(h) \in Point
         /\ \A k \in {"create", "delete", "target"}, c \in Client : Temp(h) # <<k, c>>
BY TypeFacts DEF Mountpoint, Temp, Point, RunningCall

LEMMA MountSteps_NotUnpublish ==
  ASSUME TypeInv, NEW h \in Call, calls[h] # Idle, calls[h].pc \in MountSteps
  PROVE  /\ calls[h].op \in {"create", "delete", "publish"}
         /\ \A pc \in MountSteps : pc \in StepsOf(calls[h].op) /\ pc \in Steps
BY TypeFacts DEF RunningCall, StepsOf, MountSteps, Steps

LEMMA TempChanges ==
  ASSUME TypeInv, NEW h \in Call, calls[h] # Idle,
         mounts' \in {mounts, mounts \cup {Temp(h)}, mounts \ {Temp(h)}}
  PROVE  TempOnly
BY MountpointIs DEF TempOnly

LEMMA ProceedIs ==
  ASSUME TypeInv, NEW h \in Call, calls[h] # Idle, calls[h].pc \in MountSteps, Proceed(h)
  PROVE  Proceeds(h)
BY ProceedMoves, MountSteps_NotUnpublish DEF Proceeds

LEMMA MountStepEffect ==
  ASSUME TypeInv, NEW h \in Call, MountStep(h)
  PROVE  GoesOn(h) \/ GivesUp(h) \/ Finds(h) \/ MountsIt(h)
<1>1. calls[h] # Idle /\ calls[h].pc \in MountSteps /\ calls[h].pc \notin Holding
  BY DEF MountStep, Grep, Mount, SubCheck, SubClean, SubMount, SubMkdir, SubUmount, Remount,
         At, MountSteps, Holding
<1>2. \A pc \in MountSteps : GoTo(h, pc) => \E q \in MountSteps : Moves(h, q)
  BY <1>1, MountSteps_NotUnpublish, GoToMoves
<1>3. Answer(h, FALSE) => Returns(h, FALSE)
  BY <1>1, AnswerReturns
<1>4. Proceed(h) => Proceeds(h)
  BY <1>1, ProceedIs
<1>5. UNCHANGED mounts => TempOnly
  BY <1>1, TempChanges
<1>6. UNCHANGED dir => DirKept
  BY DEF DirKept
<1>7. CASE Grep(h)
  BY <1>1, <1>2, <1>4, <1>5, <1>6, <1>7 DEF Grep, GoesOn, Finds, share, MountSteps
<1>8. CASE Mount(h)
  BY <1>1, <1>2, <1>3, <1>4, <1>5, <1>6, <1>8
     DEF Mount, Mounts, MountFails, GoesOn, GivesUp, MountsIt, share, MountSteps, Works
<1>9. CASE SubCheck(h)
  BY <1>1, <1>2, <1>5, <1>6, <1>9 DEF SubCheck, GoesOn, share, MountSteps
<1>10. CASE SubClean(h) \/ SubMount(h) \/ SubUmount(h)
  <2>1. TempOnly
    BY <1>1, <1>10, TempChanges
       DEF SubClean, SubMount, SubUmount, Mounts, MountFails, Unmounts, UnmountFails
  <2> QED BY <1>1, <1>2, <1>3, <1>6, <1>10, <2>1
             DEF SubClean, SubMount, SubUmount, GoesOn, GivesUp, share, MountSteps
<1>11. CASE SubMkdir(h)
  <2>1. DirKept
    BY <1>1, <1>11, TypeFacts DEF SubMkdir, DirKept, TypeInv, TypeOK
  <2> QED BY <1>1, <1>2, <1>3, <1>5, <1>11, <2>1 DEF SubMkdir, GoesOn, GivesUp, MountSteps
<1>12. CASE Remount(h)
  BY <1>1, <1>3, <1>4, <1>5, <1>12 DEF Remount, Mounts, MountFails, GivesUp, MountsIt, share, Works
<1> QED BY <1>7, <1>8, <1>9, <1>10, <1>11, <1>12 DEF MountStep

LEMMA ControllerStepEffect ==
  ASSUME TypeInv, NEW h \in Call, ControllerStep(h)
  PROVE  Effect(h)
<1>1. /\ calls[h] # Idle
      /\ calls[h].pc \in {"getpv", "mkdir", "undo", "umount", "stat", "drop", "deferred"}
  BY DEF ControllerStep, GetPV, Mkdir, Undo, Unmount, Stat, Archive, RemoveAll, Deferred, At
<1> DEFINE v == calls[h].for
           m == <<calls[h].op, v>>
<1>2. /\ calls[h].op \in {"create", "delete"} /\ v \in Volume /\ Vol(h) = v /\ Mountpoint(h) = m
      /\ calls[h].op = "create" <=> calls[h].pc \in {"mkdir", "undo", "umount"}
  <2>1. /\ calls[h].op \in {"create", "delete"}
        /\ calls[h].op = "create" <=> calls[h].pc \in {"mkdir", "undo", "umount"}
    BY <1>1, TypeFacts DEF RunningCall, StepsOf, MountSteps
  <2> QED BY <1>1, <2>1, TypeFacts, MountpointIs DEF RunningCall
<1>3. /\ calls[h].op = "create" => \A pc \in {"umount", "undo"} : GoTo(h, pc) => Moves(h, pc)
      /\ calls[h].op = "delete" => \A pc \in {"grep", "drop"} : GoTo(h, pc) => Moves(h, pc)
      /\ calls[h].op = "delete" => \A ok \in BOOLEAN : Leave(h, ok) => Moves(h, "deferred")
  BY <1>1, <1>2, GoToMoves, LeaveMoves DEF StepsOf, Steps, MountSteps
<1>4. \A ok \in BOOLEAN : Answer(h, ok) => Returns(h, ok)
  BY <1>1, AnswerReturns
<1>5. UNCHANGED mounts => TempOnly
  BY <1>1, TempChanges
<1>6. UNCHANGED dir => DirKept
  BY DEF DirKept
<1>7. CASE GetPV(h)
  <2>1. GoTo(h, "grep") \/ Answer(h, FALSE)
    BY <1>7 DEF GetPV
  <2>2. calls[h].op = "delete"
    BY <1>2, <1>7 DEF GetPV, At
  <2>3. UNCHANGED mounts /\ UNCHANGED dir /\ calls[h].pc \notin Holding
    BY <1>7 DEF GetPV, share, At, Holding
  <2> QED BY <1>3, <1>4, <1>5, <1>6, <2>1, <2>2, <2>3 DEF GoesOn, GivesUp, MountSteps, Effect
<1>8. CASE Mkdir(h)
  <2>1. DirKept
    BY <1>2, <1>8 DEF Mkdir, DirKept, TypeInv, TypeOK
  <2>2. /\ \/ GoTo(h, "umount") /\ (m \in mounts => dir'[v] # "none")
           \/ GoTo(h, "undo") /\ "mkdir" \in failed'
        /\ calls[h].op = "create" /\ calls[h].pc = "mkdir" /\ UNCHANGED mounts
    BY <1>2, <1>8 DEF Mkdir, At, Fails, Free, TypeInv, TypeOK
  <2> QED BY <1>3, <2>1, <2>2 DEF Makes, Effect
<1>9. CASE Undo(h) \/ Unmount(h) \/ Deferred(h)
  <2>1. \/ mounts' = mounts \ {m}
        \/ mounts' = mounts /\ (m \notin mounts \/ "unmount" \in failed')
    BY <1>2, <1>9 DEF Undo, Unmount, Deferred, Unmounts, UnmountFails, Breaks, Fails, Free
  <2>2. calls[h].ok \in BOOLEAN
    BY <1>1, TypeFacts, Records
  <2>3. UNCHANGED dir /\ \E ok \in BOOLEAN : Returns(h, ok)
    BY <1>4, <1>9, <2>2 DEF Undo, Unmount, Deferred, share
  <2>4. \/ calls[h].op = "create" /\ calls[h].pc \in {"undo", "umount"}
        \/ calls[h].op = "delete" /\ calls[h].pc = "deferred"
    BY <1>2, <1>9 DEF Undo, Unmount, Deferred, At
  <2> QED BY <2>1, <2>3, <2>4 DEF TakesAway, Effect
<1>10. CASE Stat(h)
  <2>1. /\ UNCHANGED <<mounts, dir>> /\ calls[h].op = "delete" /\ calls[h].pc = "stat"
        /\ \/ GoTo(h, "drop")
           \/ \E ok \in BOOLEAN : Leave(h, ok) /\ (~Found(h) \/ policy[v] = "invalid")
    BY <1>2, <1>10 DEF Stat, At, share, Works
  <2> QED BY <1>3, <2>1 DEF Looks, Effect
<1>11. CASE Archive(h) \/ RemoveAll(h)
  <2>1. /\ UNCHANGED mounts /\ calls[h].op = "delete" /\ calls[h].pc = "drop"
        /\ \E ok \in BOOLEAN : Leave(h, ok)
        /\ UNCHANGED dir \/ dir' = [dir EXCEPT ![v] = "none"]
    BY <1>2, <1>11 DEF Archive, RemoveAll, At, share
  <2>2. ~Found(h) \/ dir'[v] = "none" \/ failed' \cap {"remove", "rename"} # {}
    <3>1. CASE Archive(h)
      BY <1>2, <3>1 DEF Archive, TypeInv, TypeOK, Breaks, Fails
    <3>2. CASE RemoveAll(h)
      BY <1>2, <3>2 DEF RemoveAll, TypeInv, TypeOK, Fails
    <3> QED BY <1>11, <3>1, <3>2
  <2> QED BY <1>3, <2>1, <2>2 DEF Drops, Effect
<1> QED BY <1>7, <1>8, <1>9, <1>10, <1>11 DEF ControllerStep

LEMMA NodeStepEffect ==
  ASSUME TypeInv, NEW h \in Call, NodeStep(h)
  PROVE  Effect(h)
<1>1. calls[h] # Idle /\ calls[h].pc \in {"check", "unpublish"}
  BY DEF NodeStep, Check, Unpublish, At
<1>2. calls[h].op = IF calls[h].pc = "check" THEN "publish" ELSE "unpublish"
  BY <1>1, TypeFacts DEF RunningCall, StepsOf, MountSteps
<1>3. \A ok \in BOOLEAN : Answer(h, ok) => Returns(h, ok)
  BY <1>1, AnswerReturns
<1>4. UNCHANGED mounts => TempOnly
  BY <1>1, TempChanges
<1>5. CASE Check(h)
  <2>1. calls[h].op = "publish" /\ Mountpoint(h) = Target(h)
    BY <1>1, <1>2, <1>5, MountpointIs DEF Check, At, Target
  <2>2. GoTo(h, "grep") => Moves(h, "grep")
    BY <1>1, <2>1, GoToMoves DEF Steps, StepsOf, MountSteps
  <2>3. /\ UNCHANGED mounts /\ UNCHANGED dir /\ calls[h].pc \notin Holding
        /\ GoTo(h, "grep") \/ (~Free(Target(h)) /\ Answer(h, TRUE)) \/ Answer(h, FALSE)
    BY <1>5 DEF Check, share, At, Holding
  <2> QED BY <1>3, <1>4, <2>1, <2>2, <2>3
             DEF GoesOn, GivesUp, Finds, Proceeds, isNfsPathMounted, Free, DirKept, MountSteps,
                 Effect
<1>6. CASE Unpublish(h)
  <2>1. calls[h].op = "unpublish"
    BY <1>2, <1>6 DEF Unpublish, At
  <2>2. UNCHANGED dir
    BY <1>6 DEF Unpublish, share
  <2>3. \/ mounts' = mounts \ {Target(h)} /\ Answer(h, TRUE)
        \/ mounts' = mounts /\ Answer(h, FALSE)
    BY <1>6 DEF Unpublish, Unmounts, Works, Free
  <2> QED BY <1>3, <2>1, <2>2, <2>3 DEF Releases, Target, Effect
<1> QED BY <1>5, <1>6 DEF NodeStep

(* Every step of a handler has one of the effects.                         *)
LEMMA StepEffect ==
  ASSUME TypeInv, NEW h \in Call, Step(h)
  PROVE  Effect(h) /\ calls[h] # Idle
<1>1. calls[h] # Idle
  BY DEF Step, MountStep, Grep, Mount, SubCheck, SubClean, SubMount, SubMkdir, SubUmount,
         Remount, ControllerStep, GetPV, Mkdir, Undo, Unmount, Stat, Archive, RemoveAll,
         Deferred, NodeStep, Check, Unpublish, At
<1>2. MountStep(h) => Effect(h)
  BY MountStepEffect DEF Effect
<1> QED BY <1>1, <1>2, ControllerStepEffect, NodeStepEffect DEF Step

LEMMA StepSteady ==
  ASSUME NEW h \in Call, Step(h)
  PROVE  Steady
BY DEF Steady, Step, MountStep, Grep, Mount, SubCheck, SubClean, SubMount, SubMkdir, SubUmount,
       Remount, ControllerStep, GetPV, Mkdir, Undo, Unmount, Stat, Archive, RemoveAll,
       Deferred, NodeStep, Check, Unpublish, share, Mounts, MountFails, Unmounts, UnmountFails,
       Works, Breaks, Fails

(* What a call, a restart and the users come to.                           *)

Starts(h, c, op) ==
  /\ calls[h] = Idle /\ RunningCall(calls'[h])
  /\ calls'[h].op = op /\ calls'[h].for = c
  /\ calls'[h].pc \in {"grep", "getpv", "check", "unpublish"}
  /\ \A g \in Call \ {h} : calls'[g] = calls[g]
  /\ calls' \in [Call -> Running \cup {Idle}]
  /\ stage[c] = Asked[op]
  /\ op = "publish" => stage[VolumeOf[c]] = "bound"
  /\ caller' \in [Client -> Call \cup {NoCall}] /\ caller'[c] = h
  /\ \A d \in Client \ {c} : caller'[d] = caller[d]
  /\ overtaken \subseteq overtaken' /\ overtaken' \subseteq Pod
  /\ op = "unpublish" /\ Publishing(c) => c \in overtaken'
  /\ UNCHANGED <<share, mounts, stage, failures, timeouts>>

Dies(ops, kinds) ==
  /\ \A h \in Call : calls'[h] = IF calls[h].op \in ops THEN Idle ELSE calls[h]
  /\ calls' \in [Call -> Running \cup {Idle}]
  /\ \A k, c : <<k, c>> \in mounts' <=> <<k, c>> \in mounts /\ k \notin kinds
  /\ mounts' \subseteq mounts
  /\ caller' \in [Client -> Call \cup {NoCall}]
  /\ \A c \in Client : caller'[c] # NoCall => caller'[c] = caller[c] /\ calls[caller[c]].op \notin ops
  /\ failed' \subseteq Fault /\ failed \subseteq failed' /\ faults' \in 0 .. MaxFaults
  /\ UNCHANGED <<share, stage, overtaken, timeouts>>

SomeStart == \E h \in Call, c \in Client, op \in {"create", "delete", "publish", "unpublish"} :
               Starts(h, c, op)
SomeStep == \E h \in Call : Step(h)
SomeoneGivesUp == \E c \in Client : GiveUp(c)
SomeUse == (\E v \in Volume : Release(v)) \/ (\E p \in Pod : DeletePod(p) \/ Write(p))
SomeRestart == \/ Dies({"create", "delete"}, {"create", "delete", "temp"})
               \/ Dies({"publish", "unpublish"}, {"nodetemp"})

LEMMA BeginStarts ==
  ASSUME TypeInv, NEW h \in Call, NEW c \in Client,
         NEW op \in {"create", "delete", "publish", "unpublish"},
         NEW pc \in {"grep", "getpv", "check", "unpublish"}, pc \in StepsOf(op),
         op \in {"create", "delete"} => c \in Volume,
         op \in {"publish", "unpublish"} => c \in Pod,
         stage[c] = Asked[op], op = "publish" => stage[VolumeOf[c]] = "bound",
         Begin(h, c, op, pc),
         \/ UNCHANGED overtaken /\ op # "unpublish"
         \/ c \in Pod /\ overtaken' = IF Publishing(c) THEN overtaken \cup {c} ELSE overtaken
  PROVE  Starts(h, c, op)
<1> DEFINE r == [op |-> op, for |-> c, pc |-> pc, ok |-> FALSE]
<1>1. /\ r \in Running
      /\ r.op = op /\ r.for = c /\ r.pc = pc
  BY DEF Running, Steps
<1> HIDE DEF r
<1>2. calls'[h] = r /\ calls' \in [Call -> Running \cup {Idle}]
      /\ \A g \in Call \ {h} : calls'[g] = calls[g]
  BY <1>1 DEF Begin, TypeInv, TypeOK, r
<1>3. caller' \in [Client -> Call \cup {NoCall}] /\ caller'[c] = h
      /\ \A d \in Client \ {c} : caller'[d] = caller[d]
  BY DEF Begin, TypeInv, TypeOK
<1>4. overtaken \subseteq overtaken' /\ overtaken' \subseteq Pod
      /\ (op = "unpublish" /\ Publishing(c) => c \in overtaken')
  BY DEF TypeInv, TypeOK
<1>5. RunningCall(calls'[h])
  BY <1>1, <1>2 DEF RunningCall
<1> QED BY <1>1, <1>2, <1>3, <1>4, <1>5 DEF Starts, Begin

LEMMA RestartDies ==
  ASSUME TypeInv, NEW ops, NEW kinds, RestartOf(ops, kinds)
  PROVE  Dies(ops, kinds)
<1>1. calls' \in [Call -> Running \cup {Idle}]
      /\ \A h \in Call : calls'[h] = IF calls[h].op \in ops THEN Idle ELSE calls[h]
  BY DEF RestartOf, TypeInv, TypeOK
<1>2. /\ \A k, c : <<k, c>> \in mounts' <=> <<k, c>> \in mounts /\ k \notin kinds
      /\ mounts' \subseteq mounts
  BY DEF RestartOf
<1>3. caller' \in [Client -> Call \cup {NoCall}]
  BY DEF RestartOf, TypeInv, TypeOK
<1>4. \A c \in Client : caller'[c] # NoCall =>
        caller'[c] = caller[c] /\ calls[caller[c]].op \notin ops
  BY DEF RestartOf, TypeInv, TypeOK
<1>5. failed' \subseteq Fault /\ failed \subseteq failed' /\ faults' \in 0 .. MaxFaults
  BY NasAssumption DEF RestartOf, Fails, TypeInv, TypeOK
<1> QED BY <1>1, <1>2, <1>3, <1>4, <1>5 DEF Dies, RestartOf

LEMMA NextEffect ==
  ASSUME TypeInv, Next
  PROVE  SomeStart \/ SomeStep \/ SomeoneGivesUp \/ SomeUse \/ SomeRestart
<1>1. ASSUME NEW v \in Volume, NEW h \in Call, CallCreate(h, v) PROVE SomeStart
  <2>1. Starts(h, v, "create")
    BY <1>1, BeginStarts DEF CallCreate, Client, Asked, StepsOf, MountSteps
  <2> QED BY <2>1 DEF SomeStart, Client
<1>2. ASSUME NEW v \in Volume, NEW h \in Call, CallDelete(h, v) PROVE SomeStart
  <2>1. Starts(h, v, "delete")
    BY <1>2, BeginStarts DEF CallDelete, Client, Asked, StepsOf, MountSteps
  <2> QED BY <2>1 DEF SomeStart, Client
<1>3. ASSUME NEW p \in Pod, NEW h \in Call, CallPublish(h, p) PROVE SomeStart
  <2>1. Starts(h, p, "publish")
    BY <1>3, BeginStarts DEF CallPublish, Client, Asked, StepsOf, MountSteps
  <2> QED BY <2>1 DEF SomeStart, Client
<1>4. ASSUME NEW p \in Pod, NEW h \in Call, CallUnpublish(h, p) PROVE SomeStart
  <2>1. Starts(h, p, "unpublish")
    BY <1>4, BeginStarts DEF CallUnpublish, Client, Asked, StepsOf, MountSteps
  <2> QED BY <2>1 DEF SomeStart, Client
<1>5. CASE ControllerRestart \/ NodeRestart
  BY <1>5, RestartDies DEF ControllerRestart, NodeRestart, SomeRestart
<1> QED BY <1>1, <1>2, <1>3, <1>4, <1>5
        DEF Next, SendFor, SendPod, SomeStep, SomeoneGivesUp, SomeUse

-----------------------------------------------------------------------------
(* Type correctness. *)

ShareOK ==
  /\ policy \in [Volume -> Policy] /\ base \in {"none", "dir", "root"}
  /\ dir \in [Volume -> {"none", "empty", "data"}]
  /\ archive \in [Volume -> SUBSET {"empty", "data"}]
  /\ wrote \subseteq Volume /\ mounts \subseteq Point
  /\ failed \subseteq Fault /\ faults \in 0 .. MaxFaults

(* Without the functions, as a pod's stages and a volume's differ.         *)
StageOK ==
  /\ \A v \in Volume : stage[v] \in {"creating", "bound", "deleting", "gone"}
  /\ \A p \in Pod : stage[p] \in {"starting", "running", "stopping", "stopped"}

LEMMA ShareStep ==
  ASSUME TypeInv, NEW h \in Call, Step(h)
  PROVE  ShareOK'
<1>1. calls[h] # Idle /\ Effect(h)
  BY StepEffect
<1>2. Vol(h) \in Volume /\ Temp(h) \in Point
  BY <1>1, TypeFacts, MountpointIs
<1>3. At(h, "unpublish") \/ Mountpoint(h) \in Point
  BY <1>1, TypeFacts, MountpointIs DEF At, RunningCall, StepsOf
<1>4. mounts' \subseteq Point
  <2>1. CASE Mount(h) \/ Remount(h)
    BY <1>3, <2>1 DEF Mount, Remount, Mounts, MountFails, At, TypeInv, TypeOK
  <2>2. CASE ~(Mount(h) \/ Remount(h))
    BY <1>2, <2>2
       DEF Step, MountStep, Grep, SubCheck, SubClean, SubMount, SubMkdir, SubUmount,
           ControllerStep, GetPV, Mkdir, Undo, Unmount, Stat, Archive, RemoveAll, Deferred,
           NodeStep, Check, Unpublish, Mounts, MountFails, Unmounts, UnmountFails,
           TypeInv, TypeOK
  <2> QED BY <2>1, <2>2
<1>5. failed' \subseteq Fault /\ faults' \in 0 .. MaxFaults
  <2>1. UNCHANGED failures \/ \E kind \in Fault : Fails(kind)
    BY DEF Step, MountStep, Grep, Mount, SubCheck, SubClean, SubMount, SubMkdir, SubUmount,
           Remount, ControllerStep, GetPV, Mkdir, Undo, Unmount, Stat, Archive, RemoveAll,
           Deferred, NodeStep, Check, Unpublish, Mounts, MountFails, Unmounts, UnmountFails,
           Works, Breaks, Fails
  <2>2. ASSUME NEW kind \in Fault, Fails(kind)
        PROVE  failed' \subseteq Fault /\ faults' \in 0 .. MaxFaults
    <3>1. failed' \subseteq Fault /\ faults' = faults + 1 /\ faults < MaxFaults
      BY <2>2 DEF Fails, TypeInv, TypeOK
    <3>2. faults \in 0 .. MaxFaults
      BY DEF TypeInv, TypeOK
    <3> QED BY <3>1, <3>2, NasAssumption
  <2> QED BY <2>1, <2>2 DEF TypeInv, TypeOK
<1>6. policy' \in [Volume -> Policy] /\ base' \in {"none", "dir", "root"} /\ wrote' \subseteq Volume
  BY DEF Step, MountStep, Grep, Mount, SubCheck, SubClean, SubMount, SubMkdir, SubUmount,
         Remount, ControllerStep, GetPV, Mkdir, Undo, Unmount, Stat, Archive, RemoveAll,
         Deferred, NodeStep, Check, Unpublish, share, TypeInv, TypeOK
<1>7. dir' \in [Volume -> {"none", "empty", "data"}]
      /\ archive' \in [Volume -> SUBSET {"empty", "data"}]
  <2>1. CASE Archive(h)
    <3>1. Found(h) => dir[Vol(h)] \in {"empty", "data"}
      BY <1>2 DEF Found, TypeInv, TypeOK
    <3>2. CASE Works(Found(h)) /\ archive' = [archive EXCEPT ![Vol(h)] = @ \cup {dir[Vol(h)]}]
               /\ dir' = [dir EXCEPT ![Vol(h)] = "none"]
      <4>1. archive[Vol(h)] \cup {dir[Vol(h)]} \in SUBSET {"empty", "data"}
        BY <1>2, <3>1, <3>2 DEF Works, TypeInv, TypeOK
      <4> QED BY <1>2, <3>2, <4>1 DEF TypeInv, TypeOK
    <3>3. CASE UNCHANGED <<archive, dir>>
      BY <3>3 DEF TypeInv, TypeOK
    <3> QED BY <2>1, <3>2, <3>3 DEF Archive
  <2>2. CASE SubMkdir(h)
    BY <1>2, <2>2 DEF SubMkdir, TypeInv, TypeOK
  <2>3. CASE Mkdir(h) \/ RemoveAll(h)
    BY <1>2, <2>3 DEF Mkdir, RemoveAll, TypeInv, TypeOK
  <2>4. CASE ~(Archive(h) \/ SubMkdir(h) \/ Mkdir(h) \/ RemoveAll(h))
    <3>1. UNCHANGED <<dir, archive>>
      BY <2>4
         DEF Step, MountStep, Grep, Mount, SubCheck, SubClean, SubMount, SubUmount,
             Remount, ControllerStep, GetPV, Undo, Unmount, Stat,
             Deferred, NodeStep, Check, Unpublish, share
    <3> QED BY <3>1 DEF TypeInv, TypeOK
  <2> QED BY <2>1, <2>2, <2>3, <2>4
<1> QED BY <1>4, <1>5, <1>6, <1>7 DEF ShareOK

(* Every effect moves the handler on or returns.                           *)
LEMMA EffectMoves ==
  ASSUME NEW h \in Call, Effect(h)
  PROVE  (\E pc \in Steps : Moves(h, pc)) \/ (\E ok \in BOOLEAN : Returns(h, ok))
BY DEF Effect, GoesOn, GivesUp, Finds, MountsIt, Proceeds, Makes, Looks, Drops, TakesAway,
       Releases, Steps, MountSteps

ControlOK ==
  /\ calls \in [Call -> Running \cup {Idle}] /\ StageOK /\ stage \in [Client -> Stages]
  /\ caller \in [Client -> Call \cup {NoCall}] /\ overtaken \subseteq Pod
  /\ timeouts \in 0 .. MaxTimeouts /\ CallsOK /\ CallersOK

LEMMA ControlStep ==
  ASSUME TypeInv, NEW h \in Call, Step(h)
  PROVE  ControlOK'
<1>1. calls[h] # Idle /\ Effect(h)
  BY StepEffect
<1>2. calls[h].for \in Client /\ RunningCall(calls[h])
      /\ calls[h].op \in {"create", "delete", "publish", "unpublish"}
  BY <1>1, TypeFacts
<1>3. CASE \E pc \in Steps : Moves(h, pc)
  BY <1>2, <1>3, Records
     DEF Moves, ControlOK, TypeInv, TypeOK, StageOK, CallsOK, CallersOK, Awaits, client,
         RunningCall
<1>4. CASE \E ok \in BOOLEAN : Returns(h, ok)
  <2>1. PICK ok \in BOOLEAN : Returns(h, ok)
    BY <1>4
  <2>2. StageOK'
    <3>1. calls[h].for \in Volume => calls[h].op \in {"create", "delete"}
      BY <1>2, NasAssumption DEF RunningCall
    <3>2. calls[h].for \in Pod => calls[h].op \in {"publish", "unpublish"}
      BY <1>2, NasAssumption DEF RunningCall
    <3> QED BY <1>2, <2>1, <3>1, <3>2
            DEF Returns, StageOK, TypeInv, TypeOK, Reached, Client
  <2>3. CallsOK'
    BY <2>1 DEF Returns, CallsOK, TypeInv
  <2>4. CallersOK'
    <3> SUFFICES ASSUME NEW c \in Client, caller'[c] # NoCall
                 PROVE  Awaits(c, caller[c])'
      BY DEF CallersOK
    <3>1. caller'[c] = caller[c] /\ Awaits(c, caller[c]) /\ caller[c] \in Call
      BY <1>2, <2>1 DEF Returns, TypeInv, TypeOK, CallersOK
    <3>2. caller[c] # h
      BY <2>1, <3>1 DEF Returns, Awaits
    <3>3. stage'[c] = stage[c]
      BY <2>1, <3>2 DEF Returns
    <3> QED BY <2>1, <3>1, <3>2, <3>3 DEF Returns, Awaits
  <2> QED BY <2>1, <2>2, <2>3, <2>4 DEF Returns, ControlOK, TypeInv, TypeOK
<1> QED BY <1>1, <1>3, <1>4, EffectMoves

LEMMA TypeSplit ==
  /\ TypeInv => ShareOK /\ ControlOK
  /\ (ShareOK /\ ControlOK)' => TypeInv'
BY DEF TypeInv, TypeOK, ShareOK, ControlOK, StageOK

LEMMA ControlStart ==
  ASSUME TypeInv, NEW h \in Call, NEW c \in Client,
         NEW op \in {"create", "delete", "publish", "unpublish"}, Starts(h, c, op)
  PROVE  ControlOK'
<1>1. CallsOK'
  BY DEF Starts, CallsOK, TypeInv
<1>2. CallersOK'
  <2> SUFFICES ASSUME NEW d \in Client, caller'[d] # NoCall
               PROVE  Awaits(d, caller[d])'
    BY DEF CallersOK
  <2>1. CASE d = c
    BY <2>1, Records DEF Starts, Awaits, RunningCall
  <2>2. CASE d # c
    <3>1. caller'[d] = caller[d] /\ Awaits(d, caller[d]) /\ caller[d] \in Call
      BY <2>2 DEF Starts, TypeInv, TypeOK, CallersOK
    <3>2. caller[d] # h
      BY <3>1 DEF Awaits, Starts
    <3> QED BY <3>1, <3>2 DEF Starts, Awaits
  <2> QED BY <2>1, <2>2
<1> QED BY <1>1, <1>2 DEF Starts, ControlOK, StageOK, TypeInv, TypeOK

LEMMA ControlRestart ==
  ASSUME TypeInv, NEW ops, NEW kinds, Dies(ops, kinds)
  PROVE  ControlOK'
<1>1. CallsOK'
  BY DEF Dies, CallsOK, TypeInv
<1>2. CallersOK'
  BY DEF Dies, CallersOK, Awaits, TypeInv, TypeOK
<1> QED BY <1>1, <1>2 DEF Dies, ControlOK, StageOK, TypeInv, TypeOK

LEMMA ControlUse ==
  ASSUME TypeInv, SomeUse \/ SomeoneGivesUp
  PROVE  ControlOK'
<1>1. ASSUME NEW v \in Volume, Release(v) PROVE ControlOK'
  <2>1. /\ stage' = [stage EXCEPT ![v] = "deleting"] /\ v \in Client
        /\ UNCHANGED <<calls, caller, overtaken, timeouts>>
    BY <1>1 DEF Release, Client
  <2>2. StageOK' /\ stage' \in [Client -> Stages]
    BY <2>1, NasAssumption DEF StageOK, Stages, TypeInv, TypeOK, Client
  <2>3. CallersOK'
    <3> SUFFICES ASSUME NEW c \in Client, caller[c] # NoCall
                 PROVE  Awaits(c, caller[c])'
      BY <2>1 DEF CallersOK
    <3>1. Awaits(c, caller[c]) /\ caller[c] \in Call
      BY DEF TypeInv, CallersOK, TypeOK
    <3>2. calls[caller[c]].op \in {"create", "delete", "publish", "unpublish"}
      BY <3>1, TypeFacts DEF Awaits
    <3>3. c # v
      BY <1>1, <3>1, <3>2 DEF Awaits, Asked, Release
    <3> QED BY <2>1, <3>1, <3>3 DEF Awaits, TypeInv
  <2> QED BY <2>1, <2>2, <2>3 DEF ControlOK, TypeInv, TypeOK, CallsOK
<1>2. ASSUME NEW p \in Pod, DeletePod(p) PROVE ControlOK'
  <2>1. /\ stage' = [stage EXCEPT ![p] = "stopping"] /\ p \in Client /\ caller[p] = NoCall
        /\ UNCHANGED <<calls, caller, overtaken, timeouts>>
    BY <1>2 DEF DeletePod, Client
  <2>2. StageOK' /\ stage' \in [Client -> Stages]
    BY <2>1, NasAssumption DEF StageOK, Stages, TypeInv, TypeOK, Client
  <2>3. CallersOK'
    BY <2>1 DEF CallersOK, Awaits, TypeInv
  <2> QED BY <2>1, <2>2, <2>3 DEF ControlOK, TypeInv, TypeOK, CallsOK
<1>3. ASSUME NEW p \in Pod, Write(p) PROVE ControlOK'
  BY <1>3 DEF Write, client, ControlOK, StageOK, TypeInv, TypeOK, CallsOK, CallersOK, Awaits
<1>4. ASSUME NEW c \in Client, GiveUp(c) PROVE ControlOK'
  <2>1. timeouts' \in 0 .. MaxTimeouts
    BY <1>4, NasAssumption DEF GiveUp, TypeInv, TypeOK
  <2>2. caller' \in [Client -> Call \cup {NoCall}]
        /\ \A d \in Client : caller'[d] # NoCall => caller'[d] = caller[d]
    BY <1>4 DEF GiveUp, TypeInv, TypeOK
  <2> QED BY <1>4, <2>1, <2>2
          DEF GiveUp, ControlOK, StageOK, TypeInv, TypeOK, CallsOK, CallersOK, Awaits
<1> QED BY <1>1, <1>2, <1>3, <1>4 DEF SomeUse, SomeoneGivesUp

LEMMA TypeNext ==
  ASSUME TypeInv, [Next]_vars
  PROVE  TypeInv'
<1>1. CASE SomeStep
  BY <1>1, ShareStep, ControlStep, TypeSplit DEF SomeStep
<1>2. CASE SomeStart
  <2>1. ShareOK' /\ ControlOK'
    BY <1>2, ControlStart, TypeSplit DEF SomeStart, Starts, share, ShareOK
  <2> QED BY <2>1, TypeSplit
<1>3. CASE SomeRestart
  <2>1. ControlOK'
    BY <1>3, ControlRestart DEF SomeRestart
  <2>2. ShareOK'
    BY <1>3, TypeSplit DEF SomeRestart, Dies, share, ShareOK
  <2> QED BY <2>1, <2>2, TypeSplit
<1>4. CASE SomeUse \/ SomeoneGivesUp
  <2>1. ControlOK'
    BY <1>4, ControlUse
  <2>2. ShareOK'
    <3>1. ASSUME NEW p \in Pod, Write(p) PROVE ShareOK'
      BY <3>1, NasAssumption DEF Write, ShareOK, TypeInv, TypeOK
    <3> QED BY <1>4, <3>1, TypeSplit
            DEF SomeUse, SomeoneGivesUp, GiveUp, Release, DeletePod, share, ShareOK
  <2> QED BY <2>1, <2>2, TypeSplit
<1>5. CASE UNCHANGED vars
  BY <1>5 DEF vars, share, client, TypeInv, TypeOK, CallsOK, CallersOK, Awaits
<1> QED BY <1>1, <1>2, <1>3, <1>4, <1>5, NextEffect

LEMMA TypeInit == Init => TypeInv
BY NasAssumption
   DEF Init, TypeInv, TypeOK, CallsOK, CallersOK, Client, Stages

(* The variables of the composition stay in their ranges, whatever calls   *)
(* overlap: each handler is at a step of its own call, and whoever waits   *)
(* for an answer waits for a handler that serves it (utils.go:59-140,      *)
(* controllerserver.go:60-233, nodeserver.go:56-139).                      *)
THEOREM TypeCorrect == Spec => []TypeOK
<1>1. TypeInv => TypeOK
  BY DEF TypeInv
<1> QED BY <1>1, TypeInit, TypeNext, PTL DEF Spec

-----------------------------------------------------------------------------
(* The stages. *)

(* No handler changes its call, and no caller goes back.                   *)
CallsKept ==
  \A g \in Call : \/ calls'[g] = Idle
                  \/ /\ calls'[g].op = calls[g].op /\ calls'[g].for = calls[g].for
                     /\ calls[g] # Idle

Forward ==
  /\ \A v \in Volume : Deleting(v) => Deleting(v)'
  /\ \A p \in Pod : /\ stage[p] \in {"stopping", "stopped"} => stage'[p] \in {"stopping", "stopped"}
                    /\ stage[p] = "stopped" => stage'[p] = "stopped"

LEMMA EffectFrame ==
  ASSUME TypeInv, NEW h \in Call, calls[h] # Idle, Effect(h)
  PROVE  /\ CallsKept
         /\ \A c \in Client :
              \/ stage'[c] = stage[c]
              \/ /\ c = calls[h].for
                 /\ stage[c] = Asked[calls[h].op] /\ stage'[c] = Reached[calls[h].op]
         /\ UNCHANGED overtaken
<1>1. CASE \E pc \in Steps : Moves(h, pc)
  BY <1>1 DEF Moves, CallsKept, client
<1>2. CASE \E ok \in BOOLEAN : Returns(h, ok)
  <2>1. PICK ok \in BOOLEAN : Returns(h, ok)
    BY <1>2
  <2>2. calls[h].for \in Client
    BY TypeFacts
  <2>3. CallsKept
    BY <2>1 DEF Returns, CallsKept
  <2>4. stage'[calls[h].for] = stage[calls[h].for]
        \/ (stage[calls[h].for] = Asked[calls[h].op]
              /\ stage'[calls[h].for] = Reached[calls[h].op])
    BY <2>1 DEF Returns
  <2> QED BY <2>1, <2>2, <2>3, <2>4 DEF Returns
<1> QED BY <1>1, <1>2, EffectMoves

LEMMA StepForward ==
  ASSUME TypeInv, NEW h \in Call, calls[h] # Idle, Effect(h)
  PROVE  /\ Forward
         /\ \A v \in Volume : Deleting(v)' => Deleting(v)
         /\ \A v \in Volume : stage'[v] = "bound" => stage[v] = "bound"
              \/ (stage[v] = "creating" /\ calls[h].op = "create" /\ calls[h].for = v)
<1>1. /\ calls[h].op \in {"create", "delete", "publish", "unpublish"}
      /\ calls[h].for \in Client /\ RunningCall(calls[h])
  BY TypeFacts
<1>2. \A v \in Volume : v \in Client /\ v \notin Pod
  BY NasAssumption DEF Client
<1>3. \A p \in Pod : p \in Client /\ p \notin Volume
  BY NasAssumption DEF Client
<1>4. CASE calls[h].op \in {"create", "delete"}
  <2>1. \A c \in Client : stage'[c] = stage[c]
          \/ (c = calls[h].for /\ calls[h].op = "create"
                /\ stage[c] = "creating" /\ stage'[c] = "bound")
          \/ (c = calls[h].for /\ calls[h].op = "delete"
                /\ stage[c] = "deleting" /\ stage'[c] = "gone")
    BY <1>4, EffectFrame DEF Asked, Reached
  <2>2. \A p \in Pod : stage'[p] = stage[p]
    BY <1>1, <1>3, <1>4, <2>1 DEF RunningCall
  <2> QED BY <1>2, <2>1, <2>2 DEF Forward, Deleting
<1>5. CASE calls[h].op \in {"publish", "unpublish"}
  <2>1. \A c \in Client : stage'[c] = stage[c]
          \/ (c = calls[h].for /\ stage[c] = "starting" /\ stage'[c] = "running")
          \/ (c = calls[h].for /\ stage[c] = "stopping" /\ stage'[c] = "stopped")
    BY <1>5, EffectFrame DEF Asked, Reached
  <2>2. \A v \in Volume : stage'[v] = stage[v]
    BY <1>1, <1>2, <1>5, <2>1 DEF RunningCall
  <2> QED BY <1>3, <2>1, <2>2 DEF Forward, Deleting
<1> QED BY <1>1, <1>4, <1>5

LEMMA UseForward ==
  ASSUME TypeInv, SomeUse
  PROVE  Forward
<1> USE DEF Deleting
<1>1. \A v \in Volume : v \in Client /\ v \notin Pod
  BY NasAssumption DEF Client
<1>2. stage \in [Client -> Stages]
  BY DEF TypeInv
<1>3. ASSUME NEW w \in Volume, Release(w) PROVE Forward
  <2>1. stage[w] = "bound" /\ stage' = [stage EXCEPT ![w] = "deleting"]
    BY <1>3 DEF Release
  <2>2. \A c \in Client : stage'[c] = IF c = w THEN "deleting" ELSE stage[c]
    BY <1>2, <2>1
  <2>3. \A v \in Volume : Deleting(v) => Deleting(v)'
    BY <1>1, <2>2
  <2>4. \A p \in Pod : stage'[p] = stage[p]
    BY <1>1, <2>2 DEF Client
  <2> QED BY <2>3, <2>4 DEF Forward
<1>4. ASSUME NEW q \in Pod, DeletePod(q) PROVE Forward
  <2>1. stage[q] \in {"starting", "running"} /\ stage' = [stage EXCEPT ![q] = "stopping"]
    BY <1>4 DEF DeletePod
  <2>2. \A c \in Client : stage'[c] = IF c = q THEN "stopping" ELSE stage[c]
    BY <1>2, <2>1
  <2>3. \A v \in Volume : stage'[v] = stage[v]
    BY <1>1, <2>2
  <2>4. \A p \in Pod : p # q => stage'[p] = stage[p]
    BY <2>2 DEF Client
  <2>5. stage[q] \notin {"stopping", "stopped"}
    BY <2>1
  <2> QED BY <2>3, <2>4, <2>5 DEF Forward
<1>5. ASSUME NEW q \in Pod, Write(q) PROVE Forward
  <2>1. stage' = stage
    BY <1>5 DEF Write, client
  <2> QED BY <2>1 DEF Forward
<1> QED BY <1>3, <1>4, <1>5 DEF SomeUse

(* What a handler's step adds to the mount tables.                         *)
LEMMA StepMounts ==
  ASSUME TypeInv, NEW h \in Call, calls[h] # Idle, Effect(h),
         NEW k \in {"create", "delete", "target"}, NEW c \in Client,
         <<k, c>> \in mounts', <<k, c>> \notin mounts
  PROVE  /\ calls[h].for = c /\ MountsIt(h)
         /\ calls[h].op = IF k = "target" THEN "publish" ELSE k
<1>1. MountsIt(h)
  <2>1. ~GoesOn(h) /\ ~GivesUp(h)
    BY DEF GoesOn, GivesUp, TempOnly
  <2>2. ~Finds(h) /\ ~Makes(h) /\ ~Looks(h) /\ ~Drops(h) /\ ~TakesAway(h) /\ ~Releases(h)
    BY DEF Finds, Makes, Looks, Drops, TakesAway, Releases
  <2> QED BY <2>1, <2>2 DEF Effect
<1>2. <<k, c>> = Mountpoint(h) /\ calls[h].op \in {"create", "delete", "publish"}
  BY <1>1 DEF MountsIt, Proceeds
<1>3. CASE calls[h].op = "publish"
  BY <1>1, <1>2, <1>3, MountpointIs
<1>4. CASE calls[h].op # "publish"
  BY <1>1, <1>2, <1>4, MountpointIs
<1> QED BY <1>3, <1>4

LEMMA OrderNext ==
  ASSUME TypeInv, TypeInv', OrderInv, [Next]_vars
  PROVE  OrderInv'
<1>1. ASSUME NEW h \in Call, Step(h) PROVE OrderInv'
  <2>1. calls[h] # Idle /\ Effect(h)
    BY <1>1, StepEffect
  <2>2. Forward /\ CallsKept /\ \A v \in Volume : Deleting(v)' => Deleting(v)
    BY <2>1, StepForward, EffectFrame
  <2>3. \A g \in Call : calls'[g] # Idle => RunningCall(calls'[g])
    BY DEF TypeInv, CallsOK
  <2>4. LateDelete' /\ LateUnpublish'
    BY <2>2, <2>3, Records
       DEF OrderInv, LateDelete, LateUnpublish, CallsKept, Forward, RunningCall
  <2>5. PodsFirst'
    BY <2>2, NasAssumption DEF OrderInv, PodsFirst, Forward
  <2>6. DeleteMountLate'
    <3> SUFFICES ASSUME NEW v \in Volume, <<"delete", v>> \in mounts' PROVE Deleting(v)'
      BY DEF DeleteMountLate
    <3>1. Deleting(v)
      <4>1. CASE <<"delete", v>> \in mounts
        BY <4>1 DEF OrderInv, DeleteMountLate
      <4>2. CASE <<"delete", v>> \notin mounts
        BY <2>1, <4>2, StepMounts DEF OrderInv, LateDelete, Client
      <4> QED BY <4>1, <4>2
    <3> QED BY <2>2, <3>1 DEF Forward
  <2> QED BY <2>4, <2>5, <2>6 DEF OrderInv
<1>2. CASE SomeStart
  <2>1. PICK h \in Call : \E c \in Client, op \in {"create", "delete", "publish", "unpublish"} :
               Starts(h, c, op)
    BY <1>2 DEF SomeStart
  <2>2. PICK c \in Client : \E op \in {"create", "delete", "publish", "unpublish"} : Starts(h, c, op)
    BY <2>1
  <2>3. PICK op \in {"create", "delete", "publish", "unpublish"} : Starts(h, c, op)
    BY <2>2
  <2>4. op = "delete" => stage[c] = "deleting"
    BY <2>3 DEF Starts, Asked
  <2>5. op = "unpublish" => stage[c] = "stopping"
    BY <2>3 DEF Starts, Asked
  <2> QED BY <2>3, <2>4, <2>5
          DEF Starts, OrderInv, LateDelete, LateUnpublish, PodsFirst, DeleteMountLate, Deleting
<1>3. CASE SomeRestart
  <2>1. /\ \A g \in Call : calls'[g] = Idle \/ calls'[g] = calls[g]
        /\ mounts' \subseteq mounts /\ UNCHANGED stage
    BY <1>3 DEF SomeRestart, Dies
  <2> QED BY <2>1, Records
          DEF OrderInv, LateDelete, LateUnpublish, PodsFirst, DeleteMountLate, Deleting
<1>4. CASE SomeUse
  <2>1. Forward /\ UNCHANGED <<calls, mounts>>
    BY <1>4, UseForward DEF SomeUse, Release, DeletePod, Write
  <2>2. LateDelete' /\ LateUnpublish' /\ DeleteMountLate'
    BY <2>1, TypeFacts, Records
       DEF OrderInv, LateDelete, LateUnpublish, DeleteMountLate, Forward, RunningCall
  <2>3. PodsFirst'
    <3>1. ASSUME NEW v \in Volume, Release(v) PROVE PodsFirst'
      BY <3>1, NasAssumption
         DEF Release, OrderInv, PodsFirst, Deleting, TypeInv, TypeOK, Client
    <3>2. ASSUME NEW p \in Pod, DeletePod(p) PROVE PodsFirst'
      BY <3>2, NasAssumption
         DEF DeletePod, OrderInv, PodsFirst, Deleting, TypeInv, TypeOK, Client
    <3>3. ASSUME NEW p \in Pod, Write(p) PROVE PodsFirst'
      BY <3>3 DEF Write, client, OrderInv, PodsFirst, Deleting
    <3> QED BY <1>4, <3>1, <3>2, <3>3 DEF SomeUse
  <2> QED BY <2>2, <2>3 DEF OrderInv
<1>5. CASE SomeoneGivesUp \/ UNCHANGED vars
  <2>1. UNCHANGED <<calls, mounts, stage>>
    BY <1>5 DEF SomeoneGivesUp, GiveUp, vars, client
  <2> QED BY <2>1
          DEF OrderInv, LateDelete, LateUnpublish, PodsFirst, DeleteMountLate, Deleting
<1> QED BY <1>1, <1>2, <1>3, <1>4, <1>5, NextEffect DEF SomeStep

-----------------------------------------------------------------------------
(* What a pod sees. *)

(* What a handler's step takes from the mount tables and the share, and    *)
(* whom it answers.                                                        *)
LEMMA StepUnmounts ==
  ASSUME TypeInv, NEW h \in Call, calls[h] # Idle, Effect(h),
         NEW k \in {"create", "delete", "target"}, NEW c \in Client,
         <<k, c>> \in mounts, <<k, c>> \notin mounts'
  PROVE  /\ calls[h].for = c
         /\ \/ k = calls[h].op /\ TakesAway(h)
            \/ k = "target" /\ calls[h].op = "unpublish"
<1>1. ~GoesOn(h) /\ ~GivesUp(h)
  BY DEF GoesOn, GivesUp, TempOnly
<1>2. ~Finds(h) /\ ~MountsIt(h) /\ ~Makes(h) /\ ~Looks(h) /\ ~Drops(h)
  BY DEF Finds, MountsIt, Makes, Looks, Drops
<1>3. CASE TakesAway(h)
  BY <1>3 DEF TakesAway
<1>4. CASE Releases(h)
  BY <1>4 DEF Releases
<1> QED BY <1>1, <1>2, <1>3, <1>4 DEF Effect

LEMMA StepDir ==
  ASSUME TypeInv, NEW h \in Call, calls[h] # Idle, Effect(h), NEW v \in Volume
  PROVE  \/ dir'[v] = dir[v]
         \/ dir[v] = "none" /\ dir'[v] = "empty"
         \/ Drops(h) /\ calls[h].for = v /\ dir'[v] = "none"
<1>1. CASE GoesOn(h) \/ Makes(h)
  BY <1>1 DEF GoesOn, Makes, DirKept
<1>2. CASE Drops(h)
  BY <1>2 DEF Drops, TypeInv, TypeOK
<1>3. CASE GivesUp(h) \/ Finds(h) \/ MountsIt(h) \/ Looks(h) \/ TakesAway(h) \/ Releases(h)
  BY <1>3 DEF GivesUp, Finds, MountsIt, Looks, TakesAway, Releases
<1> QED BY <1>1, <1>2, <1>3 DEF Effect

LEMMA StepAnswers ==
  ASSUME TypeInv, NEW h \in Call, calls[h] # Idle, Effect(h),
         NEW c \in Client, stage'[c] # stage[c]
  PROVE  /\ c = calls[h].for
         /\ stage[c] = Asked[calls[h].op] /\ stage'[c] = Reached[calls[h].op]
         /\ \/ calls[h].op = "publish" /\ (Finds(h) \/ MountsIt(h))
            \/ TakesAway(h)
            \/ calls[h].op = "unpublish" /\ <<"target", c>> \notin mounts'
<1>1. c = calls[h].for /\ stage[c] = Asked[calls[h].op] /\ stage'[c] = Reached[calls[h].op]
  BY EffectFrame
<1>2. \A pc : ~Moves(h, pc)
  BY DEF Moves, client
<1>3. ~Returns(h, FALSE)
  BY <1>1 DEF Returns
<1>4. ~GoesOn(h) /\ ~GivesUp(h) /\ ~Makes(h) /\ ~Looks(h) /\ ~Drops(h)
  BY <1>2, <1>3 DEF GoesOn, GivesUp, Makes, Looks, Drops
<1>5. Finds(h) \/ MountsIt(h) => calls[h].op = "publish"
  BY <1>2 DEF Finds, MountsIt, Proceeds
<1>6. Releases(h) => calls[h].op = "unpublish" /\ <<"target", c>> \notin mounts'
  BY <1>1, <1>3 DEF Releases
<1> QED BY <1>1, <1>4, <1>5, <1>6 DEF Effect

LEMMA StepDirStays ==
  ASSUME TypeInv, OrderInv, NEW h \in Call, calls[h] # Idle, Effect(h), NEW v \in Volume
  PROVE  /\ dir[v] # "none" => dir'[v] # "none" \/ Deleting(v)
         /\ dir'[v] = "data" => dir[v] = "data"
<1>1. Drops(h) /\ calls[h].for = v => Deleting(v)
  BY DEF Drops, OrderInv, LateDelete
<1> QED BY <1>1, StepDir

LEMMA RunNext ==
  ASSUME TypeInv, OrderInv, RunInv, [Next]_vars
  PROVE  RunInv'
<1> USE DEF Client
<1>1. ASSUME NEW h \in Call, Step(h) PROVE RunInv'
  <2>1. calls[h] # Idle /\ Effect(h)
    BY <1>1, StepEffect
  <2>2. Forward /\ \A v \in Volume : Deleting(v)' => Deleting(v)
    BY <2>1, StepForward
  <2>3. \A p \in Pod : VolumeOf[p] \in Volume /\ p \in Client
    BY NasAssumption
  <2>4. MountedHasDir'
    <3> SUFFICES ASSUME NEW p \in Pod, <<"target", p>> \in mounts'
                 PROVE  dir'[VolumeOf[p]] # "none" \/ Deleting(VolumeOf[p])'
      BY DEF MountedHasDir
    <3>1. CASE <<"target", p>> \in mounts
      <4>1. dir[VolumeOf[p]] # "none" \/ Deleting(VolumeOf[p])
        BY <3>1 DEF RunInv, MountedHasDir
      <4>2. dir'[VolumeOf[p]] # "none" \/ Deleting(VolumeOf[p])
        BY <2>1, <2>3, <4>1, StepDirStays
      <4> QED BY <2>2, <2>3, <4>2 DEF Forward
    <3>2. CASE <<"target", p>> \notin mounts
      <4>1. calls[h].for = p /\ MountsIt(h) /\ calls[h].op = "publish"
        BY <2>1, <2>3, <3>2, StepMounts
      <4> QED BY <2>1, <4>1, TypeFacts DEF MountsIt, SourceExists
    <3> QED BY <3>1, <3>2
  <2>5. RunningSeesVolume'
    <3> SUFFICES ASSUME NEW p \in Pod, stage'[p] = "running"
                 PROVE  <<"target", p>> \in mounts' /\ dir'[VolumeOf[p]] # "none"
      BY DEF RunningSeesVolume, Free
    <3>1. CASE stage[p] = "running"
      <4>1. <<"target", p>> \in mounts /\ dir[VolumeOf[p]] # "none"
        BY <3>1 DEF RunInv, RunningSeesVolume, Free
      <4>2. ~Deleting(VolumeOf[p])
        BY <3>1 DEF OrderInv, PodsFirst
      <4>3. dir'[VolumeOf[p]] # "none"
        BY <2>1, <2>3, <4>1, <4>2, StepDirStays
      <4>4. <<"target", p>> \in mounts'
        <5> SUFFICES ASSUME <<"target", p>> \notin mounts' PROVE FALSE
          OBVIOUS
        <5>1. calls[h].for = p /\ (calls[h].op = "target" \/ calls[h].op = "unpublish")
          BY <2>1, <2>3, <4>1, StepUnmounts
        <5> QED BY <2>1, <3>1, <5>1, TypeFacts DEF OrderInv, LateUnpublish
      <4> QED BY <4>3, <4>4
    <3>2. CASE stage[p] # "running"
      <4>1. /\ p = calls[h].for /\ stage[p] = Asked[calls[h].op]
            /\ Reached[calls[h].op] = "running"
            /\ \/ calls[h].op = "publish" /\ (Finds(h) \/ MountsIt(h))
               \/ TakesAway(h) \/ calls[h].op = "unpublish"
        BY <2>1, <2>3, <3>2, StepAnswers
      <4>2. calls[h].op = "publish" /\ stage[p] = "starting"
        BY <2>1, <4>1, TypeFacts DEF Reached, Asked
      <4>3. Finds(h) \/ MountsIt(h)
        BY <4>1, <4>2 DEF TakesAway
      <4>4. Mountpoint(h) = <<"target", p>>
        BY <2>1, <4>1, <4>2, MountpointIs
      <4>5. <<"target", p>> \in mounts'
        BY <4>3, <4>4 DEF Finds, MountsIt, isNfsPathMounted
      <4>6. ~Deleting(VolumeOf[p])'
        BY <2>2, <2>3, <4>2 DEF OrderInv, PodsFirst
      <4> QED BY <2>4, <4>5, <4>6 DEF MountedHasDir
    <3> QED BY <3>1, <3>2
  <2> QED BY <2>4, <2>5 DEF RunInv
<1>2. CASE SomeStart \/ SomeoneGivesUp \/ UNCHANGED vars
  <2>1. UNCHANGED <<mounts, dir, stage>>
    BY <1>2 DEF SomeStart, Starts, SomeoneGivesUp, GiveUp, vars, client, share
  <2> QED BY <2>1 DEF RunInv, MountedHasDir, RunningSeesVolume, Deleting, Free
<1>3. CASE SomeRestart
  <2>1. /\ \A p \in Pod : <<"target", p>> \in mounts' <=> <<"target", p>> \in mounts
        /\ UNCHANGED <<dir, stage>>
    BY <1>3 DEF SomeRestart, Dies, share
  <2> QED BY <2>1 DEF RunInv, MountedHasDir, RunningSeesVolume, Deleting, Free
<1>4. CASE SomeUse
  <2>1. Forward /\ UNCHANGED mounts
    BY <1>4, UseForward DEF SomeUse, Release, DeletePod, Write
  <2>2. \A v \in Volume : dir[v] # "none" => dir'[v] # "none"
    BY <1>4 DEF SomeUse, Release, DeletePod, Write, share, TypeInv, TypeOK
  <2>3. \A p \in Pod : stage'[p] = "running" => stage[p] = "running"
    BY <1>4 DEF SomeUse, Release, DeletePod, Write, client, TypeInv
  <2> QED BY <2>1, <2>2, <2>3, NasAssumption
          DEF RunInv, MountedHasDir, RunningSeesVolume, Forward, Free
<1> QED BY <1>1, <1>2, <1>3, <1>4, NextEffect DEF SomeStep

-----------------------------------------------------------------------------
(* What an unpublish leaves. *)

LEMMA StopNext ==
  ASSUME TypeInv, OrderInv, StopInv, [Next]_vars
  PROVE  StopInv'
<1>1. ASSUME NEW h \in Call, Step(h) PROVE StopInv'
  <2>1. calls[h] # Idle /\ Effect(h)
    BY <1>1, StepEffect
  <2>2. CallsKept /\ UNCHANGED overtaken
    BY <2>1, EffectFrame
  <2> SUFFICES ASSUME NEW p \in Pod, p \notin overtaken
               PROVE  /\ Unpublishing(p)' \/ stage'[p] = "stopped" => ~Publishing(p)'
                      /\ stage'[p] = "stopped" => <<"target", p>> \notin mounts'
    BY <2>2 DEF StopInv, NoLatePublish, StoppedIsUnmounted, Free
  <2>3. p \in Client
    BY DEF Client
  <2>4. (Publishing(p)' => Publishing(p)) /\ (Unpublishing(p)' => Unpublishing(p))
    BY <2>2, Records DEF CallsKept, Publishing, Unpublishing
  <2>5. Unpublishing(p) \/ stage[p] = "stopped" => ~Publishing(p)
    BY DEF StopInv, NoLatePublish
  <2>6. CASE stage'[p] = stage[p]
    <3>1. ASSUME stage[p] = "stopped" PROVE <<"target", p>> \notin mounts'
      <4>1. <<"target", p>> \notin mounts
        BY <3>1 DEF StopInv, StoppedIsUnmounted, Free
      <4>2. ~(calls[h].op = "publish" /\ calls[h].for = p)
        BY <2>5, <3>1 DEF Publishing
      <4> QED BY <2>1, <2>3, <4>1, <4>2, StepMounts
    <3> QED BY <2>4, <2>5, <2>6, <3>1
  <2>7. CASE stage'[p] # stage[p]
    <3>1. /\ p = calls[h].for /\ stage'[p] = Reached[calls[h].op]
          /\ \/ calls[h].op = "publish" \/ TakesAway(h)
             \/ calls[h].op = "unpublish" /\ <<"target", p>> \notin mounts'
      BY <2>1, <2>3, <2>7, StepAnswers
    <3>2. ASSUME stage'[p] = "stopped"
          PROVE  Unpublishing(p) /\ <<"target", p>> \notin mounts'
      <4>1. calls[h].op = "unpublish"
        BY <2>1, <3>1, <3>2, TypeFacts DEF Reached
      <4> QED BY <3>1, <4>1 DEF Unpublishing, TakesAway
    <3> QED BY <2>4, <2>5, <3>2
  <2> QED BY <2>6, <2>7
<1>2. CASE SomeStart
  <2>1. PICK h \in Call : \E c \in Client, op \in {"create", "delete", "publish", "unpublish"} :
               Starts(h, c, op)
    BY <1>2 DEF SomeStart
  <2>2. PICK c \in Client : \E op \in {"create", "delete", "publish", "unpublish"} : Starts(h, c, op)
    BY <2>1
  <2>3. PICK op \in {"create", "delete", "publish", "unpublish"} : Starts(h, c, op)
    BY <2>2
  <2>4. UNCHANGED <<mounts, stage>> /\ overtaken \subseteq overtaken'
    BY <2>3 DEF Starts
  <2>5. StoppedIsUnmounted'
    BY <2>4 DEF StopInv, StoppedIsUnmounted, Free
  <2>6. NoLatePublish'
    <3> SUFFICES ASSUME NEW p \in Pod, p \notin overtaken', Publishing(p)',
                        Unpublishing(p)' \/ stage[p] = "stopped"
                 PROVE  FALSE
      BY <2>4 DEF NoLatePublish
    <3>1. Unpublishing(p) \/ stage[p] = "stopped" => ~Publishing(p)
      BY <2>4 DEF StopInv, NoLatePublish
    <3>2. Publishing(p) \/ (op = "publish" /\ c = p)
      BY <2>3 DEF Starts, Publishing
    <3>3. Unpublishing(p) \/ stage[p] = "stopped" \/ (op = "unpublish" /\ c = p)
      BY <2>3 DEF Starts, Unpublishing
    <3>4. CASE op = "publish" /\ c = p
      <4>1. stage[p] = "starting"
        BY <2>3, <3>4 DEF Starts, Asked
      <4> QED BY <3>3, <3>4, <4>1 DEF OrderInv, LateUnpublish, Unpublishing
    <3>5. CASE op = "unpublish" /\ c = p
      BY <2>3, <3>2, <3>5 DEF Starts
    <3> QED BY <3>1, <3>2, <3>3, <3>4, <3>5
  <2> QED BY <2>5, <2>6 DEF StopInv
<1>3. CASE SomeRestart
  <2>1. /\ \A g \in Call : calls'[g] = Idle \/ calls'[g] = calls[g]
        /\ mounts' \subseteq mounts /\ UNCHANGED <<stage, overtaken>>
    BY <1>3 DEF SomeRestart, Dies
  <2> QED BY <2>1, Records
          DEF StopInv, NoLatePublish, StoppedIsUnmounted, Publishing, Unpublishing, Free
<1>4. CASE SomeUse
  <2>1. \A p \in Pod : stage'[p] = "stopped" => stage[p] = "stopped"
    BY <1>4 DEF SomeUse, Release, DeletePod, Write, client, TypeInv, Client
  <2>2. UNCHANGED <<calls, mounts, overtaken>>
    BY <1>4 DEF SomeUse, Release, DeletePod, Write, client
  <2> QED BY <2>1, <2>2
          DEF StopInv, NoLatePublish, StoppedIsUnmounted, Publishing, Unpublishing, Free
<1>5. CASE SomeoneGivesUp \/ UNCHANGED vars
  <2>1. UNCHANGED <<calls, mounts, stage, overtaken>>
    BY <1>5 DEF SomeoneGivesUp, GiveUp, vars, client
  <2> QED BY <2>1
          DEF StopInv, NoLatePublish, StoppedIsUnmounted, Publishing, Unpublishing, Free
<1> QED BY <1>1, <1>2, <1>3, <1>4, <1>5, NextEffect DEF SomeStep

-----------------------------------------------------------------------------
(* What a create makes. *)

MadeNext(v) == dir'[v] # "none" \/ stage'[v] \in {"deleting", "gone"}

LEMMA BoundStep ==
  ASSUME TypeInv, OrderInv, BoundInv, NEW h \in Call, Step(h), "mkdir" \notin failed'
  PROVE  MkdirOnShare' /\ BoundHasDir'
<1>1. calls[h] # Idle /\ Effect(h)
  BY StepEffect
<1>2. MkdirOnShare /\ \A v \in Volume : stage[v] = "bound" => dir[v] # "none"
  BY StepSteady DEF BoundInv, BoundHasDir, Steady
<1>3. \A v \in Volume : Made(v) => MadeNext(v)
  <2> SUFFICES ASSUME NEW v \in Volume, Made(v) PROVE MadeNext(v)
    OBVIOUS
  <2>1. dir'[v] # "none" \/ Deleting(v)
    BY <1>1, StepDirStays DEF Made
  <2> QED BY <1>1, <2>1, StepForward DEF Forward, MadeNext, Deleting
<1>4. ASSUME NEW g \in Call, g # h, calls[g].op = "create"
      PROVE  /\ calls'[g] = calls[g] /\ calls[g].for \in Volume
             /\ <<"create", calls[g].for>> \in mounts
                  => <<"create", calls[g].for>> \in mounts' \/ Made(calls[g].for)
  <2>1. calls'[g] = calls[g]
    BY <1>1, <1>4, EffectMoves DEF Moves, Returns
  <2>2. calls[g].for \in Volume /\ calls[g].for \in Client
    BY <1>4, TypeFacts, Records DEF RunningCall, Client
  <2>3. ASSUME <<"create", calls[g].for>> \in mounts, <<"create", calls[g].for>> \notin mounts'
        PROVE  Made(calls[g].for)
    <3>1. calls[h].for = calls[g].for /\ calls[h].op = "create" /\ TakesAway(h)
      BY <1>1, <2>2, <2>3, StepUnmounts
    <3> QED BY <1>2, <3>1 DEF TakesAway, MkdirOnShare
  <2> QED BY <2>1, <2>2, <2>3
<1>5. calls'[h].op = "create" =>
        /\ calls'[h].pc = "mkdir" => <<"create", calls'[h].for>> \in mounts' \/ MadeNext(calls'[h].for)
        /\ calls'[h].pc = "umount" => MadeNext(calls'[h].for)
        /\ calls'[h].pc # "undo"
  <2> SUFFICES ASSUME calls'[h].op = "create"
               PROVE  /\ calls'[h].pc = "mkdir"
                           => <<"create", calls'[h].for>> \in mounts' \/ MadeNext(calls'[h].for)
                      /\ calls'[h].pc = "umount" => MadeNext(calls'[h].for)
                      /\ calls'[h].pc # "undo"
    OBVIOUS
  <2>1. \A ok : ~Returns(h, ok)
    BY Records DEF Returns
  <2>2. calls[h].op = "create" /\ calls'[h].for = calls[h].for
    BY <1>1, <2>1, EffectMoves DEF Moves
  <2> DEFINE v == calls[h].for
  <2>3. v \in Volume /\ Mountpoint(h) = <<"create", v>>
    BY <1>1, <2>2, TypeFacts, MountpointIs DEF RunningCall
  <2>4. CASE GoesOn(h)
    BY <2>4 DEF GoesOn, Moves, MountSteps
  <2>5. CASE Finds(h)
    <3>1. <<"create", v>> \in mounts \/ Deleting(v)
      BY <2>3, <2>5 DEF Finds, isNfsPathMounted, OrderInv, DeleteMountLate
    <3>2. calls'[h].pc = "mkdir"
      BY <2>1, <2>2, <2>5 DEF Finds, Proceeds, Moves
    <3>3. <<"create", v>> \in mounts' \/ MadeNext(v)
      BY <1>3, <2>3, <2>5, <3>1 DEF Finds, Made, Deleting
    <3> QED BY <2>2, <3>2, <3>3
  <2>6. CASE MountsIt(h)
    <3>1. <<"create", v>> \in mounts'
      BY <2>3, <2>6 DEF MountsIt
    <3>2. calls'[h].pc = "mkdir"
      BY <2>1, <2>2, <2>6 DEF MountsIt, Proceeds, Moves
    <3> QED BY <2>2, <3>1, <3>2
  <2>7. CASE Makes(h)
    <3>1. calls'[h].pc = "umount" /\ (<<"create", v>> \in mounts => dir'[v] # "none")
      BY <2>7 DEF Makes, Moves
    <3>2. <<"create", v>> \in mounts \/ Made(v)
      BY <1>2, <2>7 DEF Makes, MkdirOnShare
    <3>3. MadeNext(v)
      BY <1>3, <2>3, <3>1, <3>2 DEF MadeNext
    <3> QED BY <2>2, <3>1, <3>3
  <2> QED BY <1>1, <2>1, <2>2, <2>4, <2>5, <2>6, <2>7
          DEF Effect, GivesUp, Looks, Drops, TakesAway, Releases
<1>6. MkdirOnShare'
  <2> SUFFICES ASSUME NEW g \in Call, calls'[g].op = "create"
               PROVE  /\ calls'[g].pc = "mkdir"
                           => <<"create", calls'[g].for>> \in mounts' \/ MadeNext(calls'[g].for)
                      /\ calls'[g].pc = "umount" => MadeNext(calls'[g].for)
                      /\ calls'[g].pc # "undo"
    BY DEF MkdirOnShare, Made, MadeNext, Deleting
  <2>1. CASE g = h
    BY <1>5, <2>1
  <2>2. CASE g # h
    <3>1. calls'[g] = calls[g]
      BY <1>1, <2>2, EffectMoves DEF Moves, Returns
    <3> DEFINE v == calls[g].for
    <3>2. /\ v \in Volume
          /\ <<"create", v>> \in mounts => <<"create", v>> \in mounts' \/ Made(v)
      BY <1>4, <2>2, <3>1
    <3>3. /\ calls[g].pc = "mkdir" => <<"create", v>> \in mounts \/ Made(v)
          /\ calls[g].pc = "umount" => Made(v)
          /\ calls[g].pc # "undo"
      BY <1>2, <3>1 DEF MkdirOnShare
    <3>4. Made(v) => MadeNext(v)
      BY <1>3, <3>2
    <3> QED BY <3>1, <3>2, <3>3, <3>4
  <2> QED BY <2>1, <2>2
<1>7. BoundHasDir'
  <2> SUFFICES ASSUME NEW v \in Volume, stage'[v] = "bound" PROVE dir'[v] # "none"
    BY DEF BoundHasDir
  <2>1. CASE stage[v] = "bound"
    BY <1>1, <1>2, <2>1, StepDirStays DEF Deleting
  <2>2. CASE stage[v] # "bound"
    <3>1. stage[v] = "creating" /\ calls[h].op = "create" /\ calls[h].for = v
      BY <1>1, <2>2, StepForward
    <3>2. TakesAway(h)
      BY <1>1, <2>2, <3>1, StepAnswers DEF Client
    <3>3. Made(v) /\ UNCHANGED dir
      BY <1>2, <3>1, <3>2 DEF TakesAway, MkdirOnShare
    <3> QED BY <3>1, <3>3 DEF Made, Deleting
  <2> QED BY <2>1, <2>2
<1> QED BY <1>6, <1>7

LEMMA BoundNext ==
  ASSUME TypeInv, OrderInv, BoundInv, [Next]_vars
  PROVE  BoundInv'
<1>1. CASE SomeStep
  BY <1>1, BoundStep DEF SomeStep, BoundInv
<1>2. CASE SomeStart
  <2>1. /\ \A g \in Call : calls'[g] = calls[g] \/ calls'[g].pc \in {"grep", "getpv", "check", "unpublish"}
        /\ UNCHANGED <<mounts, dir, stage, failed>>
    BY <1>2 DEF SomeStart, Starts, share
  <2> QED BY <2>1 DEF BoundInv, MkdirOnShare, BoundHasDir, Made, Deleting
<1>3. CASE SomeRestart
  <2>1. /\ \A g \in Call : calls'[g] = Idle \/ calls'[g] = calls[g]
        /\ failed \subseteq failed' /\ UNCHANGED <<dir, stage>>
        /\ \/ \A g \in Call : calls'[g].op # "create"
           \/ \A v \in Volume : <<"create", v>> \in mounts' <=> <<"create", v>> \in mounts
    BY <1>3, Records DEF SomeRestart, Dies, share
  <2>2. \A g \in Call : calls[g].op = "create" => calls[g].for \in Volume
    BY TypeFacts, Records DEF RunningCall
  <2> QED BY <2>1, <2>2, Records DEF BoundInv, MkdirOnShare, BoundHasDir, Made, Deleting
<1>4. CASE SomeUse
  <2>1. Forward /\ UNCHANGED <<mounts, calls, failed>>
    BY <1>4, UseForward DEF SomeUse, Release, DeletePod, Write, client
  <2>2. \A v \in Volume : dir[v] # "none" => dir'[v] # "none"
    BY <1>4 DEF SomeUse, Release, DeletePod, Write, share, TypeInv, TypeOK
  <2>3. \A v \in Volume : stage'[v] = "bound" => stage[v] = "bound"
    BY <1>4, NasAssumption DEF SomeUse, Release, DeletePod, Write, client, TypeInv, Client
  <2>4. \A g \in Call : calls[g].op = "create" => calls[g].for \in Volume
    BY TypeFacts, Records DEF RunningCall
  <2>5. \A v \in Volume : Made(v) => MadeNext(v)
    BY <2>1, <2>2 DEF Made, MadeNext, Forward, Deleting
  <2>6. MkdirOnShare => MkdirOnShare'
    BY <2>1, <2>4, <2>5 DEF MkdirOnShare, Made, MadeNext, Deleting
  <2> QED BY <2>1, <2>2, <2>3, <2>6 DEF BoundInv, BoundHasDir
<1>5. CASE SomeoneGivesUp \/ UNCHANGED vars
  <2>1. UNCHANGED <<calls, mounts, dir, stage, failed>>
    BY <1>5 DEF SomeoneGivesUp, GiveUp, vars, client, share
  <2> QED BY <2>1 DEF BoundInv, MkdirOnShare, BoundHasDir, Made, Deleting
<1> QED BY <1>1, <1>2, <1>3, <1>4, <1>5, NextEffect

-----------------------------------------------------------------------------
(* What a delete leaves. *)

LEMMA GoneStep ==
  ASSUME TypeInv, OrderInv, GoneInv, NEW h \in Call, Step(h),
         failed' \cap {"remove", "rename"} = {}
  PROVE  DropOnShare' /\ DeletedIsGone'
<1>1. calls[h] # Idle /\ Effect(h)
  BY StepEffect
<1>2. UNCHANGED policy /\ failed \cap {"remove", "rename"} = {}
  BY StepSteady DEF Steady
<1>3. DropOnShare
      /\ \A v \in Volume : stage[v] = "gone" /\ policy[v] # "invalid" => dir[v] # "data"
  BY <1>2 DEF GoneInv, DeletedIsGone
<1>4. \A v \in Volume : dir'[v] = "data" => dir[v] = "data"
  BY <1>1, StepDirStays
<1>5. DropOnShare'
  <2> SUFFICES ASSUME NEW g \in Call, calls'[g].op = "delete", policy[calls'[g].for] # "invalid"
               PROVE  /\ calls'[g].pc \in {"stat", "drop"}
                           => <<"delete", calls'[g].for>> \in mounts' \/ dir'[calls'[g].for] # "data"
                      /\ calls'[g].pc = "deferred" => dir'[calls'[g].for] # "data"
    BY <1>2 DEF DropOnShare
  <2> DEFINE v == calls[g].for
  <2>1. calls'[g].op = calls[g].op /\ calls'[g].for = v /\ calls[g] # Idle
    BY <1>1, EffectFrame, Records DEF CallsKept
  <2>2. v \in Volume /\ v \in Client
    BY <2>1, TypeFacts DEF RunningCall, Client
  <2>3. /\ calls[g].pc \in {"stat", "drop"} => <<"delete", v>> \in mounts \/ dir[v] # "data"
        /\ calls[g].pc = "deferred" => dir[v] # "data"
    BY <1>3, <2>1 DEF DropOnShare
  <2>4. CASE g # h
    <3>1. calls'[g] = calls[g]
      BY <1>1, <2>4, EffectMoves DEF Moves, Returns
    <3>2. ASSUME <<"delete", v>> \in mounts, <<"delete", v>> \notin mounts'
          PROVE  dir[v] # "data"
      <4>1. calls[h].for = v /\ calls[h].op = "delete" /\ TakesAway(h)
        BY <1>1, <2>2, <3>2, StepUnmounts
      <4> QED BY <1>3, <2>1, <4>1 DEF TakesAway, DropOnShare
    <3> QED BY <1>4, <2>1, <2>2, <2>3, <3>1, <3>2
  <2>5. CASE g = h
    <3>1. \A ok : ~Returns(h, ok)
      BY <2>5, Records DEF Returns
    <3>2. Mountpoint(h) = <<"delete", v>> /\ Vol(h) = v
      BY <1>1, <2>1, <2>5, MountpointIs, TypeFacts
    <3>3. CASE GoesOn(h)
      BY <2>5, <3>3 DEF GoesOn, Moves, MountSteps
    <3>4. CASE Finds(h) \/ MountsIt(h)
      <4>1. <<"delete", v>> \in mounts'
        BY <3>2, <3>4 DEF Finds, MountsIt, isNfsPathMounted
      <4>2. calls'[h].pc = "stat"
        BY <2>1, <2>5, <3>1, <3>4 DEF Finds, MountsIt, Proceeds, Moves
      <4> QED BY <2>1, <2>5, <4>1, <4>2
    <3>5. CASE Looks(h)
      <4>1. CASE Moves(h, "drop")
        BY <2>1, <2>3, <2>5, <3>5, <4>1 DEF Looks, Moves
      <4>2. CASE Moves(h, "deferred") /\ (~Found(h) \/ policy[v] = "invalid")
        <5>1. ~Found(h)
          BY <2>1, <4>2
        <5>2. dir[v] # "data"
          BY <2>3, <2>5, <3>2, <3>5, <5>1 DEF Looks, Found, Free
        <5> QED BY <2>1, <2>5, <3>5, <4>2, <5>2 DEF Looks, Moves
      <4> QED BY <2>5, <3>5, <4>1, <4>2 DEF Looks
    <3>6. CASE Drops(h)
      <4>1. calls'[h].pc = "deferred" /\ calls[h].pc = "drop"
        BY <3>6 DEF Drops, Moves
      <4>2. ~Found(h) \/ dir'[v] = "none"
        BY <2>5, <3>6 DEF Drops
      <4>3. dir'[v] # "data"
        BY <1>4, <2>2, <2>3, <2>5, <3>2, <4>1, <4>2 DEF Found, Free
      <4> QED BY <2>1, <2>5, <4>1, <4>3
    <3> QED BY <1>1, <2>1, <2>5, <3>1, <3>3, <3>4, <3>5, <3>6
            DEF Effect, GivesUp, Makes, TakesAway, Releases
  <2> QED BY <2>4, <2>5
<1>6. DeletedIsGone'
  <2> SUFFICES ASSUME NEW v \in Volume, stage'[v] = "gone", policy[v] # "invalid"
               PROVE  dir'[v] # "data"
    BY <1>2 DEF DeletedIsGone
  <2>1. CASE stage[v] = "gone"
    BY <1>3, <1>4, <2>1
  <2>2. CASE stage[v] # "gone"
    <3>1. v = calls[h].for /\ Reached[calls[h].op] = "gone"
      BY <1>1, <2>2, StepAnswers DEF Client
    <3>2. calls[h].op = "delete"
      BY <1>1, <3>1, TypeFacts DEF Reached
    <3>3. TakesAway(h)
      BY <1>1, <2>2, <3>2, StepAnswers DEF Client
    <3> QED BY <1>3, <3>1, <3>2, <3>3 DEF TakesAway, DropOnShare
  <2> QED BY <2>1, <2>2
<1> QED BY <1>5, <1>6

LEMMA GoneNext ==
  ASSUME TypeInv, OrderInv, RunInv, GoneInv, [Next]_vars
  PROVE  GoneInv'
<1>1. CASE SomeStep
  BY <1>1, GoneStep DEF SomeStep, GoneInv
<1>2. CASE SomeStart
  <2>1. /\ \A g \in Call : calls'[g] = calls[g] \/ calls'[g].pc \in {"grep", "getpv", "check", "unpublish"}
        /\ UNCHANGED <<mounts, dir, stage, failed, policy>>
    BY <1>2 DEF SomeStart, Starts, share
  <2> QED BY <2>1 DEF GoneInv, DropOnShare, DeletedIsGone
<1>3. CASE SomeRestart
  <2>1. /\ \A g \in Call : calls'[g] = Idle \/ calls'[g] = calls[g]
        /\ failed \subseteq failed' /\ UNCHANGED <<dir, stage, policy>>
        /\ \/ \A g \in Call : calls'[g].op # "delete"
           \/ \A v \in Volume : <<"delete", v>> \in mounts' <=> <<"delete", v>> \in mounts
    BY <1>3, Records DEF SomeRestart, Dies, share
  <2>2. \A g \in Call : calls[g].op = "delete" => calls[g].for \in Volume
    BY TypeFacts, Records DEF RunningCall
  <2>3. DropOnShare => DropOnShare'
    BY <2>1, <2>2, Records DEF DropOnShare
  <2> QED BY <2>1, <2>3 DEF GoneInv, DeletedIsGone
<1>4. CASE \E p \in Pod : Write(p)
  <2>1. PICK p \in Pod : Write(p)
    BY <1>4
  <2>2. ~Deleting(VolumeOf[p]) /\ UNCHANGED <<calls, mounts, stage, failed, policy>>
    BY <2>1 DEF Write, client, OrderInv, PodsFirst
  <2>3. \A v \in Volume : v # VolumeOf[p] => dir'[v] = dir[v]
    BY <2>1 DEF Write, TypeInv, TypeOK
  <2>4. \A g \in Call : calls[g].op = "delete" =>
          calls[g].for \in Volume /\ calls[g].for # VolumeOf[p]
    BY <2>2, TypeFacts, Records DEF RunningCall, OrderInv, LateDelete
  <2> QED BY <2>2, <2>3, <2>4 DEF GoneInv, DropOnShare, DeletedIsGone, Deleting
<1>5. CASE SomeUse /\ ~(\E p \in Pod : Write(p))
  <2>1. UNCHANGED <<calls, mounts, dir, failed, policy>>
    BY <1>5 DEF SomeUse, Release, DeletePod, share
  <2>2. \A v \in Volume : stage'[v] = "gone" => stage[v] = "gone"
    BY <1>5, NasAssumption DEF SomeUse, Release, DeletePod, TypeInv, Client
  <2> QED BY <2>1, <2>2 DEF GoneInv, DropOnShare, DeletedIsGone
<1>6. CASE SomeoneGivesUp \/ UNCHANGED vars
  <2>1. UNCHANGED <<calls, mounts, dir, stage, failed, policy>>
    BY <1>6 DEF SomeoneGivesUp, GiveUp, vars, client, share
  <2> QED BY <2>1 DEF GoneInv, DropOnShare, DeletedIsGone
<1> QED BY <1>1, <1>2, <1>3, <1>4, <1>5, <1>6, NextEffect

-----------------------------------------------------------------------------
(* The scratch mounts. *)

LEMMA UsedStep ==
  ASSUME TypeInv, EveryMountIsUsed, NEW h \in Call, Step(h), "unmount" \notin failed',
         NEW v \in Volume, NEW op \in {"create", "delete"}, <<op, v>> \in mounts'
  PROVE  \E g \in Call : Unmounter(g, op, v)'
<1>1. calls[h] # Idle /\ Effect(h) /\ "unmount" \notin failed
  BY StepEffect, StepSteady DEF Steady
<1>2. v \in Client
  BY DEF Client
<1>3. CASE <<op, v>> \notin mounts
  <2>1. calls[h].for = v /\ MountsIt(h) /\ calls[h].op = op
    BY <1>1, <1>2, <1>3, StepMounts
  <2>2. Moves(h, "mkdir") \/ Moves(h, "stat")
    BY <2>1 DEF MountsIt, Proceeds
  <2>3. Unmounter(h, op, v)'
    BY <2>1, <2>2 DEF Moves, Unmounter, Holding
  <2> QED BY <2>3
<1>4. CASE <<op, v>> \in mounts
  <2>1. PICK g \in Call : Unmounter(g, op, v)
    BY <1>1, <1>4 DEF EveryMountIsUsed
  <2>2. CASE g # h
    <3>1. calls'[g] = calls[g]
      BY <1>1, <2>2, EffectMoves DEF Moves, Returns
    <3>2. Unmounter(g, op, v)'
      BY <2>1, <3>1 DEF Unmounter
    <3> QED BY <3>2
  <2>3. CASE g = h
    <3>1. ~GoesOn(h) /\ ~GivesUp(h) /\ ~Releases(h)
      BY <2>1, <2>3 DEF GoesOn, GivesUp, Releases, Unmounter
    <3>2. ~TakesAway(h)
      BY <1>1, <1>4, <2>1, <2>3 DEF TakesAway, Unmounter
    <3>3. \E pc \in Holding : Moves(h, pc)
      BY <1>1, <2>1, <2>3, <3>1, <3>2
         DEF Effect, Finds, MountsIt, Proceeds, Makes, Looks, Drops, Unmounter, Holding
    <3>4. Unmounter(h, op, v)'
      BY <2>1, <2>3, <3>3 DEF Moves, Unmounter
    <3> QED BY <3>4
  <2> QED BY <2>2, <2>3
<1> QED BY <1>3, <1>4

\* The controller's handlers stay, and nothing else is mounted.
LEMMA UsedKept ==
  ASSUME EveryMountIsUsed, failed \subseteq failed',
         \A v \in Volume, op \in {"create", "delete"} :
           <<op, v>> \in mounts' => <<op, v>> \in mounts,
         \A g \in Call : calls[g].op \in {"create", "delete"} => calls'[g] = calls[g]
  PROVE  EveryMountIsUsed'
<1> SUFFICES ASSUME "unmount" \notin failed', NEW v \in Volume, NEW op \in {"create", "delete"},
                    <<op, v>> \in mounts'
             PROVE  \E g \in Call : Unmounter(g, op, v)'
  BY DEF EveryMountIsUsed
<1>1. PICK g \in Call : Unmounter(g, op, v)
  BY DEF EveryMountIsUsed
<1>2. Unmounter(g, op, v)'
  BY <1>1 DEF Unmounter
<1> QED BY <1>2

LEMMA UsedNext ==
  ASSUME TypeInv, EveryMountIsUsed, [Next]_vars
  PROVE  EveryMountIsUsed'
<1>1. CASE SomeStep
  BY <1>1, UsedStep DEF SomeStep, EveryMountIsUsed
<1>2. CASE SomeStart
  <2>1. /\ \A g \in Call : calls[g] # Idle => calls'[g] = calls[g]
        /\ UNCHANGED <<mounts, failed>>
    BY <1>2 DEF SomeStart, Starts
  <2> QED BY <2>1, UsedKept, Records
<1>3. CASE SomeRestart
  <2>1. CASE Dies({"create", "delete"}, {"create", "delete", "temp"})
    <3>1. \A v \in Volume, op \in {"create", "delete"} : <<op, v>> \notin mounts'
      BY <2>1 DEF Dies
    <3> QED BY <3>1 DEF EveryMountIsUsed
  <2>2. CASE Dies({"publish", "unpublish"}, {"nodetemp"})
    <3>1. /\ \A v \in Volume, op \in {"create", "delete"} :
               <<op, v>> \in mounts' => <<op, v>> \in mounts
          /\ \A g \in Call : calls[g].op \in {"create", "delete"} => calls'[g] = calls[g]
          /\ failed \subseteq failed'
      BY <2>2 DEF Dies
    <3> QED BY <3>1, UsedKept
  <2> QED BY <1>3, <2>1, <2>2 DEF SomeRestart
<1>4. CASE SomeUse \/ SomeoneGivesUp \/ UNCHANGED vars
  <2>1. UNCHANGED <<calls, mounts, failed>>
    BY <1>4 DEF SomeUse, Release, DeletePod, Write, SomeoneGivesUp, GiveUp, vars, client
  <2> QED BY <2>1, UsedKept
<1> QED BY <1>1, <1>2, <1>3, <1>4, NextEffect

-----------------------------------------------------------------------------
(* What was written. *)

LEMMA ArchiveStep ==
  ASSUME TypeInv, NEW h \in Call, Step(h), NEW v \in Volume
  PROVE  /\ archive[v] \subseteq archive'[v]
         /\ dir[v] = "data" =>
              dir'[v] = "data" \/ "data" \in archive'[v] \/ policy[v] = "delete"
<1>1. calls[h] # Idle
  BY StepEffect
<1>2. Vol(h) \in Volume
  BY <1>1, TypeFacts
<1>3. CASE Archive(h)
  <2>1. CASE UNCHANGED <<archive, dir>>
    BY <2>1
  <2>2. CASE /\ archive' = [archive EXCEPT ![Vol(h)] = archive[Vol(h)] \cup {dir[Vol(h)]}]
             /\ dir' = [dir EXCEPT ![Vol(h)] = "none"]
    <3>1. v # Vol(h) => archive'[v] = archive[v] /\ dir'[v] = dir[v]
      BY <2>2 DEF TypeInv, TypeOK
    <3>2. v = Vol(h) => archive'[v] = archive[v] \cup {dir[v]}
      BY <2>2 DEF TypeInv, TypeOK
    <3> QED BY <3>1, <3>2
  <2> QED BY <1>3, <2>1, <2>2 DEF Archive
<1>4. CASE RemoveAll(h)
  BY <1>2, <1>4 DEF RemoveAll, TypeInv, TypeOK
<1>5. CASE Mkdir(h) \/ SubMkdir(h)
  BY <1>2, <1>5 DEF Mkdir, SubMkdir, TypeInv, TypeOK
<1>6. CASE ~(Archive(h) \/ RemoveAll(h) \/ Mkdir(h) \/ SubMkdir(h))
  <2>1. UNCHANGED <<dir, archive>>
    BY <1>6
       DEF Step, MountStep, Grep, Mount, SubCheck, SubClean, SubMount, SubUmount, Remount,
           ControllerStep, GetPV, Undo, Unmount, Stat, Deferred, NodeStep, Check, Unpublish,
           share
  <2> QED BY <2>1
<1> QED BY <1>3, <1>4, <1>5, <1>6

LEMMA ArchiveNext ==
  ASSUME TypeInv, ArchiveKeepsData, [Next]_vars
  PROVE  ArchiveKeepsData'
<1>1. CASE SomeStep
  <2>1. PICK h \in Call : Step(h)
    BY <1>1 DEF SomeStep
  <2>2. UNCHANGED <<policy, wrote>> /\ wrote \subseteq Volume
    BY <2>1, StepSteady DEF Steady, TypeInv, TypeOK
  <2> SUFFICES ASSUME NEW v \in wrote, policy[v] # "delete"
               PROVE  dir'[v] = "data" \/ "data" \in archive'[v]
    BY <2>2 DEF ArchiveKeepsData
  <2>3. dir[v] = "data" \/ "data" \in archive[v]
    BY DEF ArchiveKeepsData
  <2>4. /\ archive[v] \subseteq archive'[v]
        /\ dir[v] = "data" => dir'[v] = "data" \/ "data" \in archive'[v]
    BY <2>1, <2>2, ArchiveStep
  <2> QED BY <2>3, <2>4
<1>2. CASE \E p \in Pod : Write(p)
  BY <1>2, NasAssumption DEF Write, ArchiveKeepsData, TypeInv, TypeOK
<1>3. CASE SomeStart \/ SomeRestart \/ (SomeUse /\ ~(\E p \in Pod : Write(p)))
           \/ SomeoneGivesUp \/ UNCHANGED vars
  <2>1. UNCHANGED <<policy, wrote, dir, archive>>
    BY <1>3 DEF SomeStart, Starts, SomeRestart, Dies, SomeUse, Release, DeletePod,
                SomeoneGivesUp, GiveUp, vars, share
  <2> QED BY <2>1 DEF ArchiveKeepsData
<1> QED BY <1>1, <1>2, <1>3, NextEffect

-----------------------------------------------------------------------------
NasInv ==
  TypeInv /\ OrderInv /\ RunInv /\ StopInv /\ BoundInv /\ GoneInv /\ EveryMountIsUsed
          /\ ArchiveKeepsData

LEMMA NasInit == Init => NasInv
<1> SUFFICES ASSUME Init PROVE NasInv
  OBVIOUS
<1>1. TypeInv
  BY TypeInit
<1>2. /\ \A v \in Volume : stage[v] = "creating"
      /\ \A p \in Pod : stage[p] = "starting" /\ VolumeOf[p] \in Volume
      /\ \A h \in Call : calls[h] = Idle /\ calls[h].op = "none"
      /\ mounts = {} /\ wrote = {}
  BY NasAssumption, Records DEF Init, Client
<1>3. OrderInv
  BY <1>2 DEF OrderInv, LateDelete, LateUnpublish, PodsFirst, DeleteMountLate, Deleting
<1>4. RunInv /\ StopInv
  BY <1>2 DEF RunInv, MountedHasDir, RunningSeesVolume, StopInv, NoLatePublish,
              StoppedIsUnmounted, Unpublishing, Free
<1>5. BoundInv /\ GoneInv
  BY <1>2 DEF BoundInv, MkdirOnShare, BoundHasDir, GoneInv, DropOnShare, DeletedIsGone
<1>6. EveryMountIsUsed /\ ArchiveKeepsData
  BY <1>2 DEF EveryMountIsUsed, ArchiveKeepsData
<1> QED BY <1>1, <1>3, <1>4, <1>5, <1>6 DEF NasInv

LEMMA NasNext == NasInv /\ [Next]_vars => NasInv'
BY TypeNext, OrderNext, RunNext, StopNext, BoundNext, GoneNext, UsedNext, ArchiveNext
   DEF NasInv

LEMMA NasInvariant == Spec => []NasInv
BY NasInit, NasNext, PTL DEF Spec

(* A volume the provisioner has heard OK for has its directory on the      *)
(* share, as long as no mkdir has failed (controllerserver.go:99-118): a   *)
(* call that finds the share unmounted has been overtaken by one that had  *)
(* made the directory.                                                     *)
THEOREM BoundStaysMade == Spec => []BoundHasDir
<1>1. NasInv => BoundHasDir
  BY DEF NasInv, BoundInv, BoundHasDir
<1> QED BY <1>1, NasInvariant, PTL

(* Once DeleteVolume is answered OK the data is not in the volume's        *)
(* directory, as long as neither rename nor removal has failed             *)
(* (controllerserver.go:204-232).                                          *)
THEOREM DeletedStaysGone == Spec => []DeletedIsGone
<1>1. NasInv => DeletedIsGone
  BY DEF NasInv, GoneInv, DeletedIsGone
<1> QED BY <1>1, NasInvariant, PTL

(* What a pod wrote is in the directory or in the archive unless the class *)
(* asks for its deletion, whatever fails (controllerserver.go:210-231).    *)
THEOREM DataIsKept == Spec => []ArchiveKeepsData
<1>1. NasInv => ArchiveKeepsData
  BY DEF NasInv
<1> QED BY <1>1, NasInvariant, PTL

(* Overlapping calls leave no scratch mount behind unless an unmount has   *)
(* failed: every mount has a running handler that is going to unmount it   *)
(* (controllerserver.go:107, 114, 202).                                    *)
THEOREM IdleIsUnmounted == Spec => []NothingLeftMounted
<1>1. NasInv => NothingLeftMounted
  <2> SUFFICES ASSUME NasInv, \A h \in Call : calls[h] = Idle, "unmount" \notin failed,
                      NEW m \in mounts, m[1] \in {"create", "delete"}
               PROVE  FALSE
    BY DEF NothingLeftMounted
  <2>1. m \in Point
    BY DEF NasInv, TypeInv, TypeOK
  <2>2. PICK v \in Volume : m = <<m[1], v>>
    BY <2>1 DEF Point
  <2>3. \E h \in Call : Unmounter(h, m[1], v)
    BY <2>2 DEF NasInv, EveryMountIsUsed
  <2> QED BY <2>3, Records DEF Unmounter
<1> QED BY <1>1, NasInvariant, PTL

(* A pod that was told its volume is published has it mounted, and the     *)
(* directory is there (nodeserver.go:70-114, utils.go:86, 104).            *)
THEOREM RunningStaysMounted == Spec => []RunningSeesVolume
<1>1. NasInv => RunningSeesVolume
  BY DEF NasInv, RunInv
<1> QED BY <1>1, NasInvariant, PTL

(* After an OK of NodeUnpublishVolume nothing is mounted for the pod       *)
(* unless the unpublish has overtaken a publish (nodeserver.go:130-139).   *)
THEOREM StoppedStaysUnmounted == Spec => []StoppedIsUnmounted
<1>1. NasInv => StoppedIsUnmounted
  BY DEF NasInv, StopInv
<1> QED BY <1>1, NasInvariant, PTL

-----------------------------------------------------------------------------
(* What a step may never do. *)

(* A volume's directory disappears only when its claim was given back and  *)
(* all its pods are stopped, its data only into the archive or because the *)
(* class asks for that, and nothing archived is lost again, whichever      *)
(* calls overlap or are left over (controllerserver.go:99-118, 204-232).   *)
DataGoesLast ==
  \A v \in Volume :
    /\ dir[v] # "none" /\ dir'[v] = "none"
         => Deleting(v) /\ \A p \in Pod : VolumeOf[p] = v => stage[p] = "stopped"
    /\ dir[v] = "data" /\ dir'[v] # "data"
         => policy[v] = "delete" \/ "data" \in archive'[v]
    /\ archive[v] \subseteq archive'[v]

THEOREM NoDataTakenEarly == Spec => [][DataGoesLast]_vars
<1>1. ASSUME TypeInv, OrderInv, [Next]_vars PROVE DataGoesLast
  <2>1. CASE SomeStep
    <3>1. PICK h \in Call : Step(h)
      BY <2>1 DEF SomeStep
    <3>2. calls[h] # Idle /\ Effect(h)
      BY <1>1, <3>1, StepEffect
    <3>3. ASSUME NEW v \in Volume, dir[v] # "none", dir'[v] = "none"
          PROVE  Deleting(v) /\ \A p \in Pod : VolumeOf[p] = v => stage[p] = "stopped"
      <4>1. Deleting(v)
        BY <1>1, <3>2, <3>3, StepDirStays
      <4> QED BY <1>1, <4>1 DEF OrderInv, PodsFirst
    <3>4. \A v \in Volume :
            /\ archive[v] \subseteq archive'[v]
            /\ dir[v] = "data" =>
                 dir'[v] = "data" \/ "data" \in archive'[v] \/ policy[v] = "delete"
      BY <1>1, <3>1, ArchiveStep
    <3> QED BY <3>3, <3>4 DEF DataGoesLast
  <2>2. ASSUME NEW p \in Pod, Write(p) PROVE DataGoesLast
    <3>1. UNCHANGED archive /\ \A v \in Volume : dir'[v] = dir[v] \/ dir'[v] = "data"
      BY <1>1, <2>2 DEF Write, TypeInv, TypeOK
    <3> QED BY <3>1 DEF DataGoesLast
  <2>3. CASE SomeStart \/ SomeRestart \/ (SomeUse /\ ~(\E p \in Pod : Write(p)))
             \/ SomeoneGivesUp \/ UNCHANGED vars
    <3>1. UNCHANGED <<dir, archive>>
      BY <2>3 DEF SomeStart, Starts, SomeRestart, Dies, SomeUse, Release, DeletePod,
                  SomeoneGivesUp, GiveUp, vars, share
    <3> QED BY <3>1 DEF DataGoesLast
  <2> QED BY <1>1, <2>1, <2>2, <2>3, NextEffect
<1>2. TypeInv /\ OrderInv /\ [Next]_vars => DataGoesLast
  BY <1>1
<1>3. NasInv => TypeInv /\ OrderInv
  BY DEF NasInv
<1> QED BY <1>2, <1>3, NasInvariant, PTL DEF Spec
=============================================================================
