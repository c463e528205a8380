--------------------------- MODULE LifecycleProofs ---------------------------
(***************************************************************************)
(* The controller implements Lifecycle, for every value of its constants.  *)
(***************************************************************************)
EXTENDS FinalizerProofs

USE DEF Resource

-----------------------------------------------------------------------------
(* The inductive invariant *)

\* The uids of resources are counted; a child belongs to one that was created,
\* and none to a resource whose finalizer is not stored yet.
OwnerInv ==
  /\ \A k \in ChildKinds : Live(k) # Absent => Live(k).owner <= used["create"]
  /\ Resource # Absent =>
       /\ 0 < Resource.uid /\ Resource.uid <= used["create"]
       /\ Resource.deleting => Resource.finalizer
       /\ ~Resource.finalizer =>
            \A k \in ChildKinds : Live(k) # Absent => Live(k).owner # Resource.uid

-----------------------------------------------------------------------------
(* What a step does to the stored objects *)

Only(k) == \A j \in Kinds \ {k} : Live(j)' = Live(j)

Untouched == \A k \in Kinds : Live(k)' = Live(k)

ChildStep(k) ==
  /\ Only(k)
  /\ \/ Live(k)' = Absent
     \/ Live(k) # Absent /\ Live(k)' # Absent /\ Live(k)'.owner = Live(k).owner
     \/ /\ Live(k) = Absent /\ Live(k)' # Absent /\ Live(k)'.owner = 0
        /\ k \in Optional \cap Preexisting /\ used'["foreign"] # 0
     \/ /\ Live(k) = Absent /\ Live(k)' # Absent
        /\ Held(Resource) /\ Live(k)'.owner = Resource.uid

VolumeStep ==
  /\ Only("MySQLPVC")
  /\ \/ Claim' = Claim
     \/ Claim = "none" /\ Claim' = "kept"
     \/ Claim = "going" /\ Claim' = "none"
     \/ Claim = "kept" /\ Claim' = "going" /\ Stage # "held" /\ ~Promise

StoredStep ==
  \/ Untouched
  \/ Only("WordPress") \/ Only("UserSecret")
  \/ \E k \in ChildKinds : ChildStep(k)
  \/ VolumeStep

\* A write stores one version of one object.
LEMMA PutLive ==
  ASSUME TypeOK, NEW k \in Kinds, NEW v, Put(k, v)
  PROVE  Live(k)' = v /\ Only(k)
  <1>1. obj[k] \in Seq(Objects) /\ obj \in [Kinds -> Seq(Objects)]
    BY DEF TypeOK, ClusterTypeOK
  <1>2. CASE v = Live(k)
    BY <1>2 DEF Put, Live, Only
  <1>3. CASE v # Live(k)
    <2>1. obj' = [obj EXCEPT ![k] = Append(obj[k], v)]
      BY <1>3 DEF Put
    <2>2. obj'[k] = Append(obj[k], v) /\ \A j \in Kinds \ {k} : obj'[j] = obj[j]
      BY <1>1, <2>1
    <2>3. Append(obj[k], v)[Len(Append(obj[k], v))] = v
      <3>1. Len(obj[k]) \in Nat
        BY <1>1
      <3>2. Len(Append(obj[k], v)) = Len(obj[k]) + 1
        BY <1>1
      <3> QED
        BY <1>1, <3>1, <3>2
    <2> QED
      BY <2>2, <2>3 DEF Live, Only
  <1> QED
    BY <1>2, <1>3

\* Events and restarts store nothing.
LEMMA NothingStored ==
  ASSUME TypeOK, UNCHANGED obj \/ Restart \/ \E k \in Kinds : Deliver(k)
  PROVE  Untouched
  <1>1. CASE UNCHANGED obj
    BY <1>1 DEF Untouched, Live
  <1>2. CASE Restart
    <2>1. \A k \in Kinds : obj'[k] = <<Live(k)>>
      BY <1>2 DEF Restart
    <2> QED
      BY <2>1 DEF Untouched, Live
  <1>3. CASE \E j \in Kinds : Deliver(j)
    <2>1. PICK j \in Kinds : Deliver(j)
      BY <1>3
    <2>2. obj \in [Kinds -> Seq(Objects)] /\ obj[j] \in Seq(Objects) /\ obj[j] # <<>>
      BY DEF TypeOK, ClusterTypeOK
    <2> DEFINE s == obj[j]
    <2>3. Len(s) \in Nat /\ Len(s) # 0 /\ Len(s) # 1
      BY <2>1, <2>2 DEF Deliver, InSync
    <2>4. /\ Len(Tail(s)) = Len(s) - 1
          /\ \A i \in 1..Len(Tail(s)) : Tail(s)[i] = s[i + 1]
      BY <2>2
    <2>5. \A n \in Nat : n # 0 /\ n # 1 => n - 1 \in 1..(n - 1) /\ (n - 1) + 1 = n
      OBVIOUS
    <2>6. Tail(s)[Len(Tail(s))] = s[Len(s)]
      BY <2>3, <2>4, <2>5
    <2>7. obj'[j] = Tail(s) /\ \A k \in Kinds \ {j} : obj'[k] = obj[k]
      BY <2>1, <2>2 DEF Deliver
    <2> QED
      BY <2>6, <2>7 DEF Untouched, Live
  <1> QED
    BY <1>1, <1>2, <1>3

\* Users and other controllers only remove children or change their content;
\* the claim comes, and goes when it has been given up.
LEMMA EnvironmentStored ==
  ASSUME TypeOK, Environment
  PROVE  StoredStep
  <1> USE ClusterAssumption
  <1>0. ClusterTypeOK /\ {"WordPress", "UserSecret", "MySQLPVC"} \subseteq Kinds
    BY DEF TypeOK, Kinds
  <1>1. CASE CreateWordPress \/ EditSpec \/ Annotate \/ DeleteWordPress
    <2>1. \E v : Put("WordPress", v)
      BY <1>1 DEF CreateWordPress, EditSpec, Annotate, DeleteWordPress, PutWordPress
    <2> QED
      BY <1>0, <2>1, PutLive DEF StoredStep
  <1>2. CASE ToggleUserSecret
    BY <1>0, <1>2, PutLive DEF ToggleUserSecret, StoredStep
  <1>3. CASE ProvisionVolume \/ InitialiseVolume \/ ReleaseVolume
    <2>1. CASE ProvisionVolume
      <3>1. Live("MySQLPVC") = Absent /\ Put("MySQLPVC", EmptyVolume)
        BY <2>1 DEF ProvisionVolume
      <3>2. Live("MySQLPVC")' = EmptyVolume /\ Only("MySQLPVC")
        BY <1>0, <3>1, PutLive
      <3>3. EmptyVolume # Absent /\ ~EmptyVolume.terminating
        BY ObjectUpdates DEF EmptyVolume
      <3> QED
        BY <3>1, <3>2, <3>3 DEF StoredStep, VolumeStep, Claim
    <2>2. CASE InitialiseVolume
      <3> DEFINE new == [Live("MySQLPVC") EXCEPT !.data = Live("Secret").password]
      <3>1. /\ Live("MySQLPVC") \in Volumes /\ ~Live("MySQLPVC").terminating
            /\ Live("Secret") \in Children
            /\ Put("MySQLPVC", new)
        BY <1>0, <2>2, ResourceVersions DEF InitialiseVolume, ChildKinds, DatabaseKinds
      <3>2. new \in Volumes /\ ~new.terminating
        BY <3>1, ObjectUpdates DEF Volumes, Children
      <3>3. Live("MySQLPVC")' = new /\ Only("MySQLPVC")
        BY <1>0, <3>1, PutLive
      <3> QED
        BY <3>1, <3>2, <3>3 DEF StoredStep, VolumeStep, Claim
    <2>3. CASE ReleaseVolume
      <3>1. Live("MySQLPVC")' = Absent /\ Only("MySQLPVC")
        BY <1>0, <2>3, PutLive DEF ReleaseVolume
      <3> QED
        BY <2>3, <3>1 DEF StoredStep, VolumeStep, Claim, ReleaseVolume
    <2> QED
      BY <1>3, <2>1, <2>2, <2>3
  <1>4. CASE \E k \in ChildKinds : Drift(k) \/ CreateForeign(k) \/ CollectGarbage(k)
    <2>1. PICK k \in ChildKinds : Drift(k) \/ CreateForeign(k) \/ CollectGarbage(k)
      BY <1>4
    <2>2. k \in Kinds /\ Live(k) \in {Absent} \cup Children
      BY <1>0, ResourceVersions DEF Kinds
    <2>3. CASE Drift(k)
      <3>1. PICK v \in {Absent, Changed(Live(k), Alien)} : Put(k, v)
        BY <2>3 DEF Drift
      <3>2. Live(k) \in Children
        BY <2>2, <2>3 DEF Drift
      <3>3. Changed(Live(k), Alien) \in Children
        BY <3>2, ObjectUpdates
      <3>4. Changed(Live(k), Alien).owner = Live(k).owner
        BY <3>2 DEF Changed, Children
      <3>5. Live(k)' = v /\ Only(k)
        BY <2>2, <3>1, PutLive
      <3>6. CASE v = Absent
        BY <2>2, <3>5, <3>6 DEF StoredStep, ChildStep
      <3>7. CASE v = Changed(Live(k), Alien)
        BY <2>2, <3>2, <3>3, <3>4, <3>5, <3>7 DEF StoredStep, ChildStep
      <3> QED
        BY <3>1, <3>6, <3>7
    <2>4. CASE CreateForeign(k)
      <3>1. Live(k)' = NotOwned /\ Only(k) /\ Live(k) = Absent
        BY <2>2, <2>4, PutLive DEF CreateForeign
      <3>2. NotOwned # Absent /\ NotOwned.owner = 0
        BY NotOwnedType DEF NotOwned
      <3>3. k \in Optional \cap Preexisting /\ used'["foreign"] # 0
        <4>1. used \in [Disturbances -> Nat] /\ used["foreign"] \in Nat
          BY <1>0 DEF ClusterTypeOK, Disturbances
        <4>2. used' = [used EXCEPT !["foreign"] = used["foreign"] + 1]
          BY <2>4 DEF CreateForeign, Spend
        <4>3. used'["foreign"] = used["foreign"] + 1
          BY <4>1, <4>2 DEF Disturbances
        <4> QED
          BY <2>4, <4>1, <4>3 DEF CreateForeign
      <3> QED
        BY <2>2, <3>1, <3>2, <3>3 DEF StoredStep, ChildStep
    <2>5. CASE CollectGarbage(k)
      <3>1. Live(k)' = Absent /\ Only(k)
        BY <2>2, <2>5, PutLive DEF CollectGarbage
      <3> QED
        BY <2>2, <3>1 DEF StoredStep, ChildStep
    <2> QED
      BY <2>1, <2>3, <2>4, <2>5
  <1>5. CASE \E k \in Workloads : BecomeReady(k) \/ RollOut(k) \/ BecomeUnready(k)
    <2>1. PICK k \in Workloads : BecomeReady(k) \/ RollOut(k) \/ BecomeUnready(k)
      BY <1>5
    <2>2. k \in Kinds /\ k \in ChildKinds /\ Live(k) \in {Absent} \cup Children
      BY <1>0, ResourceVersions DEF Workloads, Kinds, ChildKinds, DatabaseKinds, SiteKinds
    <2>3. PICK y \in {"ready", "unready"} :
            Live(k) # Absent /\ Put(k, [Live(k) EXCEPT !.pods = y])
      BY <2>1 DEF BecomeReady, RollOut, BecomeUnready
    <2>4. [Live(k) EXCEPT !.pods = y] \in Children
      BY <2>2, <2>3, ObjectUpdates
    <2>5. [Live(k) EXCEPT !.pods = y].owner = Live(k).owner
      BY <2>2, <2>3 DEF Children
    <2>6. Live(k)' = [Live(k) EXCEPT !.pods = y] /\ Only(k)
      BY <2>2, <2>3, PutLive
    <2> QED
      BY <2>2, <2>3, <2>4, <2>5, <2>6 DEF StoredStep, ChildStep
  <1>6. CASE Autoscale
    <2> DEFINE d == Live("Deployment")
               new(n) == Changed(d, [d.content EXCEPT !.replicas = n])
    <2>1. "Deployment" \in Kinds /\ "Deployment" \in ChildKinds /\ d \in Children
      BY <1>0, <1>6, ResourceVersions DEF Autoscale, Kinds, ChildKinds, SiteKinds
    <2>2. PICK n \in Scales : Put("Deployment", new(n))
      BY <1>6 DEF Autoscale
    <2>3. [d.content EXCEPT !.replicas = n] \in Contents
      BY <1>6, <2>1 DEF Autoscale, Children, Contents
    <2>4. new(n) \in Children
      BY <2>1, <2>3, ObjectUpdates
    <2>5. new(n).owner = d.owner
      BY <2>1 DEF Changed, Children
    <2>6. Live("Deployment")' = new(n) /\ Only("Deployment")
      BY <2>1, <2>2, PutLive
    <2> QED
      BY <2>1, <2>4, <2>5, <2>6 DEF StoredStep, ChildStep
  <1> QED
    BY <1>1, <1>2, <1>3, <1>4, <1>5, <1>6 DEF Environment

\* The worker makes children for the resource it holds by the finalizer, and
\* gives data up only under a resource whose deletion, and no retain annotation,
\* it has seen.
LEMMA WorkerStored ==
  ASSUME TypeOK, FinalizerInv, Worker
  PROVE  StoredStep
  <1> USE ClusterAssumption
  <1>0. ClusterTypeOK /\ {"WordPress", "MySQLPVC"} \subseteq Kinds
    BY DEF TypeOK, Kinds
  <1>1. CASE \/ ReconcileFinished \/ RejectSpec \/ AcceptSpec
             \/ CheckUserSecret \/ UpdateStatus
    <2>1. UNCHANGED obj
      BY <1>1 DEF ReconcileFinished, RejectSpec, AcceptSpec, CheckUserSecret, UpdateStatus,
         clusterVars
    <2> QED
      BY <2>1, NothingStored DEF StoredStep
  <1>2. CASE RemoveFinalizer \/ AddFinalizer \/ PersistStatus
    <2>1. UNCHANGED obj \/ \E v : Put("WordPress", v)
      <3>1. CASE RemoveFinalizer
        BY <3>1 DEF RemoveFinalizer, PutWordPress
      <3>2. CASE AddFinalizer
        BY <3>2 DEF AddFinalizer, PutWordPress
      <3>3. CASE PersistStatus
        BY <3>3 DEF PersistStatus, PutWordPress
      <3> QED
        BY <1>2, <3>1, <3>2, <3>3
    <2> QED
      BY <1>0, <2>1, NothingStored, PutLive DEF StoredStep
  <1>3. CASE HandleDeletion
    <2> DEFINE cr  == Cached("WordPress")
               pvc == Live("MySQLPVC")
               new == [pvc EXCEPT !.terminating = TRUE]
    <2>1. cr # Absent /\ cr.deleting /\ cr \in Seen
      BY <1>3, SeenEnds DEF HandleDeletion, Finished
    <2>2. UNCHANGED obj \/ (~cr.retain /\ pvc # Absent /\ Put("MySQLPVC", new))
      <3>1. CASE DeletesVolume(cr)
        <4>1. PICK r \in Outcomes(DeleteResult("MySQLPVC")) :
                IF Effective(r, DeleteResult("MySQLPVC"))
                THEN Put("MySQLPVC", new) ELSE UNCHANGED obj
          BY <1>3, <3>1 DEF HandleDeletion
        <4>2. Effective(r, DeleteResult("MySQLPVC")) => pvc # Absent
          BY <4>1 DEF Effective, Outcomes, DeleteResult
        <4> QED
          BY <3>1, <4>1, <4>2 DEF DeletesVolume
      <3>2. CASE ~DeletesVolume(cr)
        BY <1>3, <3>2 DEF HandleDeletion
      <3> QED
        BY <3>1, <3>2
    <2>3. CASE UNCHANGED obj
      BY <2>3, NothingStored DEF StoredStep
    <2>4. CASE ~cr.retain /\ pvc # Absent /\ Put("MySQLPVC", new)
      <3>1. pvc \in Volumes
        BY <1>0, <2>4, ResourceVersions
      <3>2. new \in Volumes /\ new.terminating
        BY <3>1, ObjectUpdates DEF Volumes
      <3>3. Live("MySQLPVC")' = new /\ Only("MySQLPVC")
        BY <1>0, <2>4, PutLive
      <3>4. Stage # "held" /\ ~Promise
        BY <2>1, <2>4 DEF FinalizerInv, PledgeInv, Stage, Promise
      <3> QED
        BY <2>4, <3>2, <3>3, <3>4 DEF StoredStep, VolumeStep, Claim
    <2> QED
      BY <2>2, <2>3, <2>4
  <1>4. CASE \E k \in ChildKinds : ApplyChild(k)
    <2>1. PICK k \in ChildKinds : ApplyChild(k)
      BY <1>4
    <2>2. PICK r \in IF Call(k) = "none" THEN {"ok"} ELSE Outcomes(Result(k)) :
            IF Effective(r, Result(k))
            THEN \E p \in Generated : Put(k, Written(k, p))
            ELSE UNCHANGED obj
      BY <2>1 DEF ApplyChild
    <2>3. CASE UNCHANGED obj
      BY <2>3, NothingStored DEF StoredStep
    <2>4. ASSUME Effective(r, Result(k)), NEW p \in Generated, Put(k, Written(k, p))
          PROVE  StoredStep
      <3> SUFFICES ChildStep(k)
        BY DEF StoredStep
      <3>1. k \in Kinds /\ Live(k) \in {Absent} \cup Children
        BY <1>0, ResourceVersions DEF Kinds
      <3>2. Live(k)' = Written(k, p) /\ Only(k)
        BY <2>4, <3>1, PutLive
      <3>3. pc = "children" /\ wp \in Resources
        BY <2>1 DEF ApplyChild, TypeOK
      <3>4. Held(Resource) /\ Resource.uid = wp.uid
        BY <3>3 DEF FinalizerInv, FinalizerHeld, Held
      <3>5. /\ Render(k, wp.spec) \in Contents /\ wp.uid \in Nat
            /\ ClaimTemplates(k, wp.spec) \in SUBSET Sizes /\ Password(k, p) \in Nat
        BY <3>3, SpecOperators DEF Resources, Generated, Password
      <3>6. CASE Call(k) = "create"
        <4>1. Live(k) = Absent
          BY <2>2, <2>4, <3>6 DEF Effective, Result, CreateResult, Outcomes
        <4>2. Written(k, p) = [owner |-> wp.uid, content |-> Render(k, wp.spec),
                               claims |-> ClaimTemplates(k, wp.spec),
                               pods |-> "unready", password |-> Password(k, p)]
          BY <3>6 DEF Written
        <4>3. Written(k, p) \in Children
          BY <3>5, <4>2 DEF Children
        <4> QED
          BY <3>2, <3>4, <4>1, <4>2, <4>3 DEF ChildStep
      <3>7. CASE Call(k) = "update"
        <4> DEFINE c == Changed(Live(k), Render(k, wp.spec))
        <4>1. Live(k) # Absent
          BY <2>2, <2>4, <3>7 DEF Effective, Result, UpdateResult, Outcomes
        <4>2. c \in Children /\ c.owner = Live(k).owner
          BY <3>1, <3>5, <4>1, ObjectUpdates DEF Changed, Children
        <4>3. Written(k, p) = [c EXCEPT !.password = Password(k, p)]
          BY <3>7 DEF Written
        <4>4. Written(k, p) \in Children
          BY <3>5, <4>2, <4>3, ObjectUpdates
        <4>5. Written(k, p).owner = Live(k).owner
          BY <4>2, <4>3 DEF Children
        <4> QED
          BY <3>2, <4>1, <4>4, <4>5 DEF ChildStep
      <3>8. CASE Call(k) = "delete"
        BY <3>2, <3>8 DEF ChildStep, Written
      <3>9. CASE Call(k) \notin {"create", "update", "delete"}
        <4>1. Live(k)' = Live(k)
          BY <3>2, <3>9 DEF Written
        <4> QED
          BY <3>1, <3>2, <4>1 DEF ChildStep
      <3> QED
        BY <3>6, <3>7, <3>8, <3>9
    <2> QED
      BY <2>2, <2>3, <2>4
  <1> QED
    BY <1>1, <1>2, <1>3, <1>4 DEF Worker

\* So every step of the system does one of those things to what is stored.
LEMMA NextStoredStep ==
  ASSUME TypeOK, FinalizerInv, [Next]_vars
  PROVE  StoredStep
  <1>1. CASE \/ TimerFires \/ UNCHANGED vars
             \/ Restart \/ \E k \in Kinds : Deliver(k)
    <2>1. Untouched
      BY <1>1, NothingStored DEF TimerFires, vars, clusterVars
    <2> QED
      BY <2>1 DEF StoredStep
  <1> QED
    BY <1>1, WorkerStored, EnvironmentStored DEF Next

\* Incarnations are only counted up.
LEMMA CreationsCounted ==
  ASSUME TypeOK, [Next]_vars
  PROVE  used["create"] \in Nat /\ used'["create"] \in Nat /\ used["create"] <= used'["create"]
  <1> DEFINE Counts == used["create"] <= used'["create"]
  <1>0. used \in [Disturbances -> Nat] /\ used' \in [Disturbances -> Nat]
    BY TypeInductive DEF TypeOK, ClusterTypeOK
  <1>1. used["create"] \in Nat /\ used'["create"] \in Nat
    BY <1>0 DEF Disturbances
  <1>2. \A d : Spend(d) => Counts
    <2> SUFFICES ASSUME NEW d, Spend(d) PROVE Counts
      OBVIOUS
    <2>1. used' = [used EXCEPT ![d] = used[d] + 1]
      BY DEF Spend
    <2> QED
      BY <1>0, <1>1, <2>1
  <1>3. UNCHANGED used => Counts
    BY <1>1
  <1>4. \A r : Charge(r) => Counts
    BY <1>2, <1>3 DEF Charge
  <1> HIDE DEF Counts
  <1>5. ASSUME Environment PROVE Counts
    <2>1. UNCHANGED used \/ \E d : Spend(d)
      BY Zenon, <1>5 DEF Environment, CreateWordPress, EditSpec, Annotate, DeleteWordPress,
         ToggleUserSecret, Autoscale, ProvisionVolume, InitialiseVolume, ReleaseVolume, Drift,
         CreateForeign, CollectGarbage, BecomeReady, RollOut, BecomeUnready
    <2> QED
      BY <1>2, <1>3, <2>1
  <1>6. ASSUME Worker PROVE Counts
    <2>1. UNCHANGED used \/ (\E r : Charge(r)) \/ (\E d : Spend(d))
      <3>1. CASE \/ ReconcileFinished \/ RejectSpec \/ AcceptSpec
                 \/ CheckUserSecret \/ UpdateStatus
        BY <3>1 DEF ReconcileFinished, RejectSpec, AcceptSpec, CheckUserSecret, UpdateStatus,
           clusterVars
      <3>2. CASE HandleDeletion
        BY <3>2 DEF HandleDeletion
      <3>3. CASE RemoveFinalizer
        BY <3>3 DEF RemoveFinalizer
      <3>4. CASE AddFinalizer
        BY <3>4 DEF AddFinalizer
      <3>5. CASE \E k \in ChildKinds : ApplyChild(k)
        BY <3>5 DEF ApplyChild
      <3>6. CASE PersistStatus
        BY <3>6 DEF PersistStatus
      <3> QED
        BY <1>6, <3>1, <3>2, <3>3, <3>4, <3>5, <3>6 DEF Worker
    <2> QED
      BY <1>2, <1>3, <1>4, <2>1
  <1>7. ASSUME TimerFires \/ Restart \/ (\E k \in Kinds : Deliver(k)) \/ UNCHANGED vars
        PROVE  Counts
    BY <1>2, <1>3, <1>7 DEF TimerFires, Restart, Deliver, vars, clusterVars
  <1>8. Counts
    BY <1>5, <1>6, <1>7 DEF Next
  <1> QED
    BY <1>1, <1>8 DEF Counts

-----------------------------------------------------------------------------
(* The refinement *)

\* The resource, when it changes, changes alone.
LEMMA Apart ==
  /\ "WordPress" \in Kinds /\ "MySQLPVC" \in Kinds /\ ChildKinds \subseteq Kinds
  /\ "WordPress" \notin ChildKinds /\ "MySQLPVC" \notin ChildKinds
  /\ "UserSecret" \notin ChildKinds
  BY DEF Kinds, ChildKinds, DatabaseKinds, SiteKinds

\* The step of the resource that a step of the system takes, with the children
\* as they were.
LEMMA OwnerInvResource ==
  ASSUME TypeOK, TypeOK', FinalizerInv, OwnerInv, ResourceStep,
         \A k \in ChildKinds : Live(k)' = Live(k),
         used["create"] \in Nat, used'["create"] \in Nat,
         used["create"] <= used'["create"]
  PROVE  OwnerInv'
  <1> USE ClusterAssumption DEF Held
  <1>0. \A k \in ChildKinds : Live(k) # Absent => Live(k).owner \in Nat
    BY ResourceVersions DEF TypeOK, Children
  <1>1. \A k \in ChildKinds : Live(k)' # Absent => Live(k)'.owner <= used'["create"]
    BY <1>0 DEF OwnerInv
  <1>2. Resource # Absent => Resource.uid \in Nat
    BY ResourceVersions DEF TypeOK, Resources
  <1>3. CASE Same
    BY <1>0, <1>1, <1>2, <1>3 DEF Same, OwnerInv
  <1>4. ASSUME NEW v \in Resources, Resource' = v, Resource # Absent, v.uid = Resource.uid,
               v.deleting => v.finalizer, Resource.finalizer => v.finalizer
        PROVE  OwnerInv'
    BY <1>0, <1>1, <1>2, <1>4 DEF OwnerInv
  <1>5. CASE Resource' = Absent
    BY <1>1, <1>5 DEF OwnerInv
  <1>6. ASSUME NEW v \in Resources, Resource' = v, ~v.deleting, v.uid = used'["create"],
               used'["create"] = used["create"] + 1
        PROVE  OwnerInv'
    <2>1. \A k \in ChildKinds : Live(k)' # Absent => Live(k)'.owner # used'["create"]
      BY <1>0, <1>6 DEF OwnerInv
    <2>2. 0 < used'["create"]
      BY <1>6
    <2> QED
      BY <1>1, <1>6, <2>1, <2>2 DEF OwnerInv
  <1> QED
    BY <1>3, <1>4, <1>5, <1>6 DEF ResourceStep, Writes, Unmarked, Marked, OwnerInv

\* The invariant holds at first and every step keeps it.
LEMMA OwnerInductive ==
  /\ Init => OwnerInv
  /\ TypeOK /\ FinalizerInv /\ OwnerInv /\ [Next]_vars => OwnerInv'
<1>1. Init => OwnerInv
  <2> SUFFICES ASSUME Init PROVE OwnerInv
    OBVIOUS
  <2>1. obj["WordPress"] = <<Absent>>
    BY NothingAtFirst
  <2>2. \A k \in ChildKinds : obj[k] = <<NotOwned>> \/ obj[k] = <<Absent>>
    BY Apart DEF Init, ClusterInit
  <2>3. \A k \in ChildKinds : Live(k) # Absent => Live(k).owner = 0
    BY <2>2 DEF Live, NotOwned
  <2>4. Resource = Absent
    BY <2>1 DEF Live
  <2>5. used["create"] = 0
    BY DEF Init, ClusterInit, Disturbances
  <2> QED
    BY <2>3, <2>4, <2>5 DEF OwnerInv
<1>2. ASSUME TypeOK, FinalizerInv, OwnerInv, [Next]_vars
      PROVE  OwnerInv'
  <2>1. TypeOK' /\ ResourceStep /\ StoredStep
    BY <1>2, TypeInductive, NextResourceStep, NextStoredStep
  <2>2. /\ used["create"] \in Nat /\ used'["create"] \in Nat
        /\ used["create"] <= used'["create"]
    BY <1>2, CreationsCounted
  <2>3. CASE \A k \in ChildKinds : Live(k)' = Live(k)
    BY <1>2, <2>1, <2>2, <2>3, OwnerInvResource
  <2>4. ASSUME NEW k \in ChildKinds, ChildStep(k)
        PROVE  OwnerInv'
    <3>1. Resource' = Resource /\ \A j \in ChildKinds \ {k} : Live(j)' = Live(j)
      BY <2>4, Apart DEF ChildStep, Only
    <3>2. \A j \in ChildKinds : Live(j) # Absent => Live(j).owner \in Nat
      BY <1>2, ResourceVersions, ClusterAssumption DEF TypeOK, Children
    <3>3. Resource # Absent => Resource.uid \in Nat
      BY <1>2, ResourceVersions, ClusterAssumption DEF TypeOK, Resources
    <3>4. Live(k)' # Absent =>
            /\ Live(k)'.owner <= used'["create"]
            /\ Resource # Absent /\ ~Resource.finalizer => Live(k)'.owner # Resource.uid
      BY <1>2, <2>2, <2>4, <3>2, <3>3 DEF ChildStep, OwnerInv, Held
    <3>5. \A j \in ChildKinds \ {k} : Live(j)' # Absent => Live(j)'.owner <= used'["create"]
      BY <1>2, <2>2, <3>1, <3>2 DEF OwnerInv
    <3>6. Resource # Absent => Resource.uid <= used'["create"]
      BY <1>2, <2>2, <3>3 DEF OwnerInv
    <3> QED
      BY <1>2, <3>1, <3>4, <3>5, <3>6 DEF OwnerInv
  <2>5. Only("WordPress") \/ Only("UserSecret") \/ Only("MySQLPVC") \/ Untouched
          => \A k \in ChildKinds : Live(k)' = Live(k)
    BY Apart DEF Only, Untouched
  <2> QED
    BY <2>1, <2>3, <2>4, <2>5 DEF StoredStep, VolumeStep
<1> QED
  BY <1>1, <1>2

Site == {k \in ChildKinds : Owned(k)}

\* The abstract variables after a step of the resource alone.
LEMMA ResourceImplements ==
  ASSUME TypeOK, TypeOK', FinalizerInv, OwnerInv, ResourceStep, Only("WordPress")
  PROVE  [Life!Next]_(Life!vars)
  <1> USE ClusterAssumption DEF Held
  <1>0. /\ Claim' = Claim
        /\ \A k \in ChildKinds : Live(k)' = Live(k)
    BY Apart DEF Only, Claim
  <1>a. Resource \in {Absent} \cup Resources
    BY ResourceVersions DEF TypeOK
  <1>b. Resource' \in {Absent} \cup Resources
    BY <1>a DEF ResourceStep, Same, Writes
  <1>1. /\ Resource # Absent => Resource.uid \in Nat /\ Resource.pledge \in BOOLEAN
        /\ Resource' # Absent => Resource'.pledge \in BOOLEAN
    BY <1>a, <1>b DEF Resources
  <1>2. Promise \in BOOLEAN /\ Promise' \in BOOLEAN
    BY <1>1 DEF Promise
  <1>3. ASSUME Resource # Absent, Resource' # Absent, Resource'.uid = Resource.uid
        PROVE  Site' = Site
    BY <1>0, <1>3 DEF Site, Owned
  <1>4. /\ Resource = Absent => Site = {}
        /\ Resource # Absent /\ ~Resource.finalizer => Site = {}
        /\ Resource' = Absent => Site' = {}
    BY DEF Site, Owned, OwnerInv
  <1>5. CASE Same
    <2>1. Stage' = Stage /\ Promise' = Promise /\ Site' = Site
      BY <1>0, <1>5 DEF Same, Stage, Promise, Site, Owned
    <2> QED
      BY <1>0, <2>1 DEF Life!vars, Site
  <1>6. ASSUME NEW v \in Resources, Resource' = v, Resource # Absent, Unmarked(v)
        PROVE  [Life!Next]_(Life!vars)
    <2>1. Stage' = Stage /\ Site' = Site
      BY <1>3, <1>6 DEF Stage, Unmarked
    <2>2. Promise' = Promise \/ (Promise /\ Promise' = FALSE)
      BY <1>1, <1>6 DEF Promise, Unmarked
    <2> QED
      BY <1>0, <2>1, <2>2 DEF Life!vars, Site, Life!Next, Life!Reconsider
  <1>7. ASSUME NEW v \in Resources, Resource' = v, Marked(v), Held(Resource), ~Resource.deleting
        PROVE  [Life!Next]_(Life!vars)
    <2>1. Stage = "held" /\ Stage' = "leaving" /\ Site' = Site
      BY <1>3, <1>7 DEF Stage, Marked
    <2> QED
      BY <1>0, <1>2, <2>1 DEF Site, Life!Next, Life!Ask
  <1>8. ASSUME Resource' = Absent, Resource # Absent, ~Resource.finalizer
        PROVE  [Life!Next]_(Life!vars)
    <2>1. Stage = "loose" /\ Stage' = "absent" /\ Site' = Site
      BY <1>4, <1>8 DEF Stage
    <2>2. Promise' = Promise
      BY <1>8 DEF Promise, FinalizerInv, PledgeInv
    <2> QED
      BY <1>0, <2>1, <2>2 DEF Site, Life!Next, Life!Withdraw
  <1>9. ASSUME NEW v \in Resources, Resource' = v, Resource = Absent, ~v.finalizer,
               ~v.deleting, ~v.pledge, OwnerInv', v.uid = used'["create"],
               used'["create"] = used["create"] + 1, used["create"] \in Nat
        PROVE  [Life!Next]_(Life!vars)
    <2>1. Stage = "absent" /\ Stage' = "loose" /\ Promise' = Promise
      BY <1>9 DEF Stage, Promise
    <2>2. Site' = {} /\ Site = {}
      BY <1>4, <1>9 DEF Site, Owned, OwnerInv
    <2> QED
      BY <1>0, <2>1, <2>2 DEF Site, Life!Next, Life!Submit
  <1>10. ASSUME NEW v \in Resources, Resource' = v, Resource # Absent, ~Resource.deleting,
                v.uid = Resource.uid, v.finalizer, ~v.deleting, v.pledge = Resource.pledge
         PROVE  [Life!Next]_(Life!vars)
    <2>1. Stage' = "held" /\ Promise' = Promise /\ Site' = Site
      BY <1>3, <1>10 DEF Stage, Promise
    <2>2. Stage \in {"held", "loose"}
      BY <1>10 DEF Stage
    <2> QED
      BY <1>0, <2>1, <2>2 DEF Life!vars, Site, Life!Next, Life!Hold
  <1>11. ASSUME Resource' = Absent, Seen = {Resource}, Resource.deleting
         PROVE  [Life!Next]_(Life!vars)
    <2>1. CASE Resource = Absent
      <3>1. Stage' = Stage /\ Promise' = Promise /\ Site' = Site
        BY <1>4, <1>11, <2>1 DEF Stage, Promise
      <3> QED
        BY <1>0, <3>1 DEF Life!vars, Site
    <2>2. CASE Resource # Absent
      <3>1. Stage = "leaving" /\ Stage' = "absent" /\ Promise' = FALSE /\ Site' = {}
        BY <1>4, <1>11, <2>2 DEF Stage, Promise, OwnerInv
      <3> QED
        BY <1>0, <3>1 DEF Site, Life!Next, Life!Leave
    <2> QED
      BY <2>1, <2>2
  <1>12. used["create"] \in Nat /\ used'["create"] \in Nat
    BY DEF TypeOK, ClusterTypeOK, Disturbances
  <1>13. used'["create"] = used["create"] + 1 => OwnerInv'
    BY <1>0, <1>12, OwnerInvResource
  <1> QED
    BY <1>5, <1>6, <1>7, <1>8, <1>9, <1>10, <1>11, <1>12, <1>13 DEF ResourceStep, Writes

\* The abstract step that a step of the controller, of a user or of another
\* controller takes.
LEMMA StepImplements ==
  ASSUME TypeOK, FinalizerInv, OwnerInv, [Next]_vars
  PROVE  [Life!Next]_(Life!vars)
  <1>1. TypeOK' /\ ResourceStep /\ StoredStep
    BY TypeInductive, NextResourceStep, NextStoredStep
  <1>2. ASSUME Resource' = Resource
        PROVE  Stage' = Stage /\ Promise' = Promise
    BY <1>2 DEF Stage, Promise
  <1>3. CASE Untouched \/ Only("UserSecret")
    <2>1. /\ Resource' = Resource /\ Live("MySQLPVC")' = Live("MySQLPVC")
          /\ \A k \in ChildKinds : Live(k)' = Live(k)
      BY <1>3, Apart DEF Untouched, Only
    <2> QED
      BY <1>2, <2>1 DEF Life!vars, Claim, Owned
  <1>4. CASE Only("WordPress")
    BY <1>1, <1>4, ResourceImplements
  <1>5. CASE VolumeStep
    <2>1. Resource' = Resource /\ \A k \in ChildKinds : Live(k)' = Live(k)
      BY <1>5, Apart DEF VolumeStep, Only
    <2>2. Stage' = Stage /\ Promise' = Promise /\ Site' = Site
      BY <1>2, <2>1 DEF Site, Owned
    <2> QED
      BY <1>5, <2>2 DEF VolumeStep, Site, Life!vars, Life!Next, Life!Provision, Life!Release,
         Life!Vanish
  <1>6. ASSUME NEW k \in ChildKinds, ChildStep(k)
        PROVE  [Life!Next]_(Life!vars)
    <2>1. /\ Resource' = Resource /\ Live("MySQLPVC")' = Live("MySQLPVC")
          /\ \A j \in ChildKinds \ {k} : Live(j)' = Live(j)
      BY <1>6, Apart DEF ChildStep, Only
    <2>2. Stage' = Stage /\ Promise' = Promise /\ Claim' = Claim
      BY <1>2, <2>1 DEF Claim
    <2>3. \A j \in ChildKinds \ {k} : Owned(j)' = Owned(j)
      BY <2>1 DEF Owned
    <2>4. CASE Owned(k)' = Owned(k)
      <3>1. Site' = Site
        BY <2>3, <2>4 DEF Site
      <3> QED
        BY <2>2, <3>1 DEF Site, Life!vars
    <2>5. CASE Owned(k) /\ ~Owned(k)'
      <3>1. Site' = Site \ {k}
        BY <2>3, <2>5 DEF Site
      <3> QED
        BY <2>2, <3>1 DEF Site, Life!Next, Life!Lose
    <2>6. CASE ~Owned(k) /\ Owned(k)'
      <3>1. Site' = Site \cup {k} /\ k \notin Site
        BY <2>3, <2>6 DEF Site
      <3>2. Held(Resource)
        BY <1>6, <2>1, <2>6 DEF ChildStep, Owned, OwnerInv
      <3>3. Stage \in {"held", "leaving"}
        BY <3>2 DEF Held, Stage
      <3> QED
        BY <2>2, <3>1, <3>3 DEF Site, Life!Next, Life!Make
    <2> QED
      BY <2>4, <2>5, <2>6 DEF Owned
  <1> QED
    BY <1>1, <1>3, <1>4, <1>5, <1>6 DEF StoredStep

\* In every behaviour of the controller the stored resource, its site and its
\* data live as Lifecycle says: nothing is built for a resource that is not held
\* by its finalizer, and no data are given up under a resource in use or against
\* the retain annotation (Reconcile, handleDeletion).
THEOREM LifecycleImplemented == Spec => ImplementsLifecycle
<1>1. Init => Life!Init
  <2> SUFFICES ASSUME Init PROVE Life!Init
    OBVIOUS
  <2>1. obj["WordPress"] = <<Absent>> /\ obj["MySQLPVC"] = <<Absent>>
    BY NothingAtFirst
  <2>2. Resource = Absent /\ Live("MySQLPVC") = Absent
    BY <2>1 DEF Live
  <2> QED
    BY <2>2 DEF Life!Init, Stage, Promise, Claim, Owned
<1>2. TypeOK /\ FinalizerInv /\ OwnerInv /\ [Next]_vars => [Life!Next]_(Life!vars)
  BY StepImplements
<1> QED
  BY <1>1, <1>2, TypeCorrect, FinalizerInductive, OwnerInductive, PTL
     DEF Spec, ImplementsLifecycle, Life!Spec
=============================================================================
