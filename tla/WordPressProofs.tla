--------------------------- MODULE WordPressProofs ---------------------------
(***************************************************************************)
(* Proofs about WordPressController, for every value of its constants.     *)
(***************************************************************************)
EXTENDS WordPressProperties, SequenceTheorems, TLAPS

-----------------------------------------------------------------------------
(* The data *)

\* The defaults and the write-back of a spec are specs (applyDefaults).
LEMMA SpecOperators ==
  ASSUME NEW s \in Specs
  PROVE  /\ applyDefaults(s) \in Specs
         /\ WriteBack(s) \in Specs
         /\ \A k \in ChildKinds : Render(k, s) \in Contents
         /\ \A k \in ChildKinds : ClaimTemplates(k, s) \in SUBSET Sizes
  <1>1. /\ applyDefaults(s) \in Specs /\ WriteBack(s) \in Specs
        /\ \A k \in ChildKinds : Render(k, s) \in Contents
    BY DEF Specs, applyDefaults, WriteBack, Render, Replicas, Contents
  <1>2. \A k \in ChildKinds : ClaimTemplates(k, s) \in SUBSET Sizes
    BY DEF Specs, ClaimTemplates
  <1> QED
    BY <1>1, <1>2

\* What the streams of the three sorts of objects hold.
LEMMA VersionsOf ==
  /\ Versions("WordPress") = {Absent} \cup Resources
  /\ Versions("MySQLPVC") = {Absent} \cup Volumes
  /\ Versions("UserSecret") = {Absent} \cup Children
  /\ \A k \in ChildKinds : Versions(k) = {Absent} \cup Children
  /\ \A k \in Kinds : Versions(k) \subseteq Objects
  /\ \A k \in Kinds : Absent \in Versions(k)
  BY DEF Versions, Kinds, ChildKinds, DatabaseKinds, SiteKinds, Objects

\* A resource with a few fields changed is a resource.
LEMMA ResourceUpdates ==
  ASSUME NEW r \in Resources, NEW s \in Specs
  PROVE  /\ r.gen + 1 \in Nat
         /\ r.spec \in Specs
         /\ [r EXCEPT !.spec = s, !.gen = @ + 1] \in Resources
         /\ [r EXCEPT !.deleting = TRUE, !.gen = @ + 1, !.pledge = r.retain] \in Resources
  <1>1. r.gen \in Nat /\ r.retain \in BOOLEAN /\ r.spec \in Specs
    BY DEF Resources
  <1>2. r.gen + 1 \in Nat
    BY <1>1
  <1>3. \A n \in Nat : [r EXCEPT !.spec = s, !.gen = n] \in Resources
    BY DEF Resources
  <1>4. \A n \in Nat, b \in BOOLEAN :
          [r EXCEPT !.deleting = TRUE, !.gen = n, !.pledge = b] \in Resources
    BY DEF Resources
  <1> QED
    BY <1>1, <1>2, <1>3, <1>4

\* Somebody else's object is a child like any other.
LEMMA NotOwnedType == NotOwned \in Children
  BY DEF NotOwned, Children

\* A child with other content, pods or password is a child, and a claim that is
\* filled or deleted is a claim.
LEMMA ObjectUpdates ==
  /\ \A c \in Children, x \in Contents \cup {Alien} : Changed(c, x) \in Children
  /\ \A c \in Children, n \in Nat : [c EXCEPT !.password = n] \in Children
  /\ \A c \in Children, y \in {"unready", "outdated", "ready"} :
       [c EXCEPT !.pods = y] \in Children
  /\ EmptyVolume \in Volumes
  /\ \A v \in Volumes : [v EXCEPT !.terminating = TRUE] \in Volumes
  /\ \A v \in Volumes, n \in Nat : [v EXCEPT !.data = n] \in Volumes
  <1>1. ASSUME NEW c \in Children, NEW x \in Contents \cup {Alien}
        PROVE  Changed(c, x) \in Children
    BY DEF Changed, Children
  <1>2. \A c \in Children, n \in Nat : [c EXCEPT !.password = n] \in Children
    BY DEF Children
  <1>3. \A c \in Children, y \in {"unready", "outdated", "ready"} :
          [c EXCEPT !.pods = y] \in Children
    BY DEF Children
  <1>4. EmptyVolume \in Volumes
    BY DEF EmptyVolume, Volumes
  <1>5. \A v \in Volumes : [v EXCEPT !.terminating = TRUE] \in Volumes
    BY DEF Volumes
  <1>6. \A v \in Volumes, n \in Nat : [v EXCEPT !.data = n] \in Volumes
    BY DEF Volumes
  <1> QED
    BY <1>1, <1>2, <1>3, <1>4, <1>5, <1>6

-----------------------------------------------------------------------------
(* The watch streams *)

Streams ==
  /\ obj \in [Kinds -> Seq(Objects)]
  /\ \A k \in Kinds : obj[k] \in Seq(Versions(k)) \ {<<>>}

\* The cached and the stored version of an object are versions of its kind.
LEMMA EndsOfStream ==
  ASSUME Streams, NEW k \in Kinds
  PROVE  /\ Cached(k) \in Versions(k)
         /\ Live(k) \in Versions(k)
         /\ Len(obj[k]) \in Nat \ {0}
  <1>1. obj[k] \in Seq(Versions(k)) /\ obj[k] # <<>>
    BY DEF Streams
  <1>2. Len(obj[k]) \in Nat \ {0}
    BY <1>1
  <1> QED
    BY <1>1, <1>2 DEF Cached, Live

\* A write appends to one stream, or changes nothing.
LEMMA PutStream ==
  ASSUME Streams, NEW k \in Kinds, NEW v \in Versions(k), Put(k, v)
  PROVE  /\ Streams'
         /\ Live(k)' = v
         /\ \A j \in Kinds \ {k} : obj'[j] = obj[j]
         /\ \/ obj'[k] = obj[k]
            \/ obj'[k] = Append(obj[k], v)
  <1>1. CASE v = Live(k)
    BY <1>1 DEF Put, Streams, Live
  <1>2. CASE v # Live(k)
    <2>1. obj' = [obj EXCEPT ![k] = Append(@, v)]
      BY <1>2 DEF Put
    <2>2. obj'[k] = Append(obj[k], v) /\ \A j \in Kinds \ {k} : obj'[j] = obj[j]
      BY <2>1 DEF Streams
    <2>3. obj[k] \in Seq(Versions(k)) /\ obj[k] \in Seq(Objects)
      BY DEF Streams
    <2>4. v \in Objects
      BY VersionsOf
    <2>5. /\ Append(obj[k], v) \in Seq(Versions(k)) \ {<<>>}
          /\ Append(obj[k], v) \in Seq(Objects)
          /\ Append(obj[k], v)[Len(Append(obj[k], v))] = v
      BY <2>3, <2>4
    <2> QED
      BY <2>1, <2>2, <2>5 DEF Streams, Live
  <1> QED
    BY <1>1, <1>2

\* Steps that move a disturbance counter, or leave the counters alone.
LEMMA CounterType ==
  ASSUME used \in [Disturbances -> Nat]
  PROVE  /\ \A d \in Disturbances :
              Spend(d) => used' \in [Disturbances -> Nat] /\ used'[d] \in Nat
         /\ \A r : Charge(r) => used' \in [Disturbances -> Nat]
         /\ UNCHANGED used => used' \in [Disturbances -> Nat]
  BY DEF Spend, Charge, Disturbances

\* A write of a version of the right kind keeps the cluster well-typed.
LEMMA WriteType ==
  ASSUME ClusterTypeOK, NEW k \in Kinds, NEW v \in Versions(k), Put(k, v),
         fresh' \in BOOLEAN, used' \in [Disturbances -> Nat]
  PROVE  ClusterTypeOK'
  BY PutStream DEF ClusterTypeOK, Streams

\* The same for a write of the resource, which also tells the worker (PutWordPress).
LEMMA WriteWordPressType ==
  ASSUME ClusterTypeOK, NEW v \in {Absent} \cup Resources, PutWordPress(v),
         used' \in [Disturbances -> Nat]
  PROVE  ClusterTypeOK'
  <1>1. v \in Versions("WordPress") /\ "WordPress" \in Kinds
    BY VersionsOf DEF Kinds
  <1>2. Put("WordPress", v) /\ fresh' \in BOOLEAN
    BY DEF PutWordPress, ClusterTypeOK
  <1> QED
    BY <1>1, <1>2, WriteType

\* The stored and the cached resource, when there is one.
LEMMA ResourceVersions ==
  ASSUME ClusterTypeOK
  PROVE  /\ Live("WordPress") \in {Absent} \cup Resources
         /\ Cached("WordPress") \in {Absent} \cup Resources
         /\ \A k \in ChildKinds : /\ Live(k) \in {Absent} \cup Children
                                 /\ Cached(k) \in {Absent} \cup Children
         /\ Live("MySQLPVC") \in {Absent} \cup Volumes
  <1>1. Streams
    BY DEF ClusterTypeOK, Streams
  <1>2. {"WordPress", "MySQLPVC"} \cup ChildKinds \subseteq Kinds
    BY DEF Kinds
  <1> QED
    BY <1>1, <1>2, EndsOfStream, VersionsOf

-----------------------------------------------------------------------------
(* Type correctness of the environment *)

\* Whatever users and other controllers do keeps the cluster well-typed.
LEMMA EnvironmentType ==
  ASSUME ClusterTypeOK, Environment
  PROVE  ClusterTypeOK'
  <1> USE ClusterAssumption
  <1>0. used \in [Disturbances -> Nat] /\ fresh \in BOOLEAN
    BY DEF ClusterTypeOK
  <1>a. Live("WordPress") \in {Absent} \cup Resources
    BY ResourceVersions
  <1>b. \A k \in ChildKinds : Live(k) \in {Absent} \cup Children
    BY ResourceVersions
  <1>c. ChildKinds \subseteq Kinds /\ "UserSecret" \in Kinds /\ "MySQLPVC" \in Kinds
    BY DEF Kinds
  <1>1. CASE CreateWordPress
    <2>1. used' \in [Disturbances -> Nat] /\ used'["create"] \in Nat
      BY <1>0, <1>1, CounterType DEF CreateWordPress, Disturbances
    <2>2. PICK s \in Submitted :
            PutWordPress([uid |-> used'["create"], gen |-> 1, spec |-> s,
                     retain |-> FALSE, deleting |-> FALSE, finalizer |-> FALSE,
                     pledge |-> FALSE, status |-> NoStatus])
      BY <1>1 DEF CreateWordPress
    <2>3. [uid |-> used'["create"], gen |-> 1, spec |-> s,
           retain |-> FALSE, deleting |-> FALSE, finalizer |-> FALSE,
           pledge |-> FALSE, status |-> NoStatus] \in Resources
      BY <2>1 DEF Resources, NoStatus, Statuses, Ternary
    <2> QED
      BY <2>1, <2>2, <2>3, WriteWordPressType
  <1>2. CASE EditSpec
    <2>1. used' \in [Disturbances -> Nat]
      BY <1>0, <1>2, CounterType DEF EditSpec, Disturbances
    <2>2. PICK s \in Submitted :
            PutWordPress([Live("WordPress") EXCEPT !.spec = s, !.gen = @ + 1])
      BY <1>2 DEF EditSpec
    <2>3. [Live("WordPress") EXCEPT !.spec = s, !.gen = @ + 1] \in Resources
      BY <1>a, <1>2, ResourceUpdates DEF EditSpec
    <2> QED
      BY <2>1, <2>2, <2>3, WriteWordPressType
  <1>3. CASE Annotate
    <2>1. used' \in [Disturbances -> Nat]
      BY <1>0, <1>3, CounterType DEF Annotate, Disturbances
    <2>2. [Live("WordPress") EXCEPT !.retain = ~@, !.pledge = FALSE] \in Resources
      BY <1>a, <1>3 DEF Annotate, Resources
    <2> QED
      BY <1>3, <2>1, <2>2, WriteWordPressType DEF Annotate
  <1>4. CASE DeleteWordPress
    <2>1. used' \in [Disturbances -> Nat]
      BY <1>0, <1>4, CounterType DEF DeleteWordPress, Disturbances
    <2>2. [Live("WordPress") EXCEPT !.deleting = TRUE, !.gen = @ + 1,
                                    !.pledge = Live("WordPress").retain] \in Resources
      <3>1. Live("WordPress") \in Resources
        BY <1>a, <1>4 DEF DeleteWordPress
      <3>2. Live("WordPress").spec \in Specs
        BY <3>1 DEF Resources
      <3> QED
        BY <3>1, <3>2, ResourceUpdates
    <2> QED
      BY <1>4, <2>1, <2>2, WriteWordPressType DEF DeleteWordPress
  <1>5. CASE ToggleUserSecret
    <2>1. used' \in [Disturbances -> Nat]
      BY <1>0, <1>5, CounterType DEF ToggleUserSecret, Disturbances
    <2>2. (IF Live("UserSecret") = Absent THEN NotOwned ELSE Absent) \in Versions("UserSecret")
      BY NotOwnedType, VersionsOf
    <2> QED
      BY <1>0, <1>c, <1>5, <2>1, <2>2, WriteType DEF ToggleUserSecret
  <1>6. CASE ProvisionVolume \/ InitialiseVolume \/ ReleaseVolume
    <2>1. EmptyVolume \in Versions("MySQLPVC") /\ Absent \in Versions("MySQLPVC")
      BY VersionsOf, ObjectUpdates
    <2>2. CASE ProvisionVolume \/ ReleaseVolume
      BY <1>0, <1>c, <2>1, <2>2, WriteType DEF ProvisionVolume, ReleaseVolume
    <2>3. CASE InitialiseVolume
      <3>1. Live("Secret") \in Children /\ Live("MySQLPVC") \in Volumes
        BY <1>b, <2>3, ResourceVersions
           DEF InitialiseVolume, ChildKinds, DatabaseKinds
      <3>2. Live("Secret").password \in Nat
        BY <3>1 DEF Children
      <3>3. [Live("MySQLPVC") EXCEPT !.data = Live("Secret").password] \in Versions("MySQLPVC")
        BY <3>1, <3>2, VersionsOf, ObjectUpdates
      <3> QED
        BY <1>0, <1>c, <2>3, <3>3, WriteType DEF InitialiseVolume
    <2> QED
      BY <1>6, <2>2, <2>3
  <1>7. CASE \E k \in ChildKinds : Drift(k) \/ CreateForeign(k) \/ CollectGarbage(k)
    <2>1. PICK k \in ChildKinds : Drift(k) \/ CreateForeign(k) \/ CollectGarbage(k)
      BY <1>7
    <2>2. Absent \in Versions(k) /\ NotOwned \in Versions(k)
      BY NotOwnedType, VersionsOf
    <2>3. CASE Drift(k)
      <3>1. used' \in [Disturbances -> Nat]
        BY <1>0, <2>3, CounterType DEF Drift, Disturbances
      <3>2. Changed(Live(k), Alien) \in Versions(k)
        BY <1>b, <2>3, VersionsOf, ObjectUpdates DEF Drift
      <3> QED
        BY <1>0, <1>c, <2>2, <2>3, <3>1, <3>2, WriteType DEF Drift
    <2>4. CASE CreateForeign(k)
      <3>1. used' \in [Disturbances -> Nat]
        BY <1>0, <2>4, CounterType DEF CreateForeign, Disturbances
      <3> QED
        BY <1>0, <1>c, <2>2, <2>4, <3>1, WriteType DEF CreateForeign
    <2>5. CASE CollectGarbage(k)
      BY <1>0, <1>c, <2>2, <2>5, WriteType DEF CollectGarbage
    <2> QED
      BY <2>1, <2>3, <2>4, <2>5
  <1>8. CASE \E k \in Workloads : BecomeReady(k) \/ RollOut(k) \/ BecomeUnready(k)
    <2>1. PICK k \in Workloads : BecomeReady(k) \/ RollOut(k) \/ BecomeUnready(k)
      BY <1>8
    <2>2. k \in ChildKinds
      BY DEF Workloads, ChildKinds, DatabaseKinds, SiteKinds
    <2>3. Live(k) \in Children
      BY <1>b, <2>1, <2>2 DEF BecomeReady, RollOut, BecomeUnready
    <2>4. /\ [Live(k) EXCEPT !.pods = "ready"] \in Versions(k)
          /\ [Live(k) EXCEPT !.pods = "unready"] \in Versions(k)
      BY <2>2, <2>3, VersionsOf, ObjectUpdates
    <2>5. CASE BecomeReady(k) \/ RollOut(k)
      BY <1>0, <1>c, <2>2, <2>4, <2>5, WriteType DEF BecomeReady, RollOut
    <2>6. CASE BecomeUnready(k)
      <3>1. used' \in [Disturbances -> Nat]
        BY <1>0, <2>6, CounterType DEF BecomeUnready, Disturbances
      <3> QED
        BY <1>0, <1>c, <2>2, <2>4, <2>6, <3>1, WriteType DEF BecomeUnready
    <2> QED
      BY <2>1, <2>5, <2>6
  <1>9. CASE Autoscale
    <2> DEFINE scaled(n) == [Live("Deployment").content EXCEPT !.replicas = n]
    <2>1. used' \in [Disturbances -> Nat]
      BY <1>0, <1>9, CounterType DEF Autoscale, Disturbances
    <2>2. PICK n \in Scales : Put("Deployment", Changed(Live("Deployment"), scaled(n)))
      BY <1>9 DEF Autoscale
    <2>3. "Deployment" \in ChildKinds /\ Live("Deployment") \in Children
      BY <1>b, <1>9 DEF Autoscale, ChildKinds, SiteKinds
    <2>4. Live("Deployment").content \in Contents
      BY <1>9, <2>3 DEF Autoscale, Children
    <2>5. scaled(n) \in Contents
      BY <2>4 DEF Contents
    <2>6. Changed(Live("Deployment"), scaled(n)) \in Versions("Deployment")
      BY <2>3, <2>5, VersionsOf, ObjectUpdates
    <2> QED
      BY <1>0, <1>c, <1>9, <2>1, <2>2, <2>3, <2>6, WriteType DEF Autoscale
  <1> QED
    BY <1>1, <1>2, <1>3, <1>4, <1>5, <1>6, <1>7, <1>8, <1>9 DEF Environment

-----------------------------------------------------------------------------
(* Type correctness of the controller *)

WorkerTypeOK ==
  /\ timer \in BOOLEAN
  /\ pc \in PCs
  /\ wp \in Resources \cup {Absent}
  /\ pc = "idle" <=> wp = Absent
  /\ todo \in Seq(ChildKinds)
  /\ after \in Reasons

\* TypeOK, and its primed form, is the conjunction of its parts.
LEMMA TypeParts ==
  /\ TypeOK <=> ClusterTypeOK /\ queued \in BOOLEAN /\ WorkerTypeOK
  /\ TypeOK' <=> ClusterTypeOK' /\ queued' \in BOOLEAN /\ WorkerTypeOK'
  BY DEF TypeOK, WorkerTypeOK

\* A step that leaves the cluster alone keeps it well-typed.
LEMMA ClusterUnchanged == ClusterTypeOK /\ UNCHANGED clusterVars => ClusterTypeOK'
  BY DEF ClusterTypeOK, clusterVars

\* A step that leaves the worker alone keeps it well-typed.
LEMMA WorkerUnchanged ==
  WorkerTypeOK /\ timer' \in BOOLEAN /\ UNCHANGED workerVars => WorkerTypeOK'
  BY DEF WorkerTypeOK, workerVars

\* The end of a pass (Return) leaves a well-typed idle worker.
LEMMA ReturnType ==
  ASSUME WorkerTypeOK, NEW b \in BOOLEAN, Return(b)
  PROVE  WorkerTypeOK'
  <1>1. timer' \in BOOLEAN
    BY Zenon DEF Return
  <1>2. pc' = "idle" /\ wp' = Absent /\ todo' = <<>> /\ after' = ""
    BY DEF Return
  <1>3. wp' \in Resources \cup {Absent} /\ (pc' = "idle" <=> wp' = Absent)
    BY <1>2
  <1>4. todo' \in Seq(ChildKinds)
    BY <1>2, EmptySeq
  <1>5. pc' \in PCs /\ after' \in Reasons
    BY <1>2 DEF PCs, Reasons
  <1> QED
    BY <1>1, <1>3, <1>4, <1>5 DEF WorkerTypeOK

\* Going on to the status write (Persist) keeps the worker well-typed.
LEMMA PersistType ==
  ASSUME timer' \in BOOLEAN, wp' \in Resources,
         NEW x \in Reasons, Persist(x)
  PROVE  WorkerTypeOK'
  BY ClusterAssumption DEF WorkerTypeOK, Persist, PCs

\* Whether an error is returned is a truth value (ignoreConflict).
LEMMA ignoreConflictType == \A r : ignoreConflict(r) \in BOOLEAN
  BY DEF ignoreConflict

\* The plans are sequences of children.
LEMMA PlanType == DatabasePlan \o SitePlan \in Seq(ChildKinds) /\ SitePlan \in Seq(ChildKinds)
  <1>1. DatabasePlan \in Seq(ChildKinds)
    BY PlanAssumption DEF ChildKinds
  <1>2. SitePlan \in Seq(ChildKinds)
    BY PlanAssumption DEF ChildKinds
  <1> QED
    BY <1>1, <1>2

\* Conditions and phases written into a status.
LEMMA StatusUpdates ==
  ASSUME NEW st \in Statuses
  PROVE  /\ \A x \in Ternary : [st EXCEPT !.database = x] \in Statuses
         /\ \A x \in Ternary : [st EXCEPT !.ingress = x] \in Statuses
         /\ [st EXCEPT !.phase = "Failed", !.ready = "False"] \in Statuses
         /\ \A n \in Nat, x \in Ternary, y \in Ternary, p \in {"Ready", "Provisioning"} :
              [st EXCEPT !.observed = n, !.deployment = x, !.phase = p, !.ready = y]
                \in Statuses
  <1>1. \A x \in Ternary : [st EXCEPT !.database = x] \in Statuses
    BY DEF Statuses
  <1>2. \A x \in Ternary : [st EXCEPT !.ingress = x] \in Statuses
    BY DEF Statuses
  <1>3. [st EXCEPT !.phase = "Failed", !.ready = "False"] \in Statuses
    BY DEF Statuses, Ternary
  <1>4. ASSUME NEW n \in Nat, NEW x \in Ternary, NEW y \in Ternary,
               NEW p \in {"Ready", "Provisioning"}
        PROVE  [st EXCEPT !.observed = n, !.deployment = x, !.phase = p, !.ready = y]
                 \in Statuses
    BY DEF Statuses
  <1> QED
    BY <1>1, <1>2, <1>3, <1>4

\* A step of the controller keeps everything well-typed.
LEMMA ControllerType ==
  ASSUME TypeOK, Worker \/ TimerFires \/ Restart \/ \E k \in Kinds : Deliver(k)
  PROVE  TypeOK'
  <1> USE ClusterAssumption
  <1>0. /\ ClusterTypeOK /\ queued \in BOOLEAN /\ WorkerTypeOK
        /\ used \in [Disturbances -> Nat] /\ fresh \in BOOLEAN
        /\ Streams
    BY TypeParts DEF ClusterTypeOK, Streams
  <1>a. /\ Live("WordPress") \in {Absent} \cup Resources
        /\ Cached("WordPress") \in {Absent} \cup Resources
    BY <1>0, ResourceVersions
  <1>b. Begin => pc = "idle" /\ queued' \in BOOLEAN
    BY DEF Begin
  <1>1. CASE ReconcileFinished
    <2>1. timer' \in BOOLEAN
      BY <1>0, <1>1 DEF ReconcileFinished, WorkerTypeOK
    <2> QED
      BY <1>0, <1>b, <1>1, <2>1, ClusterUnchanged, WorkerUnchanged, TypeParts
         DEF ReconcileFinished
  <1>c. pc # "idle" => wp \in Resources
    BY <1>0 DEF WorkerTypeOK
  <1>d. \A r : Charge(r) => used' \in [Disturbances -> Nat]
    BY <1>0, CounterType
  <1>e. "WordPress" \in Kinds /\ "MySQLPVC" \in Kinds /\ ChildKinds \subseteq Kinds
    BY DEF Kinds
  <1>2. CASE HandleDeletion
    <2> DEFINE cr == Cached("WordPress")
    <2>1. cr \in Resources
      BY <1>a, <1>2 DEF HandleDeletion, Finished
    <2>2. fresh' \in BOOLEAN /\ queued' \in BOOLEAN
      BY <1>2 DEF HandleDeletion, Begin, InSync
    <2>3. ASSUME pc' = "finalize", wp' = cr, UNCHANGED <<todo, after, timer>>
          PROVE  WorkerTypeOK'
      BY <1>0, <2>1, <2>3 DEF WorkerTypeOK, PCs
    <2>4. CASE DeletesVolume(cr)
      <3>1. PICK r \in Outcomes(DeleteResult("MySQLPVC")) :
              /\ Charge(r)
              /\ IF Effective(r, DeleteResult("MySQLPVC"))
                 THEN Put("MySQLPVC", [Live("MySQLPVC") EXCEPT !.terminating = TRUE])
                 ELSE UNCHANGED obj
              /\ IF r \in {"ok", "missing"}
                 THEN pc' = "finalize" /\ wp' = cr /\ UNCHANGED <<todo, after, timer>>
                 ELSE Return(TRUE)
        BY <1>2, <2>4 DEF HandleDeletion
      <3>2. used' \in [Disturbances -> Nat]
        BY <1>d, <3>1
      <3>3. Effective(r, DeleteResult("MySQLPVC")) =>
              [Live("MySQLPVC") EXCEPT !.terminating = TRUE] \in Versions("MySQLPVC")
        <4>1. Effective(r, DeleteResult("MySQLPVC")) => Live("MySQLPVC") \in Volumes
          BY <1>0, <3>1, ResourceVersions DEF Effective, DeleteResult, Outcomes
        <4> QED
          BY <4>1, VersionsOf, ObjectUpdates
      <3>6. ClusterTypeOK'
        <4>1. CASE Effective(r, DeleteResult("MySQLPVC"))
          BY <1>0, <1>e, <2>2, <3>1, <3>2, <3>3, <4>1, WriteType
        <4>2. CASE ~Effective(r, DeleteResult("MySQLPVC"))
          BY <1>0, <2>2, <3>1, <3>2, <4>2 DEF ClusterTypeOK
        <4> QED
          BY <4>1, <4>2
      <3>7. WorkerTypeOK'
        BY <1>0, <2>3, <3>1, ReturnType
      <3> QED
        BY <2>2, <3>6, <3>7, TypeParts
    <2>5. CASE ~DeletesVolume(cr)
      <3>1. pc' = "finalize" /\ wp' = cr /\ UNCHANGED <<obj, used, todo, after, timer>>
        BY <1>2, <2>5 DEF HandleDeletion
      <3>2. ClusterTypeOK'
        BY <1>0, <2>2, <3>1 DEF ClusterTypeOK
      <3> QED
        BY <2>2, <2>3, <3>1, <3>2, TypeParts
    <2> QED
      BY <2>4, <2>5
  <1>3. CASE RemoveFinalizer
    <2>1. PICK r : /\ Charge(r)
                   /\ PutWordPress(Absent) \/ UNCHANGED <<obj, fresh>>
                   /\ Return(ignoreConflict(r))
      BY <1>3 DEF RemoveFinalizer
    <2>2. used' \in [Disturbances -> Nat]
      BY <1>d, <2>1
    <2>3. ClusterTypeOK'
      BY <1>0, <2>1, <2>2, WriteWordPressType DEF ClusterTypeOK
    <2>4. WorkerTypeOK'
      BY <1>0, <2>1, ignoreConflictType, ReturnType
    <2> QED
      BY <1>0, <1>3, <2>3, <2>4, TypeParts DEF RemoveFinalizer
  <1>4. CASE AddFinalizer
    <2> DEFINE cr == Cached("WordPress")
               gen == IF WriteBack(cr.spec) = cr.spec THEN cr.gen ELSE cr.gen + 1
               written == [cr EXCEPT !.finalizer = TRUE, !.spec = WriteBack(cr.spec),
                                     !.gen = gen]
    <2>1. cr \in Resources
      BY <1>a, <1>4 DEF AddFinalizer, Finished
    <2>2. written \in Resources
      <3>1. cr.spec \in Specs /\ cr.gen \in Nat /\ cr.gen + 1 \in Nat
        BY <2>1, ResourceUpdates DEF Resources
      <3>2. WriteBack(cr.spec) \in Specs /\ gen \in Nat
        BY <3>1, SpecOperators
      <3>3. \A s \in Specs, n \in Nat :
              [cr EXCEPT !.finalizer = TRUE, !.spec = s, !.gen = n] \in Resources
        BY <2>1 DEF Resources
      <3> QED
        BY <3>2, <3>3
    <2>3. PICK r : /\ Charge(r)
                   /\ PutWordPress(written) \/ UNCHANGED <<obj, fresh>>
                   /\ Return(r # "ok")
      BY <1>4, <2>1 DEF AddFinalizer, Resources
    <2>4. used' \in [Disturbances -> Nat]
      BY <1>d, <2>3
    <2>5. ClusterTypeOK'
      BY <1>0, <2>2, <2>3, <2>4, WriteWordPressType DEF ClusterTypeOK
    <2>6. WorkerTypeOK'
      BY <1>0, <2>3, ReturnType
    <2> QED
      BY <1>b, <1>4, <2>5, <2>6, TypeParts DEF AddFinalizer
  <1>5. CASE RejectSpec \/ AcceptSpec
    <2>1. BeginPass /\ UNCHANGED <<clusterVars, timer>>
      BY <1>5 DEF RejectSpec, AcceptSpec
    <2>2. Cached("WordPress") \in Resources
      BY <1>a, <2>1 DEF BeginPass, Finished
    <2>3. Cached("WordPress").spec \in Specs /\ Cached("WordPress").status \in Statuses
      BY <2>2 DEF Resources
    <2>4. Defaulted \in Resources /\ Defaulted.status = Cached("WordPress").status
      BY <2>2, <2>3, SpecOperators DEF Defaulted, Resources
    <2>5. timer' \in BOOLEAN /\ queued' \in BOOLEAN
      BY <1>0, <1>b, <2>1 DEF BeginPass, WorkerTypeOK
    <2>6. ClusterTypeOK'
      BY <1>0, <2>1, ClusterUnchanged
    <2>7. CASE RejectSpec
      <3>1. wp' = [Defaulted EXCEPT !.status = [Defaulted.status EXCEPT !.phase = "Failed",
                                                                        !.ready = "False"]]
        BY <2>4, <2>7 DEF RejectSpec, Resources
      <3>2. wp' \in Resources
        BY <2>3, <2>4, <3>1, StatusUpdates DEF Resources
      <3>3. Persist("invalid") /\ "invalid" \in Reasons
        BY <2>7 DEF RejectSpec, Reasons
      <3> QED
        BY <2>5, <2>6, <3>2, <3>3, PersistType, TypeParts
    <2>8. CASE AcceptSpec
      <3>1. /\ wp' = Defaulted /\ after' = after
            /\ pc' \in {"secret", "children"}
            /\ todo' = todo \/ todo' = DatabasePlan \o SitePlan
        BY <2>8 DEF AcceptSpec
      <3>2. todo' \in Seq(ChildKinds)
        BY <1>0, <3>1, PlanType DEF WorkerTypeOK
      <3> QED
        BY <1>0, <2>4, <2>5, <2>6, <3>1, <3>2, TypeParts DEF WorkerTypeOK, PCs
    <2> QED
      BY <1>5, <2>7, <2>8
  <1>6. CASE CheckUserSecret
    <2>1. pc = "secret" /\ wp \in Resources
      BY <1>c, <1>6 DEF CheckUserSecret
    <2>2. PICK x \in Ternary : wp' = [wp EXCEPT !.status.database = x]
      BY <1>6 DEF CheckUserSecret, Ternary
    <2>3. wp' \in Resources
      <3>1. wp' = [wp EXCEPT !.status = [wp.status EXCEPT !.database = x]]
        BY <2>1, <2>2 DEF Resources
      <3>2. [wp.status EXCEPT !.database = x] \in Statuses
        BY <2>1, StatusUpdates DEF Resources
      <3> QED
        BY <2>1, <3>1, <3>2 DEF Resources
    <2>4. ClusterTypeOK' /\ queued' \in BOOLEAN /\ timer' \in BOOLEAN
      BY <1>0, <1>6, ClusterUnchanged DEF CheckUserSecret, WorkerTypeOK
    <2>5. CASE pc' = "children" /\ todo' = SitePlan /\ after' = after
      BY <1>0, <2>3, <2>4, <2>5, PlanType, TypeParts DEF WorkerTypeOK, PCs
    <2>6. CASE Persist("noSecret")
      BY <2>3, <2>4, <2>6, PersistType, TypeParts DEF Reasons
    <2> QED
      BY <1>6, <2>5, <2>6 DEF CheckUserSecret
  <1>8. CASE \E k \in ChildKinds : ApplyChild(k)
    <2>1. PICK k \in ChildKinds : ApplyChild(k)
      BY <1>8
    <2>2. PICK r \in IF Call(k) = "none" THEN {"ok"} ELSE Outcomes(Result(k)) :
                   /\ Charge(r)
                   /\ IF Effective(r, Result(k))
                      THEN \E p \in Generated : Put(k, Written(k, p))
                      ELSE UNCHANGED obj
                   /\ IF r = "ok"
                      THEN /\ todo' = Tail(todo)
                           /\ wp' = [wp EXCEPT !.status = Observed(k, @)]
                           /\ UNCHANGED <<pc, after, timer>>
                      ELSE Abort(k, r)
      BY <2>1 DEF ApplyChild
    <2>3. /\ pc = "children" /\ wp \in Resources /\ todo # <<>>
          /\ queued' \in BOOLEAN /\ fresh' \in BOOLEAN
      BY <1>0, <1>c, <2>1 DEF ApplyChild
    <2>4. used' \in [Disturbances -> Nat]
      BY <1>d, <2>2
    <2>5. ASSUME Effective(r, Result(k)), NEW p \in Generated
          PROVE  Written(k, p) \in Versions(k)
      <3>1. Live(k) \in {Absent} \cup Children
        BY <1>0, ResourceVersions
      <3>2. /\ Render(k, wp.spec) \in Contents /\ wp.uid \in Nat
            /\ ClaimTemplates(k, wp.spec) \in SUBSET Sizes /\ Password(k, p) \in Nat
        BY <2>3, SpecOperators DEF Resources, Generated, Password
      <3>3. Call(k) = "update" /\ Live(k) # Absent =>
              [Changed(Live(k), Render(k, wp.spec)) EXCEPT !.password = Password(k, p)]
                \in Children
        BY <3>1, <3>2, ObjectUpdates
      <3>4. [owner |-> wp.uid, content |-> Render(k, wp.spec),
             claims |-> ClaimTemplates(k, wp.spec), pods |-> "unready",
             password |-> Password(k, p)] \in Children
        BY <3>2 DEF Children
      <3>5. Call(k) = "update" => Live(k) # Absent
        BY <2>2, <2>5 DEF Effective, Result, UpdateResult, Outcomes
      <3> QED
        BY <3>1, <3>3, <3>4, <3>5, VersionsOf DEF Written
    <2>6. ClusterTypeOK'
      <3>1. CASE Effective(r, Result(k))
        BY <1>0, <1>e, <2>2, <2>3, <2>4, <2>5, <3>1, WriteType
      <3>2. CASE ~Effective(r, Result(k))
        BY <1>0, <2>2, <2>3, <2>4, <3>2 DEF ClusterTypeOK
      <3> QED
        BY <3>1, <3>2
    <2>7. WorkerTypeOK'
      <3>1. CASE r = "ok"
        <4>1. Observed(k, wp.status) \in Statuses
          BY <2>3, StatusUpdates DEF Observed, Resources, Ternary
        <4>2. wp' = [wp EXCEPT !.status = Observed(k, wp.status)]
          BY <2>2, <3>1
        <4>3. wp' \in Resources
          BY <2>3, <4>1, <4>2 DEF Resources
        <4>4. todo' \in Seq(ChildKinds)
          <5>1. todo \in Seq(ChildKinds) /\ todo # <<>> /\ todo' = Tail(todo)
            BY <1>0, <2>2, <2>3, <3>1 DEF WorkerTypeOK
          <5> QED
            BY <5>1, HeadTailProperties
        <4> QED
          BY <1>0, <2>2, <2>3, <3>1, <4>3, <4>4 DEF WorkerTypeOK
      <3>2. CASE r # "ok" /\ k \in DatabaseKinds
        <4>1. /\ Persist(IF ignoreConflict(r) THEN "dbError" ELSE "dbConflict")
              /\ wp' = wp /\ timer' = timer
          BY <2>2, <3>2 DEF Abort
        <4>2. wp' \in Resources /\ timer' \in BOOLEAN
          BY <1>0, <2>3, <4>1 DEF WorkerTypeOK
        <4>3. "dbError" \in Reasons /\ "dbConflict" \in Reasons
          BY DEF Reasons
        <4> QED
          BY <4>1, <4>2, <4>3, PersistType
      <3>3. CASE r # "ok" /\ k \notin DatabaseKinds
        <4>1. Return(ignoreConflict(r))
          BY <2>2, <3>3 DEF Abort
        <4> QED
          BY <1>0, <4>1, ignoreConflictType, ReturnType
      <3> QED
        BY <3>1, <3>2, <3>3
    <2> QED
      BY <2>3, <2>6, <2>7, TypeParts
  <1>9. CASE UpdateStatus
    <2>1. wp \in Resources
      BY <1>0, <1>9 DEF UpdateStatus, WorkerTypeOK
    <2>2. wp' \in Resources
      <3> DEFINE deployed == ReportedReady("Deployment")
                 ready == deployed /\ wp.status.database = "True"
                 st == [wp.status EXCEPT
                          !.observed   = wp.gen,
                          !.deployment = IF deployed THEN "True" ELSE "False",
                          !.phase      = IF ready THEN "Ready" ELSE "Provisioning",
                          !.ready      = IF ready THEN "True" ELSE "False"]
      <3>1. wp' = [wp EXCEPT !.status = st]
        BY <1>9 DEF UpdateStatus
      <3>2. wp.status \in Statuses /\ wp.gen \in Nat
        BY <2>1 DEF Resources
      <3>3. st \in Statuses
        BY <3>2, StatusUpdates DEF Ternary
      <3> QED
        BY <2>1, <3>1, <3>3 DEF Resources
    <2> QED
      BY <1>0, <1>9, <2>2, PersistType, TypeParts DEF UpdateStatus, clusterVars, Reasons,
         ClusterTypeOK, WorkerTypeOK
  <1>10. CASE PersistStatus
    <2>1. PICK r : /\ Charge(r) \/ Spend("giveup")
                   /\ \/ PutWordPress(WithStatus(Live("WordPress")))
                      \/ UNCHANGED <<obj, fresh>>
                   /\ Live("WordPress") = Absent => UNCHANGED <<obj, fresh>>
                   /\ Return(Requeue(after, r))
      BY <1>10 DEF PersistStatus, Effective, UpdateResult, Outcomes
    <2>2. used' \in [Disturbances -> Nat]
      BY <1>0, <1>d, <2>1, CounterType DEF Disturbances
    <2>3. Live("WordPress") # Absent => WithStatus(Live("WordPress")) \in Resources
      BY <1>a, <1>c, <1>10 DEF PersistStatus, WithStatus, Resources
    <2>4. ClusterTypeOK'
      BY <1>0, <2>1, <2>2, <2>3, WriteWordPressType DEF ClusterTypeOK
    <2>5. Requeue(after, r) \in BOOLEAN
      BY DEF Requeue, ignoreConflict
    <2>6. WorkerTypeOK'
      BY <1>0, <2>1, <2>5, ReturnType
    <2> QED
      BY <1>0, <1>10, <2>4, <2>6, TypeParts DEF PersistStatus
  <1>11. CASE TimerFires
    BY <1>0, <1>11, ClusterUnchanged, WorkerUnchanged, TypeParts DEF TimerFires
  <1>12. CASE Restart
    <2>1. used' \in [Disturbances -> Nat]
      BY <1>0, <1>12, CounterType DEF Restart, Disturbances
    <2>2. /\ obj' = [k \in Kinds |-> <<Live(k)>>] /\ fresh' = FALSE
          /\ queued' \in BOOLEAN /\ timer' = FALSE
          /\ pc' = "idle" /\ wp' = Absent /\ todo' = <<>> /\ after' = ""
      BY <1>12 DEF Restart
    <2>3. \A k \in Kinds : Live(k) \in Versions(k) /\ Live(k) \in Objects
      BY <1>0, EndsOfStream, VersionsOf
    <2>4. \A k \in Kinds : <<Live(k)>> \in Seq(Versions(k)) \ {<<>>} /\ <<Live(k)>> \in Seq(Objects)
      BY <2>3
    <2>6. /\ obj' \in [Kinds -> Seq(Objects)]
          /\ \A k \in Kinds : obj'[k] \in Seq(Versions(k)) \ {<<>>}
      BY <2>2, <2>4
    <2>7. ClusterTypeOK'
      BY <2>1, <2>2, <2>6 DEF ClusterTypeOK
    <2>5. WorkerTypeOK'
      BY <2>2, EmptySeq DEF WorkerTypeOK, PCs, Reasons
    <2> QED
      BY <2>2, <2>5, <2>7, TypeParts
  <1>13. CASE \E k \in Kinds : Deliver(k)
    <2>1. PICK k \in Kinds : Deliver(k)
      BY <1>13
    <2>2. obj' = [obj EXCEPT ![k] = Tail(@)] /\ Len(obj[k]) # 1
      BY <2>1 DEF Deliver, InSync
    <2>3. /\ Tail(obj[k]) \in Seq(Versions(k)) \ {<<>>}
          /\ Tail(obj[k]) \in Seq(Objects)
      <3>1. obj[k] \in Seq(Versions(k)) /\ obj[k] \in Seq(Objects) /\ obj[k] # <<>>
        BY <1>0 DEF Streams
      <3>2. /\ Tail(obj[k]) \in Seq(Versions(k)) /\ Tail(obj[k]) \in Seq(Objects)
            /\ Len(Tail(obj[k])) = Len(obj[k]) - 1 /\ Len(obj[k]) \in Nat \ {0}
        BY <3>1, HeadTailProperties
      <3>3. Tail(obj[k]) # <<>>
        <4>1. Len(Tail(obj[k])) # 0
          BY <2>2, <3>2
        <4> QED
          BY <4>1, EmptySeq
      <3> QED
        BY <3>2, <3>3
    <2>4. ClusterTypeOK'
      BY <1>0, <2>1, <2>2, <2>3 DEF Deliver, ClusterTypeOK
    <2>5. queued' \in BOOLEAN /\ timer' \in BOOLEAN /\ UNCHANGED workerVars
      BY <1>0, <2>1 DEF Deliver, Enqueues, WorkerTypeOK
    <2> QED
      BY <1>0, <2>4, <2>5, WorkerUnchanged, TypeParts
  <1> QED
    BY <1>1, <1>2, <1>3, <1>4, <1>5, <1>6, <1>8, <1>9, <1>10, <1>11, <1>12, <1>13
       DEF Worker

-----------------------------------------------------------------------------
(* The theorem *)

\* Every step keeps the types.
LEMMA TypeInductive == TypeOK /\ [Next]_vars => TypeOK'
  <1> SUFFICES ASSUME TypeOK, [Next]_vars PROVE TypeOK'
    OBVIOUS
  <1>1. CASE Worker \/ TimerFires \/ Restart \/ \E k \in Kinds : Deliver(k)
    BY <1>1, ControllerType
  <1>2. CASE Environment /\ UNCHANGED <<queued, timer, workerVars>>
    <2>1. ClusterTypeOK'
      BY <1>2, EnvironmentType, TypeParts
    <2> QED
      BY <1>2, <2>1, TypeParts, WorkerUnchanged DEF WorkerTypeOK
  <1>3. CASE UNCHANGED vars
    <2>1. ClusterTypeOK'
      BY <1>3, ClusterUnchanged, TypeParts DEF vars
    <2> QED
      BY <1>3, <2>1, TypeParts, WorkerUnchanged DEF vars, WorkerTypeOK
  <1> QED
    BY <1>1, <1>2, <1>3 DEF Next

\* Nobody else's object has the name of the resource or of its claim, so there is
\* neither at first.
LEMMA NothingAtFirst ==
  Init => obj["WordPress"] = <<Absent>> /\ obj["MySQLPVC"] = <<Absent>>
<1> SUFFICES ASSUME Init
             PROVE  obj["WordPress"] = <<Absent>> /\ obj["MySQLPVC"] = <<Absent>>
  OBVIOUS
<1>1. PICK F \in SUBSET Preexisting :
        obj = [k \in Kinds |-> IF k \in F THEN <<NotOwned>> ELSE <<Absent>>]
  BY DEF Init, ClusterInit
<1>2. "WordPress" \notin F /\ "MySQLPVC" \notin F
  BY ClusterAssumption DEF Optional
<1>3. "WordPress" \in Kinds /\ "MySQLPVC" \in Kinds
  BY DEF Kinds
<1> QED
  BY <1>1, <1>2, <1>3

\* Everything keeps its type in every behaviour: in particular the worker is
\* idle exactly when it holds no object (Return, markFailed, persistStatus).
THEOREM TypeCorrect == Spec => []TypeOK
<1>1. Init => TypeOK
  <2> SUFFICES ASSUME Init PROVE TypeOK
    OBVIOUS
  <2> USE ClusterAssumption
  <2>1. PICK F \in SUBSET Preexisting :
          obj = [k \in Kinds |-> IF k \in F THEN <<NotOwned>> ELSE <<Absent>>]
    BY DEF Init, ClusterInit
  <2>2. \A k \in F : NotOwned \in Versions(k) /\ NotOwned \in Objects
    BY NotOwnedType DEF Versions, Objects, Optional
  <2>3. \A k \in Kinds : Absent \in Versions(k) /\ Absent \in Objects
    BY VersionsOf DEF Objects
  <2>4. ASSUME NEW k \in Kinds
        PROVE  obj[k] \in Seq(Versions(k)) \ {<<>>} /\ obj[k] \in Seq(Objects)
    <3>1. PICK v \in Versions(k) \cap Objects : obj[k] = <<v>>
      BY <2>1, <2>2, <2>3
    <3> QED
      BY <3>1
  <2>5. obj \in [Kinds -> Seq(Objects)]
    BY <2>1, <2>4
  <2>6. fresh \in BOOLEAN /\ used \in [Disturbances -> Nat]
    BY DEF Init, ClusterInit
  <2>7. ClusterTypeOK
    BY <2>4, <2>5, <2>6 DEF ClusterTypeOK
  <2>8. queued \in BOOLEAN /\ WorkerTypeOK
    BY EmptySeq DEF Init, WorkerTypeOK, PCs, Reasons
  <2> QED
    BY <2>7, <2>8, TypeParts
<1> QED
  BY <1>1, TypeInductive, PTL DEF Spec
=============================================================================
