--------------------------- MODULE OwnershipProofs ---------------------------
(***************************************************************************)
(* Whose children the controller deletes, for every value of the           *)
(* constants; and what a step of the system does to the watch streams.     *)
(***************************************************************************)
EXTENDS LifecycleProofs

USE DEF Resource

-----------------------------------------------------------------------------
(* The inductive invariant *)

\* The stored resource is the last one created.  No child belongs to a later
\* one, and, as long as nobody takes the name of a child, no version of a child
\* still on its way to the cache belongs to a later one than the stored child.
OrderInv ==
  /\ Resource # Absent => Resource.uid = used["create"]
  /\ \A k \in ChildKinds : \A v \in Stream(k) \ {Absent} :
       /\ v.owner <= used["create"]
       /\ (used["foreign"] = 0 /\ Live(k) # Absent) => v.owner <= Live(k).owner

-----------------------------------------------------------------------------
(* What a step does to a stream *)

Kept(k) == obj'[k] = obj[k]

Shifted(k) ==
  /\ Len(obj[k]) > 1
  /\ Len(obj'[k]) = Len(obj[k]) - 1
  /\ \A i \in 1..Len(obj'[k]) : obj'[k][i] = obj[k][i + 1]

Listed(k) == Len(obj'[k]) = 1 /\ obj'[k][1] = Live(k)

Grown(k) ==
  /\ Len(obj'[k]) = Len(obj[k]) + 1
  /\ \A i \in 1..Len(obj[k]) : obj'[k][i] = obj[k][i]
  /\ obj'[k][Len(obj[k]) + 1] = Live(k)'
  /\ Live(k)' # Live(k)

StreamStep(k) ==
  \/ (Kept(k) \/ Shifted(k) \/ Listed(k)) /\ Live(k)' = Live(k)
  \/ Grown(k)

\* The worker writes one object at most, and delivers nothing.
LEMMA WorkerWrites ==
  ASSUME Worker
  PROVE  UNCHANGED obj \/ \E k \in Kinds : \E v : Put(k, v)
  <1>0. {"WordPress", "MySQLPVC"} \cup ChildKinds \subseteq Kinds
    BY DEF Kinds
  <1>1. \A v : PutWordPress(v) => \E k \in Kinds : \E w : Put(k, w)
    BY <1>0 DEF PutWordPress
  <1>2. CASE \/ ReconcileFinished \/ RejectSpec \/ AcceptSpec
             \/ CheckUserSecret \/ UpdateStatus
    BY <1>2 DEF ReconcileFinished, RejectSpec, AcceptSpec, CheckUserSecret, UpdateStatus,
       clusterVars
  <1>3. CASE HandleDeletion
    BY <1>0, <1>3 DEF HandleDeletion
  <1>4. CASE RemoveFinalizer
    BY <1>1, <1>4 DEF RemoveFinalizer
  <1>5. CASE AddFinalizer
    <2>1. UNCHANGED obj \/ \E v : PutWordPress(v)
      BY <1>5 DEF AddFinalizer
    <2> QED
      BY <1>1, <2>1
  <1>6. CASE \E k \in ChildKinds : ApplyChild(k)
    BY <1>0, <1>6 DEF ApplyChild
  <1>7. CASE PersistStatus
    BY <1>1, <1>7 DEF PersistStatus
  <1> QED
    BY <1>2, <1>3, <1>4, <1>5, <1>6, <1>7 DEF Worker

\* One object at most is written in a step.
LEMMA NextWrites ==
  ASSUME [Next]_vars
  PROVE  \/ UNCHANGED obj \/ Restart \/ \E k \in Kinds : Deliver(k)
         \/ \E k \in Kinds : \E v : Put(k, v)
  <1>0. {"WordPress", "UserSecret", "MySQLPVC", "Deployment"} \cup ChildKinds \cup Workloads
          \subseteq Kinds
    BY DEF Kinds, Workloads, ChildKinds, DatabaseKinds, SiteKinds
  <1>1. \A v : PutWordPress(v) => \E k \in Kinds : \E w : Put(k, w)
    BY <1>0 DEF PutWordPress
  <1>2. CASE Worker
    BY <1>2, WorkerWrites
  <1>3. CASE Environment
    <2>1. CASE CreateWordPress \/ EditSpec \/ Annotate \/ DeleteWordPress
      <3>1. \E v : PutWordPress(v)
        BY <2>1 DEF CreateWordPress, EditSpec, Annotate, DeleteWordPress
      <3> QED
        BY <1>1, <3>1
    <2>2. CASE \/ ToggleUserSecret \/ Autoscale
               \/ ProvisionVolume \/ InitialiseVolume \/ ReleaseVolume
      BY <1>0, <2>2 DEF ToggleUserSecret, Autoscale, ProvisionVolume, InitialiseVolume,
         ReleaseVolume
    <2>3. CASE \E k \in ChildKinds : Drift(k) \/ CreateForeign(k) \/ CollectGarbage(k)
      BY <1>0, <2>3 DEF Drift, CreateForeign, CollectGarbage
    <2>4. CASE \E k \in Workloads : BecomeReady(k) \/ RollOut(k) \/ BecomeUnready(k)
      BY <1>0, <2>4 DEF BecomeReady, RollOut, BecomeUnready
    <2> QED
      BY <1>3, <2>1, <2>2, <2>3, <2>4 DEF Environment
  <1>4. CASE TimerFires \/ UNCHANGED vars
    BY <1>4 DEF TimerFires, vars, clusterVars
  <1> QED
    BY <1>2, <1>3, <1>4 DEF Next

\* A write leaves a stream alone or adds a version that was not the stored one.
LEMMA PutGrows ==
  ASSUME TypeOK, NEW j \in Kinds, NEW v, Put(j, v), NEW k \in Kinds
  PROVE  Kept(k) \/ Grown(k)
  <1>0. obj \in [Kinds -> Seq(Objects)] /\ obj[k] \in Seq(Objects)
    BY DEF TypeOK, ClusterTypeOK
  <1>1. CASE v = Live(j) \/ j # k
    BY <1>0, <1>1 DEF Put, Kept
  <1>2. CASE v # Live(j) /\ j = k
    <2> DEFINE s == obj[k]
    <2>1. obj'[k] = Append(s, v)
      BY <1>0, <1>2 DEF Put
    <2>2. /\ Len(Append(s, v)) = Len(s) + 1
          /\ \A i \in 1..Len(s) : Append(s, v)[i] = s[i]
          /\ Append(s, v)[Len(s) + 1] = v
      BY <1>0
    <2>3. Live(k)' = v
      BY <1>2, PutLive
    <2> QED
      BY <1>2, <2>1, <2>2, <2>3 DEF Grown
  <1> QED
    BY <1>1, <1>2

\* A stream is left alone, loses its head to the cache, is listed anew, or has
\* a new version at its end.
LEMMA NextStreamStep ==
  ASSUME TypeOK, [Next]_vars, NEW k \in Kinds
  PROVE  StreamStep(k)
  <1>0. /\ obj \in [Kinds -> Seq(Objects)] /\ obj[k] \in Seq(Objects) /\ obj[k] # <<>>
        /\ Len(obj[k]) \in Nat /\ Len(obj[k]) # 0
    BY DEF TypeOK, ClusterTypeOK
  <1>1. ASSUME Kept(k) PROVE StreamStep(k)
    BY Zenon, <1>1 DEF StreamStep, Kept, Live
  <1>2. CASE UNCHANGED obj
    BY <1>1, <1>2 DEF Kept
  <1>3. CASE Restart
    <2>1. obj'[k] = <<Live(k)>>
      BY <1>3 DEF Restart
    <2> QED
      BY <2>1 DEF StreamStep, Listed, Live
  <1>4. ASSUME NEW j \in Kinds, Deliver(j)
        PROVE  StreamStep(k)
    <2>1. CASE j # k
      BY <1>0, <1>1, <1>4, <2>1 DEF Deliver, Kept
    <2>2. CASE j = k
      <3> DEFINE s == obj[k]
      <3>1. obj'[k] = Tail(s) /\ Len(s) # 1
        BY <1>0, <1>4, <2>2 DEF Deliver, InSync
      <3>2. Len(Tail(s)) = Len(s) - 1 /\ \A i \in 1..Len(Tail(s)) : Tail(s)[i] = s[i + 1]
        BY <1>0
      <3>3. \A n \in Nat : n # 0 /\ n # 1 => n > 1 /\ n - 1 \in 1..(n - 1) /\ (n - 1) + 1 = n
        OBVIOUS
      <3>4. Tail(s)[Len(Tail(s))] = s[Len(s)] /\ Len(s) > 1
        BY <1>0, <3>1, <3>2, <3>3
      <3> QED
        BY <3>1, <3>2, <3>4 DEF StreamStep, Shifted, Live
    <2> QED
      BY <2>1, <2>2
  <1>5. ASSUME NEW j \in Kinds, NEW v, Put(j, v)
        PROVE  StreamStep(k)
    BY <1>1, <1>5, PutGrows DEF StreamStep
  <1> QED
    BY <1>2, <1>3, <1>4, <1>5, NextWrites

\* The cached and the stored version are among those of the stream.
LEMMA LiveInStream ==
  ASSUME TypeOK, NEW k \in Kinds
  PROVE  Live(k) \in Stream(k) /\ Cached(k) \in Stream(k)
  <1>1. obj[k] \in Seq(Objects) /\ Len(obj[k]) \in Nat /\ Len(obj[k]) # 0
    BY DEF TypeOK, ClusterTypeOK
  <1>2. 1 \in DOMAIN obj[k] /\ Len(obj[k]) \in DOMAIN obj[k] /\ Head(obj[k]) = obj[k][1]
    BY <1>1
  <1> QED
    BY <1>2 DEF Stream, Live, Cached

\* The versions of a child are children.
LEMMA ChildVersions ==
  ASSUME TypeOK, NEW k \in ChildKinds
  PROVE  \A v \in Stream(k) \ {Absent} : v \in Children /\ v.owner \in Nat
  <1>1. obj[k] \in Seq({Absent} \cup Children)
    BY VersionsOf, Apart DEF TypeOK, ClusterTypeOK
  <1>2. \A i \in DOMAIN obj[k] : obj[k][i] \in {Absent} \cup Children
    BY <1>1
  <1>3. \A v \in Children : v.owner \in Nat
    BY DEF Children
  <1> QED
    BY <1>2, <1>3 DEF Stream

\* So the only new version is the one stored.
LEMMA StreamGrows ==
  ASSUME TypeOK, [Next]_vars, NEW k \in Kinds
  PROVE  Stream(k)' \subseteq Stream(k) \cup {Live(k)'}
  <1>0. /\ obj[k] \in Seq(Objects) /\ obj'[k] \in Seq(Objects)
        /\ Len(obj[k]) \in Nat /\ Len(obj[k]) # 0
    BY TypeInductive DEF TypeOK, ClusterTypeOK
  <1>1. /\ Stream(k) = {obj[k][i] : i \in 1..Len(obj[k])}
        /\ Stream(k)' = {obj'[k][i] : i \in 1..Len(obj'[k])}
    BY <1>0 DEF Stream
  <1>2. StreamStep(k)
    BY NextStreamStep
  <1>3. CASE Kept(k)
    BY <1>1, <1>3 DEF Kept
  <1>4. CASE Shifted(k)
    <2>1. \A i \in 1..Len(obj'[k]) : i + 1 \in 1..Len(obj[k]) /\ obj'[k][i] = obj[k][i + 1]
      BY <1>0, <1>4 DEF Shifted
    <2> QED
      BY <1>1, <2>1
  <1>5. CASE Listed(k)
    <2>1. Len(obj[k]) \in 1..Len(obj[k]) /\ \A i \in 1..Len(obj'[k]) : i = 1
      BY <1>0, <1>5 DEF Listed
    <2> QED
      BY <1>1, <1>5, <2>1 DEF Listed, Live
  <1>6. CASE Grown(k)
    <2>1. \A i \in 1..Len(obj'[k]) : i \in 1..Len(obj[k]) \/ i = Len(obj[k]) + 1
      BY <1>0, <1>6 DEF Grown
    <2> QED
      BY <1>1, <1>6, <2>1 DEF Grown
  <1> QED
    BY <1>2, <1>3, <1>4, <1>5, <1>6 DEF StreamStep

\* Only the version just stored is new.
LEMMA SeenGrows ==
  ASSUME TypeOK, TypeOK', [Next]_vars
  PROVE  Seen' \subseteq Seen \cup {Resource'}
  <1>0. "WordPress" \in Kinds
    BY DEF Kinds
  <1>1. Stream("WordPress")' \subseteq Stream("WordPress") \cup {Resource'}
    BY <1>0, StreamGrows
  <1>2. obj["WordPress"] \in Seq(Objects) /\ obj'["WordPress"] \in Seq(Objects)
    BY <1>0 DEF TypeOK, ClusterTypeOK
  <1>3. Seen = Stream("WordPress") /\ Seen' = Stream("WordPress")'
    BY <1>2 DEF Seen, Stream
  <1> QED
    BY <1>1, <1>3

-----------------------------------------------------------------------------
(* Owners *)

\* A step counts at most one disturbance, and a creation only when there is no
\* resource.
LEMMA NextCounts ==
  ASSUME [Next]_vars
  PROVE  UNCHANGED used \/ \E d : Spend(d) /\ (d = "create" => Resource = Absent)
  <1> DEFINE Counts == UNCHANGED used \/ \E d : Spend(d) /\ (d = "create" => Resource = Absent)
  <1>1. \A d : Spend(d) /\ d # "create" => Counts
    OBVIOUS
  <1>2. \A r : Charge(r) => Counts
    BY DEF Charge
  <1>3. UNCHANGED used => Counts
    OBVIOUS
  <1>4. CreateWordPress => Counts
    BY DEF CreateWordPress
  <1> SUFFICES Counts
    OBVIOUS
  <1> HIDE DEF Counts
  <1>5. CASE Environment /\ ~CreateWordPress
    <2>1. UNCHANGED used \/ \E d \in {"edit", "annotate", "delete", "drift", "foreign",
                                       "secret", "flap", "scale"} : Spend(d)
      BY Zenon, <1>5 DEF Environment, EditSpec, Annotate, DeleteWordPress,
         ToggleUserSecret, Autoscale, ProvisionVolume, InitialiseVolume, ReleaseVolume, Drift,
         CreateForeign, CollectGarbage, BecomeReady, RollOut, BecomeUnready
    <2> QED
      BY <1>1, <1>3, <2>1
  <1>6. CASE Worker
    <2>1. CASE \/ ReconcileFinished \/ RejectSpec \/ AcceptSpec
               \/ CheckUserSecret \/ UpdateStatus
      BY <1>3, <2>1 DEF ReconcileFinished, RejectSpec, AcceptSpec, CheckUserSecret,
         UpdateStatus, clusterVars
    <2>2. CASE HandleDeletion
      BY <1>2, <1>3, <2>2 DEF HandleDeletion
    <2>3. CASE RemoveFinalizer
      BY <1>2, <2>3 DEF RemoveFinalizer
    <2>4. CASE AddFinalizer
      <3>1. \E r : Charge(r)
        BY <2>4 DEF AddFinalizer
      <3> QED
        BY <1>2, <3>1
    <2>5. CASE \E k \in ChildKinds : ApplyChild(k)
      BY <1>2, <2>5 DEF ApplyChild
    <2>6. CASE PersistStatus
      BY <1>1, <1>2, <2>6 DEF PersistStatus
    <2> QED
      BY <1>6, <2>1, <2>2, <2>3, <2>4, <2>5, <2>6 DEF Worker
  <1>7. CASE TimerFires \/ Restart \/ (\E k \in Kinds : Deliver(k)) \/ UNCHANGED vars
    BY <1>1, <1>3, <1>7 DEF TimerFires, Restart, Deliver, vars, clusterVars
  <1> QED
    BY <1>4, <1>5, <1>6, <1>7 DEF Next

\* So nothing is counted down, and a stored resource is the last one counted.
LEMMA CountsGrow ==
  ASSUME TypeOK, [Next]_vars
  PROVE  /\ used["create"] \in Nat /\ used'["create"] \in Nat
         /\ used["create"] <= used'["create"]
         /\ Resource # Absent => used'["create"] = used["create"]
         /\ \A e \in Disturbances : used'[e] = 0 => used[e] = 0
  <1>0. /\ used \in [Disturbances -> Nat] /\ "create" \in Disturbances
        /\ \A e \in Disturbances : used[e] \in Nat
    BY DEF TypeOK, ClusterTypeOK, Disturbances
  <1>1. CASE UNCHANGED used
    BY <1>0, <1>1
  <1>2. ASSUME NEW d, Spend(d), d = "create" => Resource = Absent
        PROVE  /\ used'["create"] \in Nat /\ used["create"] <= used'["create"]
               /\ Resource # Absent => used'["create"] = used["create"]
               /\ \A e \in Disturbances : used'[e] = 0 => used[e] = 0
    <2>1. used' = [used EXCEPT ![d] = used[d] + 1]
      BY <1>2 DEF Spend
    <2>2. \A e \in Disturbances : used'[e] = IF e = d THEN used[e] + 1 ELSE used[e]
      BY <1>0, <2>1
    <2>3. \A n \in Nat : n + 1 \in Nat /\ n + 1 # 0 /\ n <= n + 1 /\ n <= n
      OBVIOUS
    <2>4. \A e \in Disturbances : used'[e] = 0 => used[e] = 0
      BY <1>0, <2>2, <2>3
    <2>5. used'["create"] = IF d = "create" THEN used["create"] + 1 ELSE used["create"]
      BY <1>0, <2>2
    <2> QED
      BY <1>0, <1>2, <2>3, <2>4, <2>5
  <1> QED
    BY <1>0, <1>1, <1>2, NextCounts

\* The invariant holds at first and every step keeps it.
LEMMA OrderInductive ==
  /\ Init => OrderInv
  /\ TypeOK /\ FinalizerInv /\ OrderInv /\ [Next]_vars => OrderInv'
<1>1. Init => OrderInv
  <2> SUFFICES ASSUME Init PROVE OrderInv
    OBVIOUS
  <2>1. obj["WordPress"] = <<Absent>>
    BY NothingAtFirst
  <2>2. \A k \in ChildKinds : obj[k] = <<NotOwned>> \/ obj[k] = <<Absent>>
    BY Apart DEF Init, ClusterInit
  <2>3. \A k \in ChildKinds : Stream(k) = {NotOwned} \/ Stream(k) = {Absent}
    BY <2>2 DEF Stream
  <2>4. \A k \in ChildKinds : Live(k) = NotOwned \/ Live(k) = Absent
    BY <2>2 DEF Live
  <2>5. Resource = Absent
    BY <2>1 DEF Live
  <2>6. used["create"] = 0 /\ NotOwned.owner = 0
    BY DEF Init, ClusterInit, Disturbances, NotOwned
  <2> QED
    BY <2>3, <2>4, <2>5, <2>6 DEF OrderInv
<1>2. ASSUME TypeOK, FinalizerInv, OrderInv, [Next]_vars
      PROVE  OrderInv'
  <2>1. TypeOK' /\ ResourceStep /\ StoredStep
    BY <1>2, TypeInductive, NextResourceStep, NextStoredStep
  <2>2. /\ used["create"] \in Nat /\ used'["create"] \in Nat
        /\ used["create"] <= used'["create"]
        /\ Resource # Absent => used'["create"] = used["create"]
        /\ used'["foreign"] = 0 => used["foreign"] = 0
    BY <1>2, CountsGrow DEF Disturbances
  <2>3. Resource' # Absent => Resource'.uid = used'["create"]
    BY <1>2, <2>1, <2>2, ClusterAssumption
       DEF OrderInv, ResourceStep, Same, Writes, Unmarked, Marked, Held
  <2>4. ASSUME NEW k \in ChildKinds
        PROVE  \A v \in Stream(k)' \ {Absent} :
                 /\ v.owner <= used'["create"]
                 /\ (used'["foreign"] = 0 /\ Live(k)' # Absent) => v.owner <= Live(k)'.owner
    <3>1. Stream(k)' \subseteq Stream(k) \cup {Live(k)'} /\ Live(k) \in Stream(k)
      BY <1>2, Apart, StreamGrows, LiveInStream
    <3>3. \A v \in Stream(k) \ {Absent} : v.owner \in Nat
      BY <1>2, ChildVersions
    <3>4. CASE Live(k)' = Live(k)
      BY <1>2, <2>2, <3>1, <3>3, <3>4 DEF OrderInv
    <3>5. CASE ChildStep(k)
      <4>1. CASE Live(k)' = Absent
        BY <1>2, <2>2, <3>1, <3>3, <4>1 DEF OrderInv
      <4>2. CASE Live(k) # Absent /\ Live(k)' # Absent /\ Live(k)'.owner = Live(k).owner
        BY <1>2, <2>2, <3>1, <3>3, <4>2 DEF OrderInv
      <4>3. CASE Live(k)' # Absent /\ Live(k)'.owner = 0 /\ used'["foreign"] # 0
        BY <1>2, <2>2, <3>1, <3>3, <4>3 DEF OrderInv
      <4>4. CASE Live(k)' # Absent /\ Held(Resource) /\ Live(k)'.owner = Resource.uid
        <5>1. Live(k)'.owner = used["create"] /\ used'["create"] = used["create"]
          BY <1>2, <2>2, <4>4 DEF OrderInv, Held
        <5> QED
          BY <1>2, <2>2, <3>1, <3>3, <5>1 DEF OrderInv
      <4> QED
        BY <3>5, <4>1, <4>2, <4>3, <4>4 DEF ChildStep
    <3>6. ASSUME NEW j \in ChildKinds \ {k}, ChildStep(j)
          PROVE  Live(k)' = Live(k)
      BY <3>6, Apart DEF ChildStep, Only
    <3>7. Untouched \/ Only("WordPress") \/ Only("UserSecret") \/ VolumeStep
            => Live(k)' = Live(k)
      BY Apart DEF Untouched, Only, VolumeStep
    <3> QED
      BY <2>1, <3>4, <3>5, <3>6, <3>7 DEF StoredStep
  <2> QED
    BY <2>3, <2>4 DEF OrderInv
<1> QED
  BY <1>1, <1>2

\* Unless somebody takes the name of a child while the controller is at it, the
\* child that reconcileIngress or reconcileHPA deletes by name belongs to the
\* resource of the pass, although the look at its owner was at a cached copy.
THEOREM OnlyOwnAlwaysDeleted == Spec => OnlyOwnDeleted
<1> DEFINE Gone(k) == ApplyChild(k) /\ used["foreign"] = 0 /\ Live(k) # Absent /\ Live(k)' = Absent
           A == \A k \in Optional : Gone(k) => Live(k).owner = wp.uid
<1>1. ASSUME TypeOK, FinalizerInv, OrderInv, NEW k \in Optional, Gone(k)
      PROVE  Live(k).owner = wp.uid
  <2>1. k \in ChildKinds /\ k \in Kinds
    BY DEF Optional, Kinds, ChildKinds, SiteKinds
  <2>2. pc = "children" /\ wp \in Resources
    BY <1>1 DEF ApplyChild, TypeOK
  <2>3. Resource # Absent /\ wp.uid = used["create"]
    BY <1>1, <2>2 DEF FinalizerInv, FinalizerHeld, OrderInv
  <2>4. Call(k) = "delete"
    <3>1. PICK r, p : (Put(k, Written(k, p)) /\ p \in Generated) \/ UNCHANGED obj
      BY <1>1 DEF ApplyChild
    <3>2. Put(k, Written(k, p)) /\ p \in Generated
      BY <1>1, <3>1 DEF Live
    <3>3. Written(k, p) = Absent
      BY <1>1, <2>1, <3>2, PutLive
    <3>4. /\ Live(k) \in Children /\ Render(k, wp.spec) \in Contents /\ wp.uid \in Nat
          /\ ClaimTemplates(k, wp.spec) \in SUBSET Sizes
      BY <1>1, <2>1, <2>2, ResourceVersions, SpecOperators DEF TypeOK, Resources
    <3>5. Password(k, p) \in Nat
      BY <3>2, ClusterAssumption DEF Generated, Password
    <3>6. Call(k) = "create" => Written(k, p) \in Children
      BY <3>4, <3>5 DEF Written, Children
    <3>7. Call(k) = "update" => Written(k, p) \in Children
      BY <3>4, <3>5, ObjectUpdates DEF Written
    <3>8. Call(k) \in {"create", "update", "delete", "none"}
      BY DEF Call
    <3> QED
      BY <1>1, <3>3, <3>6, <3>7, <3>8, ClusterAssumption DEF Written
  <2>5. Cached(k) # Absent /\ Cached(k).owner = wp.uid
    BY <2>4, Zenon DEF Call, IsControlledBy
  <2>6. Cached(k) \in Stream(k) /\ Live(k) \in Stream(k)
    BY <1>1, <2>1, LiveInStream
  <2>7. Cached(k).owner <= Live(k).owner /\ Live(k).owner <= used["create"]
    BY <1>1, <2>1, <2>5, <2>6 DEF OrderInv
  <2>8. Live(k).owner \in Nat /\ used["create"] \in Nat
    BY <1>1, <2>1, <2>6, ChildVersions DEF TypeOK, ClusterTypeOK, Disturbances
  <2> QED
    BY <2>3, <2>5, <2>7, <2>8
<1>2. TypeOK /\ FinalizerInv /\ OrderInv => A
  BY <1>1
<1> QED
  BY <1>2, TypeCorrect, FinalizerInductive, OrderInductive, PTL DEF Spec, OnlyOwnDeleted
=============================================================================
