------------------------------ MODULE Cluster ------------------------------
(***************************************************************************)
(* What surrounds the controller: the API server's stored objects, the     *)
(* watch stream that carries each object to the controller's informer      *)
(* cache, and everyone else who writes: the user, the garbage collector,   *)
(* the StatefulSet controller and the kubelets.                            *)
(*                                                                         *)
(* obj[k] is the watch stream of the one object of kind k: its head is the *)
(* version in the controller's cache, its last element the stored version, *)
(* what lies between is on its way.                                        *)
(***************************************************************************)
EXTENDS WordPressSpec

CONSTANTS
  Absent,       \* the object does not exist
  Alien,        \* content no builder of the operator produces
  Submitted,    \* the specs users submit
  Preexisting,  \* kinds of which somebody else's object may exist
  Scales,       \* replica counts an autoscaler may choose
  Passwords,    \* passwords that can be generated
  Lag,          \* how many versions a watch stream may be behind
  Budget        \* how often each kind of disturbance may happen

Workloads == {"StatefulSet", "Deployment"}

Kinds == {"WordPress", "UserSecret", "MySQLPVC"} \cup ChildKinds

Disturbances ==
  {"create", "edit", "annotate", "delete", "drift", "foreign", "secret", "flap",
   "scale", "fault", "restart", "giveup"}

VARIABLES
  obj,     \* [Kinds -> watch stream]
  fresh,   \* the WordPress version the worker holds is still the stored one
  used     \* disturbances so far

clusterVars == <<obj, fresh, used>>

Cached(k) == Head(obj[k])
Live(k)   == obj[k][Len(obj[k])]
InSync(k) == Len(obj[k]) = 1
Stream(k) == {obj[k][i] : i \in DOMAIN obj[k]}

Spend(d) == used[d] < Budget[d] /\ used' = [used EXCEPT ![d] = @ + 1]

\* Storing an identical object is no write: no new version, no watch event.
Put(k, v) ==
  IF v = Live(k)
  THEN UNCHANGED obj
  ELSE Len(obj[k]) <= Lag /\ obj' = [obj EXCEPT ![k] = Append(@, v)]

\* Every write of the WordPress object gives it a new resourceVersion.
PutWordPress(v) ==
  /\ Put("WordPress", v)
  /\ fresh' = (fresh /\ v = Live("WordPress"))

(* Results the API server gives to a call, from the version in the cache. *)
CreateResult(k) == IF Live(k) = Absent THEN "ok" ELSE "exists"
UpdateResult(k) ==
  IF Live(k) = Absent THEN "missing" ELSE IF InSync(k) THEN "ok" ELSE "conflict"
DeleteResult(k) == IF Live(k) = Absent THEN "missing" ELSE "ok"

-----------------------------------------------------------------------------
(* Records *)

Ternary == {"", "True", "False"}      \* a condition: not set, true, false

Statuses ==
  [phase: {"", "Provisioning", "Ready", "Failed"}, observed: Nat,
   ready: Ternary, database: Ternary, deployment: Ternary, ingress: Ternary]

NoStatus ==
  [phase |-> "", observed |-> 0, ready |-> "", database |-> "",
   deployment |-> "", ingress |-> ""]

\* pledge is read by properties only: the retain annotation was set when the
\* deletion was requested and has been ever since.
Resources ==
  [uid: Nat, gen: Nat, spec: Specs, retain: BOOLEAN, deleting: BOOLEAN,
   finalizer: BOOLEAN, pledge: BOOLEAN, status: Statuses]

(***************************************************************************)
(* owner:    the uid of the controlling WordPress, 0 when there is none    *)
(* pods:     what the status of a workload says of its pods: not all       *)
(*           ready, all ready as they were for an earlier content, all     *)
(*           ready                                                         *)
(* claims:   what the claim templates of a StatefulSet ask for, nothing in *)
(*           anything else                                                 *)
(* password: what a credentials Secret holds, 0 in anything else           *)
(***************************************************************************)
Children ==
  [owner: Nat, content: Contents \cup {Alien}, claims: SUBSET Sizes,
   pods: {"unready", "outdated", "ready"}, password: Nat]

\* data: the password the data directory was initialised with, 0 before that.
Volumes == [terminating: BOOLEAN, data: Nat]

Objects  == {Absent} \cup Resources \cup Children \cup Volumes

Versions(k) ==
  {Absent} \cup CASE k = "WordPress" -> Resources
                  [] k = "MySQLPVC"  -> Volumes
                  [] OTHER           -> Children

ASSUME ClusterAssumption ==
  /\ Submitted \subseteq {s \in Specs : Storable(s)}
  /\ Preexisting \subseteq Optional \cup {"UserSecret"}
  /\ Scales \subseteq Nat \ {0}
  /\ Passwords \subseteq Nat \ {0}
  /\ Lag \in Nat \ {0}
  /\ Budget \in [Disturbances -> Nat]
  /\ Alien \notin Contents
  /\ Absent \notin Resources \cup Children \cup Volumes

NotOwned ==
  [owner |-> 0, content |-> Alien, claims |-> {}, pods |-> "unready", password |-> 0]

\* A child with other content: its status still tells of the old pods.
Changed(c, content) ==
  [c EXCEPT !.content = content,
            !.pods = IF @ = "ready" /\ content # c.content THEN "outdated" ELSE @]

\* The claim as the StatefulSet controller makes it.
EmptyVolume == [terminating |-> FALSE, data |-> 0]

ClusterTypeOK ==
  /\ obj \in [Kinds -> Seq(Objects)]
  /\ \A k \in Kinds : obj[k] \in Seq(Versions(k)) \ {<<>>}
  /\ fresh \in BOOLEAN
  /\ used \in [Disturbances -> Nat]

ClusterInit ==
  /\ \E F \in SUBSET Preexisting :
       obj = [k \in Kinds |-> IF k \in F THEN <<NotOwned>> ELSE <<Absent>>]
  /\ fresh = FALSE
  /\ used = [d \in Disturbances |-> 0]

-----------------------------------------------------------------------------
(* The user *)

CreateWordPress ==
  /\ Live("WordPress") = Absent
  /\ Spend("create")
  /\ \E s \in Submitted :
       PutWordPress([uid |-> used'["create"], gen |-> 1, spec |-> s,
                     retain |-> FALSE, deleting |-> FALSE, finalizer |-> FALSE,
                     pledge |-> FALSE, status |-> NoStatus])

\* kubectl apply, edit, replace or scale: the generation counts spec changes.
EditSpec ==
  /\ Live("WordPress") # Absent
  /\ Spend("edit")
  /\ \E s \in Submitted \ {Live("WordPress").spec} :
       PutWordPress([Live("WordPress") EXCEPT !.spec = s, !.gen = @ + 1])

\* Setting or dropping the retain-data annotation: no new generation.
Annotate ==
  /\ Live("WordPress") # Absent
  /\ Spend("annotate")
  /\ PutWordPress([Live("WordPress") EXCEPT !.retain = ~@, !.pledge = FALSE])

\* With a finalizer the object is only marked (a new generation); without one
\* it is gone at once.
DeleteWordPress ==
  LET wp == Live("WordPress") IN
  /\ wp # Absent
  /\ ~wp.deleting
  /\ Spend("delete")
  /\ PutWordPress(IF wp.finalizer
                  THEN [wp EXCEPT !.deleting = TRUE, !.gen = @ + 1, !.pledge = wp.retain]
                  ELSE Absent)

\* Somebody edits or deletes a child behind the operator's back.
Drift(k) ==
  /\ Live(k) # Absent
  /\ Spend("drift")
  /\ \E v \in {Absent, Changed(Live(k), Alien)} : Put(k, v)
  /\ UNCHANGED fresh

\* Somebody creates an object of their own under the name of a child.
CreateForeign(k) ==
  /\ k \in Optional \cap Preexisting
  /\ Live(k) = Absent
  /\ Spend("foreign")
  /\ Put(k, NotOwned)
  /\ UNCHANGED fresh

\* The password Secret of an external database comes or goes.
ToggleUserSecret ==
  /\ Spend("secret")
  /\ Put("UserSecret", IF Live("UserSecret") = Absent THEN NotOwned ELSE Absent)
  /\ UNCHANGED fresh

-----------------------------------------------------------------------------
(* Other controllers *)

\* A child whose owner uid is no longer stored is deleted.
Orphaned(k) ==
  /\ Live(k) # Absent
  /\ Live(k).owner # 0
  /\ Live("WordPress") # Absent => Live("WordPress").uid # Live(k).owner

CollectGarbage(k) ==
  /\ Orphaned(k)
  /\ Put(k, Absent)
  /\ UNCHANGED <<fresh, used>>

HasPods(c) == IF c.content = Alien THEN TRUE ELSE c.content.replicas > 0

\* All pods the workload is to have are up and ready.
BecomeReady(k) ==
  /\ Live(k) # Absent
  /\ Live(k).pods # "ready"
  /\ HasPods(Live(k))
  /\ Put(k, [Live(k) EXCEPT !.pods = "ready"])
  /\ UNCHANGED <<fresh, used>>

\* The workload's controller begins to replace its pods, or to remove them.
RollOut(k) ==
  /\ Live(k) # Absent
  /\ Live(k).pods = "outdated"
  /\ Put(k, [Live(k) EXCEPT !.pods = "unready"])
  /\ UNCHANGED <<fresh, used>>

\* A pod stops being ready.
BecomeUnready(k) ==
  /\ Live(k) # Absent
  /\ Live(k).pods = "ready"
  /\ Spend("flap")
  /\ Put(k, [Live(k) EXCEPT !.pods = "unready"])
  /\ UNCHANGED fresh

\* The autoscaler of a running Deployment chooses another replica count.
Autoscale ==
  /\ Live("HPA") # Absent /\ Live("HPA").content # Alien
  /\ Live("Deployment") # Absent /\ Live("Deployment").content # Alien
  /\ Live("Deployment").content.replicas > 0
  /\ Spend("scale")
  /\ \E n \in Scales \ {Live("Deployment").content.replicas} :
       Put("Deployment", Changed(Live("Deployment"),
                                 [Live("Deployment").content EXCEPT !.replicas = n]))
  /\ UNCHANGED fresh

\* The StatefulSet controller makes the claim its pod needs. Nobody owns it.
ProvisionVolume ==
  /\ Live("StatefulSet") # Absent
  /\ Live("MySQLPVC") = Absent
  /\ Put("MySQLPVC", EmptyVolume)
  /\ UNCHANGED <<fresh, used>>

\* MySQL starts on an empty data directory and sets the password up that the
\* Secret holds; later starts leave the directory as it is.
InitialiseVolume ==
  /\ Live("StatefulSet") # Absent
  /\ Live("Secret") # Absent
  /\ Live("MySQLPVC") # Absent
  /\ ~Live("MySQLPVC").terminating
  /\ Live("MySQLPVC").data = 0
  /\ Put("MySQLPVC", [Live("MySQLPVC") EXCEPT !.data = Live("Secret").password])
  /\ UNCHANGED <<fresh, used>>

\* A deleted claim goes away when the pod using it does.
ReleaseVolume ==
  /\ Live("MySQLPVC") # Absent
  /\ Live("MySQLPVC").terminating
  /\ Put("MySQLPVC", Absent)
  /\ UNCHANGED <<fresh, used>>

Environment ==
  \/ CreateWordPress
  \/ EditSpec
  \/ Annotate
  \/ DeleteWordPress
  \/ ToggleUserSecret
  \/ Autoscale
  \/ ProvisionVolume \/ InitialiseVolume \/ ReleaseVolume
  \/ \E k \in ChildKinds : Drift(k) \/ CreateForeign(k) \/ CollectGarbage(k)
  \/ \E k \in Workloads : BecomeReady(k) \/ RollOut(k) \/ BecomeUnready(k)
=============================================================================
