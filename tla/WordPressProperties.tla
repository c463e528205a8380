------------------------ MODULE WordPressProperties ------------------------
(***************************************************************************)
(* What the operator must keep true of the cluster.                        *)
(***************************************************************************)
EXTENDS WordPressController

Resource == Live("WordPress")

\* The spec the operator works from, defaults included.
Desired == applyDefaults(Resource.spec)

\* The children a pass visits for that spec.
Visited == {SitePlan[i] : i \in DOMAIN SitePlan} \cup
           IF Desired.mode = "External" THEN {}
           ELSE {DatabasePlan[i] : i \in DOMAIN DatabasePlan}

Running == Resource # Absent /\ ~Resource.deleting

-----------------------------------------------------------------------------
(* The finalizer *)

\* A pass that looks at children or writes the status does so for a stored
\* resource of the same uid that carries the finalizer: it cannot vanish while
\* the pass runs, even though the pass reads it from a cache. This is what
\* "ensure the finalizer is registered" before anything else buys.
FinalizerHeld ==
  pc \in {"secret", "children", "persist"} =>
    /\ Resource # Absent
    /\ Resource.uid = wp.uid
    /\ Resource.finalizer

\* A child is only ever created for the stored incarnation of its owner, so
\* none is born an orphan and none carries the uid of a predecessor.
CreatedForLiveOwner ==
  [][\A k \in ChildKinds :
       (Live(k) = Absent /\ Live(k)' # Absent) =>
         \/ Live(k)'.owner = 0
         \/ Resource # Absent /\ Resource.uid = Live(k)'.owner]_vars

\* The operator never deletes the MySQL claim of a resource whose retain
\* annotation was set when its deletion was requested and stayed set, however
\* old the cached copy it decides on (handleDeletion).
RetainHonoured ==
  [][(HandleDeletion /\ Resource # Absent /\ Resource.pledge)
       => UNCHANGED Live("MySQLPVC")]_vars

-----------------------------------------------------------------------------
(* The life of a resource *)

Stage ==
  IF Resource = Absent THEN "absent"
  ELSE IF ~Resource.finalizer THEN "loose"
  ELSE IF Resource.deleting THEN "leaving" ELSE "held"

Promise == Resource # Absent /\ Resource.pledge

Claim ==
  IF Live("MySQLPVC") = Absent THEN "none"
  ELSE IF Live("MySQLPVC").terminating THEN "going" ELSE "kept"

Owned(k) == Resource # Absent /\ Live(k) # Absent /\ Live(k).owner = Resource.uid

Life == INSTANCE Lifecycle
  WITH Parts <- ChildKinds, stage <- Stage, promise <- Promise, claim <- Claim,
       site <- {k \in ChildKinds : Owned(k)}

\* The stored objects live as Lifecycle says: the site is built only for a
\* resource that has the finalizer, which goes only after a deletion request;
\* data are given up neither under a resource in use nor against the retain
\* annotation, however old the copies the controller acts on (Reconcile,
\* handleDeletion).
ImplementsLifecycle == Life!Spec

-----------------------------------------------------------------------------
(* Convergence *)

Ready(k) == Live(k) # Absent /\ Live(k).pods = "ready"

\* Nothing is pending: no key, no timer, no event, no garbage to collect, no
\* pod on its way. Only a user can make anything happen now.
Quiescent ==
  /\ pc = "idle" /\ ~queued /\ ~timer
  /\ \A k \in Kinds : InSync(k)
  /\ \A k \in ChildKinds : ~Orphaned(k)
  /\ \A k \in Workloads :
       Live(k) # Absent => Live(k).pods = IF HasPods(Live(k)) THEN "ready" ELSE "unready"

\* The child is what the spec asks for, in all that an update sets: the claim
\* templates of a StatefulSet stay as they were made (StorageAsSubmitted). With
\* autoscaling on, the spec does not say how many replicas the Deployment has.
Matches(k) ==
  IF k = "Deployment" /\ Desired.hpa = "on" /\ Live(k).content # Alien
  THEN [Live(k).content EXCEPT !.replicas = 0] = [Render(k, Desired) EXCEPT !.replicas = 0]
  ELSE Live(k).content = Render(k, Desired)

Settled(k) ==
  LET c == Live(k) IN
  IF Wants(k, Desired)
  THEN /\ c # Absent
       /\ (c.owner = Resource.uid /\ k \notin CreateOnly) => Matches(k)
  ELSE k \in Optional /\ c # Absent => c.owner # Resource.uid

\* When nothing is pending, every wanted child exists, in all that an update sets
\* as the stored spec asks, and the optional ones that were switched off are
\* gone. What is only ever created (the Secret, the content claim, the claim
\* templates of the StatefulSet) does not follow an edit.
ChildrenConverge ==
  (Quiescent /\ Running /\ validateSpec(Desired)) => \A k \in Visited : Settled(k)

\* Nobody else's object has the name of an Ingress or autoscaler: changes of
\* such an object raise no event.
NoIntruder == \A k \in Optional : Live(k) # Absent => Live(k).owner # 0

\* When nothing is pending, the stored status tells the truth: a valid spec is
\* Ready as of its own generation with its workloads up, an invalid one Failed
\* (updateStatus, markFailed).
StatusConverges ==
  (Quiescent /\ Running /\ NoIntruder) =>
    IF validateSpec(Desired)
    THEN /\ Resource.status.phase = "Ready"
         /\ Resource.status.ready = "True"
         /\ Resource.status.observed = Resource.gen
         /\ Ready("Deployment")
         /\ Desired.mode = "Internal" => Ready("StatefulSet")
    ELSE Resource.status.phase = "Failed" /\ Resource.status.ready = "False"

\* When nothing is pending, a resource without an Ingress of its own does not
\* report one as configured.
IngressConditionConverges ==
  (Quiescent /\ Running /\ validateSpec(Desired) /\ ~Wants("Ingress", Desired))
    => Resource.status.ingress = ""

\* A resource that reports its own generation as observed has the workloads of
\* that generation, unless somebody else or an autoscaler interfered: pod
\* templates, replica counts and Services, not the claim templates, of which an
\* edit is observed and never rendered (reconcileDatabase).
ObservedMeansRendered ==
  (/\ Running /\ Resource.status.observed = Resource.gen
   /\ used["drift"] = 0 /\ used["scale"] = 0) =>
    \A k \in Visited \cap ServerDefaulted :
      (Live(k) # Absent /\ Live(k).owner = Resource.uid) =>
        Matches(k)

\* As long as no spec has been edited, the StatefulSet of a resource asks for the
\* storage of its spec: it was made for this resource, from whichever cached
\* copy, and one that a predecessor has left behind is updated while it lasts but
\* never taken over (reconcileDatabase).
StorageAsSubmitted ==
  (used["edit"] = 0 /\ Owned("StatefulSet")) =>
    Live("StatefulSet").claims = ClaimTemplates("StatefulSet", Resource.spec)

\* When nothing is pending, data that nobody asked to retain can be opened with
\* the stored password: passwords are generated "only on first creation"
\* (buildMySQLSecret), and the claim goes with its resource (handleDeletion).
DataOpens ==
  LET claim == Live("MySQLPVC") IN
  (Quiescent /\ claim # Absent /\ ~claim.terminating /\ claim.data # 0) =>
    Live("Secret") # Absent /\ Live("Secret").password = claim.data

\* While autoscaling is on, the autoscaler alone decides how many replicas the
\* Deployment has (buildWordPressDeployment).
AutoscalerDecides ==
  [][(/\ ApplyChild("Deployment")
      /\ wp.spec.hpa = "on" /\ Live("HPA") # Absent
      /\ Live("Deployment") # Absent /\ Live("Deployment").content # Alien)
       => Live("Deployment")'.content.replicas = Live("Deployment").content.replicas]_vars

\* The operator deletes only children that its resource controls.
OnlyOwnDeleted ==
  [][\A k \in Optional :
       (ApplyChild(k) /\ used["foreign"] = 0 /\ Live(k) # Absent /\ Live(k)' = Absent)
         => Live(k).owner = wp.uid]_vars

\* The operator never writes the spec the user stored.
SpecUntouched ==
  [][(Worker /\ Resource # Absent /\ Resource' # Absent)
       => Resource'.spec = Resource.spec]_vars

\* Ready means that the database is ready.
ReadyImpliesDatabase ==
  (Running /\ Resource.status.ready = "True") => Resource.status.database = "True"

-----------------------------------------------------------------------------
(* Liveness *)

Servable ==
  /\ Running
  /\ validateSpec(Desired)
  /\ Desired.mode = "External" => Live("UserSecret") # Absent

\* A site scaled to zero is served by being reported as not ready.
Served ==
  /\ Resource.status.ready =
       IF Replicas("Deployment", Desired) > 0 THEN "True" ELSE "False"
  /\ Resource.status.observed = Resource.gen
  /\ \A k \in Visited : Settled(k)

\* A valid resource that stays is eventually served for good.
Converges ==
  <>[]Servable => <>[](Running /\ Served)

\* A resource that is being deleted eventually goes.
DeletionCompletes == (Resource # Absent /\ ~Running) ~> (Resource = Absent \/ Running)
=============================================================================
