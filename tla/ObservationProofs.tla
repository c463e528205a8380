-------------------------- MODULE ObservationProofs --------------------------
(***************************************************************************)
(* What the observed generation is worth, for every value of the           *)
(* constants: it is reported by a pass that worked from a cached copy, on  *)
(* a resource that may have changed since, by a write that may be lost.    *)
(***************************************************************************)
EXTENDS ConvergenceProofs

USE DEF Resource

-----------------------------------------------------------------------------
(* The inductive invariant *)

\* What an earlier version v tells of a later one w: generations are counted up
\* and identify the spec, and what w reports as observed v has already.
Before(v, w) ==
  w # Absent =>
    /\ (v # Absent /\ v.uid = w.uid) =>
         v.gen <= w.gen /\ (v.gen = w.gen => v.spec = w.spec)
    /\ w.status.observed # 0 =>
         v # Absent /\ v.uid = w.uid /\ w.status.observed <= v.gen

GenerationInv ==
  /\ \A v \in Seen \ {Absent} : 0 < v.gen /\ v.uid <= used["create"]
  /\ \A j \in 1..Len(obj["WordPress"]) : \A i \in 1..j :
       Before(obj["WordPress"][i], obj["WordPress"][j])

\* A pass works from a version no later than any it will ever see, and nothing
\* later has been reported.
PassInv ==
  /\ Passing =>
       /\ wp.status.observed <= wp.gen
       /\ \A v \in Seen \ {Absent} : v.uid = wp.uid =>
            /\ wp.gen <= v.gen /\ (wp.gen = v.gen => wp.spec = applyDefaults(v.spec))
            /\ v.status.observed <= wp.gen
  /\ pc = "secret" => wp.spec.mode = "External"

Rendered(k) ==
  (Live(k) # Absent /\ Live(k).owner = Resource.uid) => Live(k).content = Render(k, Desired)

Reflected == Visited \cap ServerDefaulted

AllRendered == \A k \in Reflected : Rendered(k)

\* Nobody but the operator has changed a child.
Undrifted == used["drift"] = 0 /\ used["scale"] = 0

Reported ==
  \/ \E v \in Seen \ {Absent} : v.uid = Resource.uid /\ v.status.observed = Resource.gen
  \/ Passing /\ wp.status.observed = Resource.gen

\* What is reported, or about to be, is so; and a pass for the stored generation
\* has rendered the children it no longer has before it.
RenderedInv ==
  (Undrifted /\ Resource # Absent) =>
    /\ Reported => AllRendered
    /\ (pc = "children" /\ wp.gen = Resource.gen) =>
         \A k \in Reflected : Rendered(k) \/ \E i \in 1..Len(todo) : todo[i] = k

ObservationInv == GenerationInv /\ PassInv /\ RenderedInv

-----------------------------------------------------------------------------
(* Generations *)

\* The numbers in the versions of the resource.
LEMMA VersionNumbers ==
  ASSUME TypeOK
  PROVE  /\ \A v \in Seen \ {Absent} :
              /\ v \in Resources /\ v.uid \in Nat /\ v.gen \in Nat
              /\ v.status.observed \in Nat
         /\ pc # "idle" =>
              /\ wp \in Resources /\ wp.uid \in Nat /\ wp.gen \in Nat
              /\ wp.status \in Statuses /\ wp.status.observed \in Nat
         /\ Resource \in Seen /\ Cached("WordPress") \in Seen
  <1>1. \A v \in Resources : /\ v.uid \in Nat /\ v.gen \in Nat /\ v.status \in Statuses
                             /\ v.status.observed \in Nat
    BY DEF Resources, Statuses
  <1>2. pc # "idle" => wp \in Resources
    BY DEF TypeOK
  <1> QED
    BY <1>1, <1>2, SeenEnds

\* A version just stored relates to those before it as the last one did.
LEMMA LaterVersion ==
  ASSUME TypeOK, TypeOK', FinalizerInv, PassInv, ResourceHistory,
         Resource # Absent => 0 < Resource.gen /\ Before(Resource, Resource),
         NEW v \in Seen, Before(v, Resource), v # Absent => v.uid <= used["create"],
         used["create"] \in Nat, InSync("WordPress") => v = Resource
  PROVE  /\ Before(v, Resource') /\ Before(Resource', Resource')
         /\ Resource' # Absent => 0 < Resource'.gen
  <1>0. /\ v # Absent => v.uid \in Nat /\ v.gen \in Nat
        /\ Resource # Absent =>
             Resource.uid \in Nat /\ Resource.gen \in Nat /\ Resource.status.observed \in Nat
    BY VersionNumbers
  <1>1. CASE Resource' = Resource
    BY <1>1 DEF Before
  <1>2. CASE Resource' = Absent
    BY <1>2 DEF Before
  <1>3. CASE Created
    <2>1. /\ Resource' # Absent /\ Resource'.gen = 1 /\ Resource'.uid = used["create"] + 1
          /\ Resource'.status.observed = 0
      <3>1. NoStatus.observed = 0
        BY DEF NoStatus
      <3> QED
        BY <1>3, <3>1, Zenon DEF Created
    <2>2. \A m, n \in Nat : m <= n => m # n + 1
      OBVIOUS
    <2>3. v # Absent => v.uid # Resource'.uid
      BY <1>0, <2>1, <2>2
    <2>4. Before(v, Resource')
      BY <2>1, <2>3 DEF Before
    <2>5. Before(Resource', Resource')
      BY <2>1 DEF Before
    <2> QED
      BY <2>1, <2>4, <2>5
  <1>4. CASE Revised /\ Resource'.status = Resource.status
    <2>1. /\ Resource # Absent /\ Resource' # Absent /\ Resource'.uid = Resource.uid
          /\ Resource'.status.observed = Resource.status.observed
      BY <1>4 DEF Revised
    <2>2. \/ Resource'.gen = Resource.gen /\ Resource'.spec = Resource.spec
          \/ Resource'.gen = Resource.gen + 1
      BY <1>4 DEF Revised
    <2>3. \A m, n \in Nat : m <= n => m <= n + 1 /\ m # n + 1
      OBVIOUS
    <2>4. /\ Resource'.gen \in Nat /\ 0 < Resource'.gen
          /\ Resource.status.observed # 0 => Resource.status.observed <= Resource'.gen
      BY <1>0, <2>1, <2>2, <2>3 DEF Before
    <2>5. Before(Resource', Resource')
      BY <2>1, <2>4 DEF Before
    <2>6. Before(v, Resource')
      BY <1>0, <2>1, <2>2, <2>3 DEF Before
    <2> QED
      BY <2>4, <2>5, <2>6
  <1>5. CASE Revised /\ StatusWritten
    <2>1. /\ v = Resource /\ Resource # Absent /\ Resource' # Absent
          /\ Resource'.uid = Resource.uid /\ Resource'.gen = Resource.gen
          /\ Resource'.status = wp.status
      BY <1>5 DEF Revised, StatusWritten
    <2>2. Resource'.spec = Resource.spec
      BY <1>0, <1>5, <2>1 DEF Revised
    <2>3. pc = "persist"
      BY <1>5 DEF StatusWritten, PersistStatus
    <2>4. wp.status.observed <= wp.gen /\ wp.gen <= Resource.gen
      BY <2>1, <2>3, VersionNumbers DEF PassInv, Passing, FinalizerInv, FinalizerHeld
    <2>5. wp.status.observed \in Nat /\ wp.gen \in Nat
      BY <2>3, VersionNumbers
    <2> QED
      BY <1>0, <2>1, <2>2, <2>4, <2>5 DEF Before
  <1> QED
    BY <1>1, <1>2, <1>3, <1>4, <1>5 DEF ResourceHistory

\* The order of the generations is kept: a write adds a later version, events
\* and restarts drop earlier ones.
LEMMA GenerationStep ==
  ASSUME TypeOK, TypeOK', [Next]_vars, FinalizerInv, PassInv, GenerationInv,
         ResourceHistory, StreamStep("WordPress"), OrderInv', used["create"] \in Nat,
         used'["create"] \in Nat, used["create"] <= used'["create"]
  PROVE  GenerationInv'
  <1> DEFINE s == obj["WordPress"]
             t == obj'["WordPress"]
  <1>0. /\ Len(s) \in Nat /\ Len(s) > 0 /\ Len(t) \in Nat /\ "WordPress" \in Kinds
        /\ Resource = s[Len(s)]
    BY StreamIndices DEF Kinds, Live
  <1>1. /\ Resource # Absent => 0 < Resource.gen
        /\ Before(Resource, Resource)
        /\ \A i \in 1..Len(s) : s[i] \in Seen /\ Before(s[i], Resource)
    BY <1>0, VersionNumbers DEF GenerationInv, Seen
  <1>2. ASSUME NEW i \in 1..Len(s)
        PROVE  /\ Before(s[i], Resource') /\ Before(Resource', Resource')
               /\ Resource' # Absent => 0 < Resource'.gen
    <2>1. /\ s[i] \in Seen /\ Before(s[i], Resource)
          /\ s[i] # Absent => s[i].uid <= used["create"]
          /\ InSync("WordPress") => s[i] = Resource
      BY <1>1, <1>2, SeenEnds DEF GenerationInv
    <2> QED
      BY <1>1, <2>1, LaterVersion
  <1>3. Resource' # Absent => 0 < Resource'.gen
    BY <1>0, <1>2
  <1>4. \A v \in Seen' \ {Absent} : 0 < v.gen /\ v.uid <= used'["create"]
    <2> SUFFICES ASSUME NEW v \in Seen', v # Absent
                 PROVE  0 < v.gen /\ v.uid <= used'["create"]
      OBVIOUS
    <2>1. v \in Seen \/ v = Resource'
      BY <1>0, SeenGrows
    <2>2. CASE v \in Seen
      <3>1. v.uid \in Nat /\ v.uid <= used["create"] /\ 0 < v.gen
        BY <2>2, VersionNumbers DEF GenerationInv
      <3>2. \A l, m, n \in Nat : l <= m /\ m <= n => l <= n
        OBVIOUS
      <3> QED
        BY <3>1, <3>2
    <2>3. CASE v = Resource'
      BY <1>3, <2>3 DEF OrderInv
    <2> QED
      BY <2>1, <2>2, <2>3
  <1>5. ASSUME NEW j \in 1..Len(t), NEW i \in 1..j
        PROVE  Before(t[i], t[j])
    <2>1. CASE Kept("WordPress")
      BY <1>5, <2>1 DEF Kept, GenerationInv
    <2>2. CASE Shifted("WordPress")
      <3>1. /\ i \in 1..Len(t) /\ j + 1 \in 1..Len(s) /\ i + 1 \in 1..(j + 1)
            /\ t[i] = s[i + 1] /\ t[j] = s[j + 1]
        BY <1>0, <1>5, <2>2 DEF Shifted
      <3> QED
        BY <3>1 DEF GenerationInv
    <2>3. CASE Listed("WordPress")
      <3>1. i = 1 /\ j = 1 /\ t[1] = Resource
        BY <1>5, <2>3 DEF Listed
      <3> QED
        BY <1>1, <3>1
    <2>4. CASE Grown("WordPress")
      <3>1. CASE j \in 1..Len(s)
        <4>1. i \in 1..Len(s) /\ t[i] = s[i] /\ t[j] = s[j]
          BY <1>0, <1>5, <2>4, <3>1 DEF Grown
        <4> QED
          BY <1>5, <3>1, <4>1 DEF GenerationInv
      <3>2. CASE j = Len(s) + 1 /\ i \in 1..Len(s)
        <4>1. t[i] = s[i] /\ t[j] = Resource'
          BY <2>4, <3>2 DEF Grown
        <4> QED
          BY <1>2, <3>2, <4>1
      <3>3. CASE j = Len(s) + 1 /\ i = j
        <4>1. t[j] = Resource' /\ 1 \in 1..Len(s)
          BY <1>0, <2>4, <3>3 DEF Grown
        <4> QED
          BY <1>2, <3>3, <4>1
      <3>4. \/ j \in 1..Len(s)
            \/ j = Len(s) + 1 /\ (i \in 1..Len(s) \/ i = j)
        BY <1>0, <1>5, <2>4 DEF Grown
      <3> QED
        BY <3>1, <3>2, <3>3, <3>4
    <2> QED
      BY <2>1, <2>2, <2>3, <2>4 DEF StreamStep
  <1> QED
    BY <1>4, <1>5 DEF GenerationInv

-----------------------------------------------------------------------------
(* Passes *)

\* While a pass is on, only users write the resource, and they count its
\* generation up.
LEMMA PassCarried ==
  ASSUME TypeOK, TypeOK', [Next]_vars, FinalizerInv, PassInv, ResourceHistory,
         Passing, ~PersistStatus,
         NEW v \in Seen', v # Absent, v.uid = wp.uid
  PROVE  /\ wp.gen <= v.gen /\ (wp.gen = v.gen => wp.spec = applyDefaults(v.spec))
         /\ v.status.observed <= wp.gen
  <1>0. Resource # Absent /\ Resource.uid = wp.uid /\ Resource \in Seen
    BY VersionNumbers DEF FinalizerInv, FinalizerHeld, Passing
  <1>1. \A w \in Seen \ {Absent} : w.uid = wp.uid =>
          /\ wp.gen <= w.gen /\ (wp.gen = w.gen => wp.spec = applyDefaults(w.spec))
          /\ w.status.observed <= wp.gen
    BY DEF PassInv
  <1>2. v \in Seen \/ v = Resource'
    BY SeenGrows
  <1>3. CASE v \in Seen
    BY <1>1, <1>3
  <1>4. CASE v = Resource'
    <2>1. Resource' = Resource \/ (Revised /\ Resource'.status = Resource.status)
      BY <1>0, <1>4 DEF ResourceHistory, Created, StatusWritten
    <2>2. CASE Revised /\ Resource'.status = Resource.status
      <3>1. wp.gen \in Nat /\ Resource.gen \in Nat
        BY <1>0, VersionNumbers DEF Passing
      <3>2. /\ wp.gen <= Resource.gen
            /\ wp.gen = Resource.gen => wp.spec = applyDefaults(Resource.spec)
            /\ Resource.status.observed <= wp.gen
        BY <1>0, <1>1
      <3>3. \/ Resource'.gen = Resource.gen /\ Resource'.spec = Resource.spec
            \/ Resource'.gen = Resource.gen + 1
        BY <2>2 DEF Revised
      <3>4. \A m, n \in Nat : m <= n => m <= n + 1 /\ m # n + 1
        OBVIOUS
      <3> QED
        BY <1>4, <2>2, <3>1, <3>2, <3>3, <3>4
    <2> QED
      BY <1>0, <1>1, <1>4, <2>1, <2>2
  <1> QED
    BY <1>2, <1>3, <1>4

\* A pass begins with the cached version, the earliest it can still see.
LEMMA PassBegins ==
  ASSUME TypeOK, GenerationInv, NEW v \in Seen \ {Absent}, Cached("WordPress") # Absent
  PROVE  LET cr == Cached("WordPress") IN
         /\ cr.status.observed <= cr.gen
         /\ v.uid = cr.uid =>
              /\ cr.gen <= v.gen /\ (cr.gen = v.gen => cr.spec = v.spec)
              /\ v.status.observed <= cr.gen
  <1> DEFINE s == obj["WordPress"]
             cr == Cached("WordPress")
  <1>1. /\ s \in Seq(Objects) /\ s # <<>>
    BY DEF TypeOK, ClusterTypeOK, Kinds
  <1>2. 1 \in 1..Len(s) /\ cr = s[1]
    BY <1>1 DEF Cached
  <1>3. PICK j \in 1..Len(s) : v = s[j]
    BY DEF Seen
  <1>4. Before(cr, cr) /\ Before(cr, v)
    <2>1. 1 \in 1..1 /\ 1 \in 1..j
      BY <1>3
    <2> QED
      BY <1>2, <1>3, <2>1 DEF GenerationInv
  <1>5. /\ v.uid \in Nat /\ v.gen \in Nat /\ v.status.observed \in Nat
        /\ cr.gen \in Nat /\ cr.status.observed \in Nat
    BY VersionNumbers
  <1> HIDE DEF cr
  <1>6. cr.status.observed <= cr.gen
    BY <1>4, <1>5 DEF Before, cr
  <1>7. v.status.observed <= cr.gen
    BY <1>4, <1>5 DEF Before, cr
  <1> QED
    BY <1>4, <1>6, <1>7 DEF Before, cr

\* The steps of a pass leave what it works from alone; the last one before the
\* status is written reports its generation.
LEMMA PassKeeps ==
  ASSUME TypeOK, CheckUserSecret \/ UpdateStatus \/ \E k \in ChildKinds : ApplyChild(k),
         pc' # "idle"
  PROVE  /\ Passing /\ pc' \in {"children", "persist"}
         /\ wp'.uid = wp.uid /\ wp'.gen = wp.gen /\ wp'.spec = wp.spec
         /\ \/ wp'.status.observed = wp.status.observed
            \/ UpdateStatus /\ wp'.status.observed = wp.gen
  <1>1. Passing /\ pc # "idle" /\ (pc' \in {"children", "persist"})
    BY DEF CheckUserSecret, UpdateStatus, ApplyChild, Abort, Persist, Return, Passing
  <1>2. wp \in Resources /\ wp.status \in Statuses /\ wp.gen \in Nat
    BY <1>1, VersionNumbers
  <1>3. \A x : LET w == [wp EXCEPT !.status = x] IN
          w.uid = wp.uid /\ w.gen = wp.gen /\ w.spec = wp.spec /\ w.status = x
    BY <1>2 DEF Resources
  <1>4. CASE CheckUserSecret
    <2>1. PICK b \in Ternary : wp' = [wp EXCEPT !.status = [@ EXCEPT !.database = b]]
      BY <1>4 DEF CheckUserSecret, Ternary
    <2>2. [wp.status EXCEPT !.database = b].observed = wp.status.observed
      BY <1>2 DEF Statuses
    <2> QED
      BY <1>1, <1>3, <2>1, <2>2
  <1>5. CASE UpdateStatus
    <2> DEFINE w(d, y, r) == [wp EXCEPT !.status.observed = wp.gen, !.status.deployment = d,
                                        !.status.phase = y, !.status.ready = r]
    <2>1. \E d, y, r : wp' = w(d, y, r)
      BY <1>5 DEF UpdateStatus
    <2>2. \A d, y, r : /\ w(d, y, r).uid = wp.uid /\ w(d, y, r).gen = wp.gen
                       /\ w(d, y, r).spec = wp.spec /\ w(d, y, r).status.observed = wp.gen
      BY <1>2 DEF Resources, Statuses
    <2> HIDE DEF w
    <2> QED
      BY <1>1, <1>5, <2>1, <2>2
  <1>6. ASSUME NEW k \in ChildKinds, ApplyChild(k)
        PROVE  /\ wp'.uid = wp.uid /\ wp'.gen = wp.gen /\ wp'.spec = wp.spec
               /\ wp'.status.observed = wp.status.observed
    <2>1. wp' = wp \/ wp' = [wp EXCEPT !.status = Observed(k, @)]
      BY <1>6 DEF ApplyChild, Abort, Return
    <2>2. Observed(k, wp.status).observed = wp.status.observed
      BY <1>2 DEF Observed, Statuses
    <2> QED
      BY <1>3, <2>1, <2>2
  <1> QED
    BY <1>1, <1>4, <1>5, <1>6

\* The steps that start a pass.
LEMMA PassStarts ==
  ASSUME TypeOK, GenerationInv, RejectSpec \/ AcceptSpec
  PROVE  /\ Seen' = Seen /\ Resource' = Resource
         /\ \A k \in ChildKinds : Live(k)' = Live(k)
         /\ wp'.uid = Cached("WordPress").uid /\ wp'.gen = Cached("WordPress").gen
         /\ wp'.spec = applyDefaults(Cached("WordPress").spec)
         /\ wp'.status.observed = Cached("WordPress").status.observed
         /\ Cached("WordPress") # Absent
         /\ pc' = "secret" => wp'.spec.mode = "External"
         /\ pc' = "children" =>
              todo' = DatabasePlan \o SitePlan /\ wp'.spec.mode # "External"
  <1> DEFINE cr == Cached("WordPress")
  <1>1. cr # Absent /\ UNCHANGED obj
    BY DEF RejectSpec, AcceptSpec, BeginPass, Finished, clusterVars
  <1>2. cr \in Resources /\ cr.status \in Statuses
    BY <1>1, VersionNumbers DEF Resources
  <1>3. /\ Defaulted.uid = cr.uid /\ Defaulted.gen = cr.gen /\ Defaulted.status = cr.status
        /\ Defaulted.spec = applyDefaults(cr.spec)
    BY <1>2 DEF Defaulted, Resources
  <1>s. Seen' = Seen /\ Resource' = Resource /\ \A k \in ChildKinds : Live(k)' = Live(k)
    BY <1>1 DEF Seen, Live
  <1>4. CASE RejectSpec
    <2> DEFINE w == [Defaulted EXCEPT !.status.phase = "Failed", !.status.ready = "False"]
    <2>1. wp' = w /\ pc' = "persist"
      BY <1>4 DEF RejectSpec, Persist
    <2>2. /\ w.uid = cr.uid /\ w.gen = cr.gen /\ w.spec = applyDefaults(cr.spec)
          /\ w.status.observed = cr.status.observed
      <3>1. \A x \in Specs :
              LET d == [cr EXCEPT !.spec = x]
                  e == [d EXCEPT !.status.phase = "Failed", !.status.ready = "False"] IN
              /\ e.uid = cr.uid /\ e.gen = cr.gen /\ e.spec = x
              /\ e.status.observed = cr.status.observed
        BY <1>2 DEF Resources, Statuses
      <3>2. applyDefaults(cr.spec) \in Specs
        BY <1>2, SpecOperators DEF Resources
      <3> QED
        BY <1>2, <3>1, <3>2 DEF Defaulted
    <2> HIDE DEF w
    <2> QED
      BY <1>1, <1>s, <2>1, <2>2
  <1>5. CASE AcceptSpec
    BY <1>1, <1>s, <1>3, <1>5 DEF AcceptSpec
  <1> QED
    BY <1>4, <1>5

\* What a pass works from is kept.
LEMMA PassStep ==
  ASSUME TypeOK, TypeOK', [Next]_vars, FinalizerInv, GenerationInv, PassInv, ResourceHistory
  PROVE  PassInv'
  <1> DEFINE Later(v) ==
        /\ wp'.gen <= v.gen /\ (wp'.gen = v.gen => wp'.spec = applyDefaults(v.spec))
        /\ v.status.observed <= wp'.gen
  <1>1. CASE ~Passing'
    BY <1>1 DEF PassInv, Passing
  <1>2. CASE RejectSpec \/ AcceptSpec
    <2>1. Cached("WordPress") # Absent /\ Cached("WordPress") \in Seen
      BY <1>2, PassStarts, VersionNumbers
    <2>2. wp'.status.observed <= wp'.gen
      BY <1>2, <2>1, PassStarts, PassBegins
    <2>3. ASSUME NEW v \in Seen', v # Absent, v.uid = wp'.uid
          PROVE  Later(v)
      <3>1. v \in Seen \ {Absent} /\ v.uid = Cached("WordPress").uid
        BY <1>2, <2>3, PassStarts
      <3> QED
        BY <1>2, <2>1, <3>1, PassStarts, PassBegins
    <2>4. pc' = "secret" => wp'.spec.mode = "External"
      BY <1>2, PassStarts
    <2> QED
      BY <2>2, <2>3, <2>4 DEF PassInv
  <1>3. CASE /\ Passing'
             /\ \/ UNCHANGED workerVars
                \/ CheckUserSecret \/ UpdateStatus \/ \E k \in ChildKinds : ApplyChild(k)
    <2>1. /\ Passing /\ ~PersistStatus
          /\ wp'.uid = wp.uid /\ wp'.gen = wp.gen /\ wp'.spec = wp.spec
          /\ wp'.status.observed \in {wp.status.observed, wp.gen}
          /\ pc' = "secret" => pc = "secret"
      <3>1. ~PersistStatus /\ pc' # "idle"
        BY <1>3, NextPassing DEF Passing
      <3>2. CASE UNCHANGED workerVars
        BY <1>3, <3>1, <3>2 DEF workerVars, Passing
      <3>3. CASE CheckUserSecret \/ UpdateStatus \/ \E k \in ChildKinds : ApplyChild(k)
        BY <3>1, <3>3, PassKeeps
      <3> QED
        BY <1>3, <3>2, <3>3
    <2>2. wp.status.observed \in Nat /\ wp.gen \in Nat /\ wp.status.observed <= wp.gen
      BY <2>1, VersionNumbers DEF PassInv, Passing
    <2>3. wp'.status.observed <= wp'.gen
      BY <2>1, <2>2
    <2>4. ASSUME NEW v \in Seen', v # Absent, v.uid = wp'.uid
          PROVE  Later(v)
      BY <2>1, <2>4, PassCarried
    <2> QED
      BY <2>1, <2>3, <2>4 DEF PassInv
  <1> QED
    BY <1>1, <1>2, <1>3, NextPassing

-----------------------------------------------------------------------------
(* Children *)

\* Nobody but the operator gives a child that every pass updates other content.
LEMMA ContentStep ==
  ASSUME TypeOK, [Next]_vars, Undrifted', NEW k \in ServerDefaulted, ~ApplyChild(k)
  PROVE  \/ Live(k)' = Absent
         \/ Live(k)' = Live(k)
         \/ /\ Live(k) # Absent /\ Live(k)'.owner = Live(k).owner
            /\ Live(k)'.content = Live(k).content
  <1> DEFINE Kind == \/ Live(k)' = Absent
                     \/ Live(k)' = Live(k)
                     \/ /\ Live(k) # Absent /\ Live(k)'.owner = Live(k).owner
                        /\ Live(k)'.content = Live(k).content
  <1> SUFFICES Kind
    OBVIOUS
  <1>0. /\ k \in Kinds /\ k \in ChildKinds /\ k \notin {"WordPress", "MySQLPVC", "UserSecret"}
        /\ k \notin Optional
        /\ Live(k) \in {Absent} \cup Children
    BY Apart, ResourceVersions DEF TypeOK, ServerDefaulted, ChildKinds, DatabaseKinds, SiteKinds, Optional
  <1>1. \A j \in Kinds \ {k} : \A v : Put(j, v) => Live(k)' = Live(k)
    BY <1>0, PutLive DEF Only
  <1>2. UNCHANGED obj => Live(k)' = Live(k)
    BY DEF Live
  <1>3. \A d \in Disturbances : Spend(d) => used'[d] # 0
    <2>1. used \in [Disturbances -> Nat] /\ \A n \in Nat : n + 1 # 0
      BY DEF TypeOK, ClusterTypeOK
    <2> QED
      BY <2>1 DEF Spend
  <1>4. CASE Worker
    <2>1. CASE \E j \in ChildKinds \ {k} : ApplyChild(j)
      BY <1>1, <1>2, <2>1, Apart DEF ApplyChild
    <2>2. CASE HandleDeletion
      BY <1>0, <1>1, <1>2, <2>2, Apart DEF HandleDeletion
    <2>3. CASE RemoveFinalizer
      BY <1>0, <1>1, <1>2, <2>3, Apart DEF RemoveFinalizer, PutWordPress
    <2>4. CASE AddFinalizer
      <3>1. UNCHANGED obj \/ \E v : Put("WordPress", v)
        BY <2>4 DEF AddFinalizer, PutWordPress
      <3> QED
        BY <1>0, <1>1, <1>2, <3>1, Apart
    <2>5. CASE PersistStatus
      BY <1>0, <1>1, <1>2, <2>5, Apart DEF PersistStatus, PutWordPress
    <2>6. CASE ReconcileFinished \/ RejectSpec \/ AcceptSpec \/ CheckUserSecret \/ UpdateStatus
      BY <1>2, <2>6 DEF ReconcileFinished, RejectSpec, AcceptSpec, CheckUserSecret, UpdateStatus,
         clusterVars
    <2> QED
      BY <1>4, <2>1, <2>2, <2>3, <2>4, <2>5, <2>6 DEF Worker
  <1>5. CASE Environment
    <2>1. CASE CreateWordPress \/ EditSpec \/ Annotate \/ DeleteWordPress
      <3>1. \E v : Put("WordPress", v)
        BY <2>1 DEF CreateWordPress, EditSpec, Annotate, DeleteWordPress, PutWordPress
      <3> QED
        BY <1>0, <1>1, <3>1, Apart
    <2>2. CASE ToggleUserSecret \/ ProvisionVolume \/ InitialiseVolume \/ ReleaseVolume
      <3>1. \E v : Put("UserSecret", v) \/ Put("MySQLPVC", v)
        BY <2>2 DEF ToggleUserSecret, ProvisionVolume, InitialiseVolume, ReleaseVolume
      <3>2. "UserSecret" \in Kinds \ {k} /\ "MySQLPVC" \in Kinds \ {k}
        BY <1>0 DEF Kinds
      <3> QED
        BY <1>1, <3>1, <3>2
    <2>3. ~Autoscale /\ \A j \in ChildKinds : ~Drift(j)
      BY <1>3 DEF Autoscale, Drift, Undrifted, Disturbances
    <2>4. ASSUME NEW j \in ChildKinds, CreateForeign(j) \/ CollectGarbage(j)
          PROVE  Kind
      <3>1. j # k => Live(k)' = Live(k)
        BY <1>1, <2>4, Apart DEF CreateForeign, CollectGarbage
      <3>2. j = k => Live(k)' = Absent
        BY <1>0, <2>4, PutLive DEF CreateForeign, CollectGarbage
      <3> QED
        BY <3>1, <3>2
    <2>5. ASSUME NEW j \in Workloads, BecomeReady(j) \/ RollOut(j) \/ BecomeUnready(j)
          PROVE  Kind
      <3>1. j \in Kinds
        BY DEF Workloads, Kinds, ChildKinds, DatabaseKinds, SiteKinds
      <3>2. PICK y : Live(j) # Absent /\ Put(j, [Live(j) EXCEPT !.pods = y])
        BY <2>5 DEF BecomeReady, RollOut, BecomeUnready
      <3>3. j # k => Live(k)' = Live(k)
        BY <1>1, <3>1, <3>2
      <3>4. CASE j = k
        <4>1. Live(k) \in Children /\ Live(k)' = [Live(k) EXCEPT !.pods = y]
          BY <1>0, <3>2, <3>4, PutLive
        <4> QED
          BY <4>1, <1>0, ClusterAssumption, <3>2, <3>4 DEF Children
      <3> QED
        BY <3>3, <3>4
    <2> QED
      BY <1>5, <2>1, <2>2, <2>3, <2>4, <2>5 DEF Environment
  <1>6. CASE TimerFires \/ UNCHANGED vars \/ Restart \/ \E j \in Kinds : Deliver(j)
    <2>1. UNCHANGED obj \/ Restart \/ \E j \in Kinds : Deliver(j)
      BY <1>6 DEF TimerFires, vars, clusterVars
    <2> QED
      BY <1>0, <2>1, NothingStored DEF Untouched
  <1> QED
    BY <1>4, <1>5, <1>6 DEF Next

\* A visit of such a child that succeeds gives it the content of the spec at hand.
LEMMA VisitRenders ==
  ASSUME TypeOK, NEW k \in ServerDefaulted, ApplyChild(k)
  PROVE  /\ \/ Live(k)'.content = Render(k, wp.spec)
            \/ Live(k)' = Live(k) /\ pc' # "children"
         /\ pc' = "children" => todo' = Tail(todo)
  <1>0. /\ k \in Kinds /\ k \in ChildKinds /\ Live(k) \in {Absent} \cup Children
    BY Apart, ResourceVersions DEF TypeOK, ServerDefaulted, ChildKinds, DatabaseKinds, SiteKinds
  <1>1. Call(k) \in {"create", "update"}
    BY DEF Call, Wants, ServerDefaulted, CreateOnly
  <1>2. PICK r \in Outcomes(Result(k)) :
          /\ IF Effective(r, Result(k))
             THEN \E p \in Generated : Put(k, Written(k, p))
             ELSE UNCHANGED obj
          /\ IF r = "ok" THEN todo' = Tail(todo) ELSE Abort(k, r)
    BY <1>1 DEF ApplyChild
  <1>3. r # "ok" => pc' # "children"
    BY <1>2 DEF Abort, Persist, Return
  <1>4. CASE Effective(r, Result(k))
    <2>1. PICK p \in Generated : Put(k, Written(k, p))
      BY <1>2, <1>4
    <2>2. Live(k)' = Written(k, p)
      BY <1>0, <2>1, PutLive
    <2>3. CASE Call(k) = "create"
      BY <1>2, <1>3, <2>2, <2>3 DEF Written
    <2>4. CASE Call(k) = "update"
      <3>1. Result(k) = "ok"
        BY <1>2, <1>4 DEF Effective, Outcomes
      <3>2. Live(k) \in Children
        BY <1>0, <2>4, <3>1 DEF Result, UpdateResult
      <3>3. Written(k, p).content = Render(k, wp.spec)
        BY <2>4, <3>2 DEF Written, Changed, Children
      <3> QED
        BY <1>2, <1>3, <2>2, <3>3
    <2> QED
      BY <1>1, <2>3, <2>4
  <1>5. CASE ~Effective(r, Result(k))
    <2>1. r # "ok" /\ UNCHANGED obj
      BY <1>2, <1>5 DEF Effective
    <2> QED
      BY <1>3, <2>1 DEF Live
  <1> QED
    BY <1>4, <1>5

\* A visit after which the pass goes on has taken its child off the list.
LEMMA VisitLeaves ==
  ASSUME NEW k \in ChildKinds, ApplyChild(k), pc' = "children"
  PROVE  /\ pc = "children" /\ todo # <<>> /\ k = Head(todo)
         /\ todo' = Tail(todo)
  BY DEF ApplyChild, Abort, Persist, Return

\* A child that has the content of the stored spec keeps it while the spec
\* stays, and a visit for that spec gives it to it.
LEMMA RenderedKept ==
  ASSUME TypeOK, [Next]_vars, Undrifted', Resource # Absent,
         Resource'.uid = Resource.uid, Resource'.spec = Resource.spec,
         NEW k \in ServerDefaulted, ApplyChild(k) => wp.spec = Desired
  PROVE  /\ Rendered(k) => Rendered(k)'
         /\ (ApplyChild(k) /\ pc' = "children") => Rendered(k)'
  <1>1. Desired' = Desired
    BY DEF Desired
  <1>2. Render(k, Desired)' = Render(k, Desired)
    BY <1>1
  <1>3. CASE ApplyChild(k)
    <2>1. \/ Live(k)'.content = Render(k, Desired)
          \/ Live(k)' = Live(k) /\ pc' # "children"
      BY <1>3, VisitRenders
    <2> QED
      BY <1>2, <2>1, Zenon DEF Rendered
  <1>4. CASE ~ApplyChild(k)
    <2>1. \/ Live(k)' = Absent
          \/ Live(k)' = Live(k)
          \/ /\ Live(k) # Absent /\ Live(k)'.owner = Live(k).owner
             /\ Live(k)'.content = Live(k).content
      BY <1>4, ContentStep
    <2>2. Absent' = Absent
      OBVIOUS
    <2> QED
      BY <1>2, <1>4, <2>1, Zenon DEF Rendered
  <1> QED
    BY <1>3, <1>4

-----------------------------------------------------------------------------
(* What is reported *)

\* Nothing reports more than the stored generation of its resource, and what
\* reports that much leaves no room for a pass that works from an older spec.
LEMMA ReportedBounds ==
  ASSUME TypeOK, FinalizerInv, GenerationInv, PassInv, Resource # Absent
  PROVE  /\ \A v \in Seen \ {Absent} :
              v.uid = Resource.uid => v.status.observed <= Resource.gen
         /\ Passing => /\ wp.gen <= Resource.gen /\ wp.status.observed <= wp.gen
                       /\ wp.uid = Resource.uid
                       /\ wp.gen = Resource.gen => wp.spec = Desired
                       /\ Reported => wp.gen = Resource.gen
  <1> DEFINE s == obj["WordPress"]
  <1>0. /\ Resource \in Seen /\ Resource.gen \in Nat
        /\ \A v \in Seen \ {Absent} : v.status.observed \in Nat /\ v.gen \in Nat
        /\ Passing => wp.gen \in Nat /\ wp.status.observed \in Nat
    BY VersionNumbers DEF Passing
  <1>1. ASSUME NEW v \in Seen, v # Absent, v.uid = Resource.uid
        PROVE  v.status.observed <= Resource.gen
    <2>1. PICK i \in 1..Len(s) : v = s[i]
      BY DEF Seen
    <2>2. Len(s) \in 1..Len(s) /\ i \in 1..i /\ Resource = s[Len(s)]
      BY <2>1 DEF Live
    <2>3. Before(v, v) /\ Before(v, Resource)
      BY <2>1, <2>2 DEF GenerationInv
    <2>4. CASE v.status.observed = 0
      BY <1>0, <2>4
    <2>5. CASE v.status.observed # 0
      <3>1. v.status.observed <= v.gen /\ v.gen <= Resource.gen
        BY <1>1, <2>3, <2>5 DEF Before
      <3> QED
        BY <1>0, <1>1, <3>1
    <2> QED
      BY <2>4, <2>5
  <1>2. ASSUME Passing
        PROVE  /\ wp.gen <= Resource.gen /\ wp.status.observed <= wp.gen
               /\ wp.uid = Resource.uid
               /\ wp.gen = Resource.gen => wp.spec = Desired
    BY <1>0, <1>2 DEF PassInv, FinalizerInv, FinalizerHeld, Passing, Desired
  <1>3. ASSUME Passing, Reported
        PROVE  wp.gen = Resource.gen
    <2>1. Resource.gen <= wp.gen
      BY <1>2, <1>3 DEF Reported, PassInv
    <2> QED
      BY <1>0, <1>2, <1>3, <2>1
  <1> QED
    BY <1>1, <1>2, <1>3

\* A pass that is on after a step has just begun with the cached version, or was
\* on before.
LEMMA PassCases ==
  ASSUME TypeOK, [Next]_vars, GenerationInv, Passing'
  PROVE  \/ RejectSpec \/ AcceptSpec
         \/ /\ Passing
            /\ wp'.uid = wp.uid /\ wp'.gen = wp.gen /\ wp'.spec = wp.spec
            /\ \/ wp'.status.observed = wp.status.observed
               \/ UpdateStatus /\ wp'.status.observed = wp.gen
            /\ \/ CheckUserSecret \/ UpdateStatus \/ \E k \in ChildKinds : ApplyChild(k)
               \/ UNCHANGED workerVars
  <1>1. pc' # "idle"
    BY DEF Passing
  <1>2. CASE UNCHANGED workerVars
    BY <1>2 DEF workerVars, Passing
  <1>3. CASE CheckUserSecret \/ UpdateStatus \/ \E k \in ChildKinds : ApplyChild(k)
    BY <1>1, <1>3, PassKeeps
  <1> QED
    BY <1>2, <1>3, NextPassing

\* Only a pass for the stored generation begins to report it (updateStatus), and
\* a new generation is reported by nothing.
LEMMA ReportedLater ==
  ASSUME TypeOK, TypeOK', [Next]_vars, FinalizerInv, FinalizerInv', GenerationInv,
         PassInv, ResourceHistory, used["create"] \in Nat, Resource' # Absent, Reported'
  PROVE  /\ Resource # Absent /\ Resource'.uid = Resource.uid
         /\ Resource'.gen = Resource.gen /\ Resource'.spec = Resource.spec
         /\ Reported \/ (UpdateStatus /\ wp.gen = Resource.gen)
  <1>0. /\ \A v \in Seen \ {Absent} : v.uid \in Nat /\ v.gen \in Nat /\ v.status.observed \in Nat
        /\ Resource \in Seen /\ Cached("WordPress") \in Seen
        /\ Passing => wp.gen \in Nat /\ wp.status.observed \in Nat
        /\ Seen' \subseteq Seen \cup {Resource'}
    BY VersionNumbers, SeenGrows DEF Passing
  <1>1. ASSUME Passing', Resource' # Resource
        PROVE  /\ Resource # Absent /\ Passing
               /\ \/ wp'.status.observed = wp.status.observed
                  \/ UpdateStatus /\ wp'.status.observed = wp.gen
    <2>1. ~RejectSpec /\ ~AcceptSpec
      BY <1>1, PassStarts
    <2> QED
      BY <1>1, <2>1, PassCases DEF FinalizerInv, FinalizerHeld, Passing
  <1>2. ~Created
    <2> SUFFICES ASSUME Created PROVE FALSE
      OBVIOUS
    <2>1. /\ Resource'.gen = 1 /\ Resource'.uid = used["create"] + 1
          /\ Resource'.status.observed = 0 /\ Resource = Absent
      <3>1. NoStatus.observed = 0
        BY DEF NoStatus
      <3> QED
        BY <3>1, Zenon DEF Created
    <2>2. ~Passing'
      BY <1>1, <2>1
    <2>3. PICK v \in Seen' \ {Absent} :
            v.uid = Resource'.uid /\ v.status.observed = Resource'.gen
      BY <2>2 DEF Reported
    <2>4. v \in Seen
      BY <1>0, <2>1, <2>3
    <2>5. v.uid \in Nat /\ v.uid <= used["create"]
      BY <1>0, <2>3, <2>4 DEF GenerationInv
    <2>6. \A m, n \in Nat : m <= n => m # n + 1
      OBVIOUS
    <2> QED
      BY <2>1, <2>3, <2>5, <2>6
  <1>3. Resource # Absent /\ (Resource' = Resource \/ Revised)
    BY <1>2 DEF ResourceHistory, Revised
  <1>4. /\ \A v \in Seen \ {Absent} : v.uid = Resource.uid => v.status.observed <= Resource.gen
        /\ Passing => wp.gen <= Resource.gen /\ wp.status.observed <= wp.gen
    BY <1>3, ReportedBounds
  <1>5. Resource'.uid = Resource.uid /\ Resource.gen \in Nat
    BY <1>0, <1>3 DEF Revised
  <1>6. Resource'.gen = Resource.gen /\ Resource'.spec = Resource.spec
    <2> SUFFICES ASSUME Revised, Resource'.gen = Resource.gen + 1 PROVE FALSE
      BY <1>3 DEF Revised
    <2>1. \A m, n \in Nat : m <= n => m # n + 1
      OBVIOUS
    <2>2. \A l, m, n \in Nat : l <= m /\ m <= n => l <= n
      OBVIOUS
    <2>3. Resource'.status = Resource.status
      <3>1. ~StatusWritten
        BY <1>5, <2>1 DEF StatusWritten
      <3>2. Resource' # Resource
        BY <1>5, <2>1
      <3> QED
        BY <1>2, <3>1, <3>2 DEF ResourceHistory
    <2>4. CASE \E v \in Seen' \ {Absent} :
                 v.uid = Resource'.uid /\ v.status.observed = Resource'.gen
      <3>1. PICK v \in Seen' \ {Absent} :
              v.uid = Resource'.uid /\ v.status.observed = Resource'.gen
        BY <2>4
      <3>2. v \in Seen \/ v = Resource'
        BY <1>0
      <3>3. \/ v.status.observed \in Nat /\ v.status.observed <= Resource.gen
        BY <1>0, <1>3, <1>4, <1>5, <2>3, <3>1, <3>2
      <3> QED
        BY <1>5, <2>1, <3>1, <3>3
    <2>5. CASE Passing' /\ wp'.status.observed = Resource'.gen
      <3>1. Resource' # Resource
        BY <1>5, <2>1
      <3>2. /\ Passing
            /\ wp'.status.observed = wp.status.observed \/ wp'.status.observed = wp.gen
        BY <1>1, <2>5, <3>1
      <3>3. wp'.status.observed \in Nat /\ wp'.status.observed <= Resource.gen
        BY <1>0, <1>4, <1>5, <2>2, <3>2
      <3> QED
        BY <1>5, <2>1, <2>5, <3>3
    <2> QED
      BY <2>4, <2>5 DEF Reported
  <1>7. Reported \/ (UpdateStatus /\ wp.gen = Resource.gen)
    <2>1. CASE \E v \in Seen' \ {Absent} :
                 v.uid = Resource'.uid /\ v.status.observed = Resource'.gen
      <3>1. PICK v \in Seen' \ {Absent} :
              v.uid = Resource'.uid /\ v.status.observed = Resource'.gen
        BY <2>1
      <3>2. CASE v \in Seen
        BY <1>5, <1>6, <3>1, <3>2 DEF Reported
      <3>3. CASE v = Resource' /\ Resource'.status = Resource.status
        BY <1>0, <1>3, <1>6, <3>1, <3>3 DEF Reported
      <3>4. CASE v = Resource' /\ StatusWritten
        BY <1>6, <3>1, <3>4 DEF Reported, StatusWritten, PersistStatus, Passing
      <3> QED
        BY <1>0, <1>2, <3>1, <3>2, <3>3, <3>4 DEF ResourceHistory
    <2>2. CASE Passing' /\ wp'.status.observed = Resource'.gen
      <3>1. CASE RejectSpec \/ AcceptSpec
        <4>1. /\ Cached("WordPress") \in Seen \ {Absent}
              /\ wp'.uid = Cached("WordPress").uid
              /\ wp'.status.observed = Cached("WordPress").status.observed
          BY <1>0, <3>1, PassStarts
        <4>2. wp'.uid = Resource'.uid
          BY <2>2 DEF FinalizerInv, FinalizerHeld, Passing
        <4> QED
          BY <1>5, <1>6, <2>2, <4>1, <4>2 DEF Reported
      <3>2. CASE /\ Passing
                 /\ \/ wp'.status.observed = wp.status.observed
                    \/ UpdateStatus /\ wp'.status.observed = wp.gen
        BY <1>6, <2>2, <3>2 DEF Reported
      <3> QED
        BY <2>2, <3>1, <3>2, PassCases
    <2> QED
      BY <2>1, <2>2 DEF Reported
  <1> QED
    BY <1>3, <1>5, <1>6, <1>7

\* What is reported stays rendered, and a pass still has before it what it has
\* not rendered.
LEMMA RenderedStep ==
  ASSUME TypeOK, TypeOK', [Next]_vars, FinalizerInv, FinalizerInv', GenerationInv,
         PassInv, RenderedInv, ResourceHistory, used["create"] \in Nat,
         Undrifted' => Undrifted
  PROVE  RenderedInv'
  <1> SUFFICES ASSUME Undrifted', Resource' # Absent
               PROVE  /\ Reported' => AllRendered'
                      /\ (pc' = "children" /\ wp'.gen = Resource'.gen) =>
                           \A k \in Reflected' : Rendered(k)' \/ \E i \in 1..Len(todo') : todo'[i] = k
    BY DEF RenderedInv
  <1>0. Undrifted /\ ServerDefaulted \subseteq ChildKinds
    BY DEF ServerDefaulted, ChildKinds, DatabaseKinds, SiteKinds
  <1>1. Resource'.spec = Resource.spec => Desired' = Desired /\ Reflected' = Reflected
    BY DEF Desired, Reflected, Visited
  <1>2. Reflected \subseteq Visited /\ Reflected \subseteq ServerDefaulted
    BY DEF Reflected
  <1>3. ASSUME Reported' PROVE AllRendered'
    <2>1. /\ Resource # Absent /\ Resource'.uid = Resource.uid
          /\ Resource'.gen = Resource.gen /\ Resource'.spec = Resource.spec
          /\ Reported \/ (UpdateStatus /\ wp.gen = Resource.gen)
      BY <1>3, ReportedLater
    <2>2. AllRendered
      <3>1. CASE Reported
        BY <1>0, <2>1, <3>1 DEF RenderedInv
      <3>2. CASE UpdateStatus /\ wp.gen = Resource.gen
        <4>1. pc = "children" /\ todo = <<>> /\ 1..Len(todo) = {}
          BY <3>2 DEF UpdateStatus
        <4> QED
          BY <1>0, <2>1, <3>2, <4>1 DEF RenderedInv, AllRendered
      <3> QED
        BY <2>1, <3>1, <3>2
    <2>3. ASSUME NEW k \in Reflected PROVE Rendered(k)'
      <3>1. ApplyChild(k) => wp.spec = Desired
        <4> SUFFICES ASSUME ApplyChild(k) PROVE wp.spec = Desired
          OBVIOUS
        <4>1. Passing /\ ~UpdateStatus
          BY DEF ApplyChild, UpdateStatus, Passing
        <4> QED
          BY <2>1, <4>1, ReportedBounds
      <3> QED
        BY <1>2, <2>1, <2>2, <2>3, <3>1, RenderedKept DEF AllRendered
    <2> QED
      BY <1>1, <2>1, <2>3 DEF AllRendered
  <1>4. ASSUME pc' = "children", wp'.gen = Resource'.gen,
               NEW k \in Reflected'
        PROVE  Rendered(k)' \/ \E i \in 1..Len(todo') : todo'[i] = k
    <2>0. Passing'
      BY <1>4 DEF Passing
    <2>1. CASE RejectSpec \/ AcceptSpec
      <3>1. /\ Resource' = Resource /\ todo' = DatabasePlan \o SitePlan
        BY <1>4, <2>1, PassStarts
      <3>2. k \in Visited
        BY <1>1, <1>2, <1>4, <3>1
      <3> QED
        BY <3>1, <3>2, PlanOfPass
    <2>2. CASE /\ Passing /\ wp'.gen = wp.gen
               /\ \/ CheckUserSecret \/ UpdateStatus \/ \E j \in ChildKinds : ApplyChild(j)
                  \/ UNCHANGED workerVars
      <3>1. /\ Resource # Absent /\ wp.gen \in Nat /\ Resource.gen \in Nat
            /\ wp.gen <= Resource.gen /\ (wp.gen = Resource.gen => wp.spec = Desired)
        BY <2>2, ReportedBounds, VersionNumbers DEF FinalizerInv, FinalizerHeld, Passing
      <3>2. /\ Resource'.uid = Resource.uid /\ Resource'.gen = Resource.gen
            /\ Resource'.spec = Resource.spec
        <4>1. Resource' = Resource \/ Revised
          BY <3>1 DEF ResourceHistory, Created
        <4>2. \A m, n \in Nat : m <= n => m # n + 1
          OBVIOUS
        <4> QED
          BY <1>4, <2>2, <3>1, <4>1, <4>2 DEF Revised
      <3>3. /\ wp.gen = Resource.gen /\ wp.spec = Desired /\ k \in Reflected
            /\ k \in ServerDefaulted /\ k \in Visited
        BY <1>1, <1>2, <1>4, <2>2, <3>1, <3>2
      <3>4. /\ Rendered(k) => Rendered(k)'
            /\ ApplyChild(k) => Rendered(k)'
        BY <1>4, <3>1, <3>2, <3>3, RenderedKept
      <3>5. pc = "children" => Rendered(k) \/ \E i \in 1..Len(todo) : todo[i] = k
        BY <1>0, <3>1, <3>3 DEF RenderedInv
      <3>6. CASE UNCHANGED workerVars
        BY <1>4, <3>4, <3>5, <3>6 DEF workerVars
      <3>7. CASE CheckUserSecret
        <4>1. todo' = SitePlan /\ Desired.mode = "External"
          BY <1>4, <3>3, <3>7 DEF CheckUserSecret, Persist, PassInv
        <4> QED
          BY <3>3, <4>1, PlanOfPass
      <3>8. ASSUME NEW j \in ChildKinds, ApplyChild(j)
            PROVE  Rendered(k)' \/ \E i \in 1..Len(todo') : todo'[i] = k
        <4>1. pc = "children" /\ todo # <<>> /\ j = Head(todo) /\ todo' = Tail(todo)
          BY <1>4, <3>8, VisitLeaves
        <4>2. CASE Rendered(k) \/ k = j
          BY <3>4, <3>8, <4>2
        <4>3. CASE \E i \in 1..Len(todo) : todo[i] = k /\ i # 1
          <5>1. PICK i \in 1..Len(todo) : todo[i] = k /\ i # 1
            BY <4>3
          <5>2. i - 1 \in 1..Len(todo') /\ todo'[i - 1] = k
            BY <4>1, <5>1 DEF TypeOK
          <5> QED
            BY <5>2
        <4>4. todo[1] = j
          BY <4>1
        <4> QED
          BY <3>5, <4>1, <4>2, <4>3, <4>4
      <3>9. ~UpdateStatus
        BY <1>4 DEF UpdateStatus, Persist
      <3> QED
        BY <2>2, <3>6, <3>7, <3>8, <3>9
    <2> QED
      BY <2>0, <2>1, <2>2, PassCases
  <1> QED
    BY <1>3, <1>4

-----------------------------------------------------------------------------
(* The theorem *)

\* The invariant holds at first and after every step.
LEMMA ObservationInductive ==
  /\ Init => ObservationInv
  /\ TypeOK /\ FinalizerInv /\ OrderInv /\ ObservationInv /\ [Next]_vars => ObservationInv'
<1>1. Init => ObservationInv
  <2> SUFFICES ASSUME Init PROVE ObservationInv
    OBVIOUS
  <2>1. obj["WordPress"] = <<Absent>> /\ pc = "idle"
    BY NothingAtFirst DEF Init
  <2>2. Seen = {Absent} /\ Resource = Absent /\ Len(obj["WordPress"]) = 1
    BY <2>1 DEF Seen, Live
  <2>3. GenerationInv
    BY <2>1, <2>2 DEF GenerationInv, Before
  <2> QED
    BY <2>1, <2>2, <2>3 DEF ObservationInv, PassInv, Passing, RenderedInv
<1>2. ASSUME TypeOK, FinalizerInv, OrderInv, ObservationInv, [Next]_vars
      PROVE  ObservationInv'
  <2>1. TypeOK' /\ FinalizerInv' /\ OrderInv'
    BY <1>2, TypeInductive, FinalizerInductive, OrderInductive
  <2>2. ResourceHistory /\ StreamStep("WordPress")
    BY <1>2, NextHistory, NextStreamStep DEF Kinds
  <2>3. /\ used["create"] \in Nat /\ used'["create"] \in Nat
        /\ used["create"] <= used'["create"]
        /\ Undrifted' => Undrifted
    BY <1>2, CountsGrow DEF Undrifted, Disturbances
  <2>4. GenerationInv /\ PassInv /\ RenderedInv
    BY <1>2 DEF ObservationInv
  <2>5. GenerationInv'
    BY <1>2, <2>1, <2>2, <2>3, <2>4, GenerationStep
  <2>6. PassInv'
    BY <1>2, <2>1, <2>2, <2>4, PassStep
  <2>7. RenderedInv'
    BY <1>2, <2>1, <2>2, <2>3, <2>4, RenderedStep
  <2> QED
    BY <2>5, <2>6, <2>7 DEF ObservationInv
<1> QED
  BY <1>1, <1>2

\* The observed generation can be relied on: whoever finds it equal to the
\* generation of the resource finds the workloads and the Service of that
\* generation's spec, though the pass that reports it read everything from
\* caches and its status write may come late or be repeated (updateStatus,
\* persistStatus).
THEOREM ObservedAlwaysMeansRendered == Spec => []ObservedMeansRendered
<1> DEFINE IInv == FinalizerInv /\ OrderInv /\ ObservationInv
<1>1. Init => IInv
  BY FinalizerInductive, OrderInductive, ObservationInductive
<1>2. TypeOK /\ IInv /\ [Next]_vars => IInv'
  BY TypeInductive, FinalizerInductive, OrderInductive, ObservationInductive
<1>3. TypeOK /\ IInv => ObservedMeansRendered
  <2> SUFFICES ASSUME TypeOK, IInv, Running, Resource.status.observed = Resource.gen,
                      used["drift"] = 0, used["scale"] = 0,
                      NEW k \in Visited \cap ServerDefaulted,
                      Live(k) # Absent, Live(k).owner = Resource.uid
               PROVE  Matches(k)
    BY DEF ObservedMeansRendered
  <2>1. Resource # Absent /\ Resource \in Seen
    BY VersionNumbers DEF Running
  <2>2. Reported /\ Undrifted
    BY <2>1 DEF Reported, Undrifted
  <2>3. Live(k).content = Render(k, Desired)
    BY <2>1, <2>2 DEF ObservationInv, RenderedInv, AllRendered, Reflected, Rendered
  <2> QED
    BY <2>3, Zenon DEF Matches
<1> QED
  BY <1>1, <1>2, <1>3, TypeCorrect, PTL DEF Spec

-----------------------------------------------------------------------------
(* The storage *)

\* Until a spec is edited, all that is known of a resource asks for the storage
\* it was submitted with, and so does the StatefulSet made for it.
StorageInv ==
  (used["edit"] = 0 /\ Resource # Absent) =>
    /\ \A v \in Seen \ {Absent} :
         v.uid = Resource.uid => v.spec.storage = Resource.spec.storage
    /\ Passing => wp.spec.storage = Resource.spec.storage
    /\ Owned("StatefulSet") =>
         Live("StatefulSet").claims = ClaimTemplates("StatefulSet", Resource.spec)

\* Neither the defaults nor the document sent back touch the storage.
LEMMA StorageOf ==
  ASSUME NEW s \in Specs
  PROVE  applyDefaults(s).storage = s.storage /\ WriteBack(s).storage = s.storage
  <1>1. applyDefaults(s).storage = s.storage /\ applyDefaults(s) \in Specs
    BY SpecOperators DEF applyDefaults, Specs
  <1>2. \A t \in Specs : [t EXCEPT !.full = TRUE, !.persist = TRUE].storage = t.storage
    BY DEF Specs
  <1> QED
    BY <1>1, <1>2 DEF WriteBack

\* What a stored resource asks for changes by an edit only.
LEMMA ResourceStorage ==
  ASSUME TypeOK, [Next]_vars, used'["edit"] = 0, Resource # Absent, Resource' # Absent
  PROVE  Resource'.uid = Resource.uid /\ Resource'.spec.storage = Resource.spec.storage
  <1>0. /\ "WordPress" \in Kinds /\ Resource \in Resources /\ Resource.spec \in Specs
    BY ResourceVersions DEF TypeOK, Kinds, Resources
  <1>1. Resource'.uid = Resource.uid
    BY NextHistory DEF ResourceHistory, Revised, Created
  <1>2. CASE Resource'.spec = Resource.spec
    BY <1>1, <1>2
  <1>3. CASE Worker /\ Resource'.spec # Resource.spec
    BY <1>0, <1>1, <1>3, WorkerSpec, StorageOf
  <1>4. ~EditSpec
    <2>1. used \in [Disturbances -> Nat] /\ "edit" \in Disturbances /\ \A n \in Nat : n + 1 # 0
      BY DEF TypeOK, ClusterTypeOK, Disturbances
    <2> QED
      BY <2>1 DEF EditSpec, Spend
  <1>5. ASSUME Environment, Resource'.spec # Resource.spec
        PROVE  FALSE
    <2>1. \A k \in Kinds \ {"WordPress"} : \A v : ~Put(k, v)
      BY <1>0, <1>5, PutLive DEF Only
    <2>2. \A v : PutWordPress(v) => Resource' = v
      BY <1>0, PutLive DEF PutWordPress
    <2>3. ~CreateWordPress /\ ~Annotate /\ ~DeleteWordPress
      BY <1>0, <1>5, <2>2 DEF CreateWordPress, Annotate, DeleteWordPress, Resources
    <2>4. /\ {"UserSecret", "MySQLPVC", "Deployment"} \subseteq Kinds \ {"WordPress"}
          /\ Workloads \subseteq Kinds \ {"WordPress"}
          /\ ChildKinds \subseteq Kinds \ {"WordPress"}
      BY DEF Kinds, Workloads, ChildKinds, DatabaseKinds, SiteKinds
    <2>5. /\ ~ToggleUserSecret /\ ~Autoscale
          /\ ~ProvisionVolume /\ ~InitialiseVolume /\ ~ReleaseVolume
      BY <2>1, <2>4 DEF ToggleUserSecret, Autoscale, ProvisionVolume, InitialiseVolume,
         ReleaseVolume
    <2>6. \A k \in ChildKinds : ~Drift(k) /\ ~CreateForeign(k) /\ ~CollectGarbage(k)
      BY <2>1, <2>4 DEF Drift, CreateForeign, CollectGarbage
    <2>7. \A k \in Workloads : ~BecomeReady(k) /\ ~RollOut(k) /\ ~BecomeUnready(k)
      BY <2>1, <2>4 DEF BecomeReady, RollOut, BecomeUnready
    <2> QED
      BY <1>4, <1>5, <2>3, <2>5, <2>6, <2>7 DEF Environment
  <1>6. CASE TimerFires \/ UNCHANGED vars \/ Restart \/ \E k \in Kinds : Deliver(k)
    <2>1. Resource' = Resource
      BY <1>6, EventSeen DEF TimerFires, vars, clusterVars, Same, Live
    <2> QED
      BY <1>1, <2>1
  <1> QED
    BY <1>2, <1>3, <1>5, <1>6 DEF Next

\* The claim templates are made with the StatefulSet, by a pass for its owner,
\* and stay with it (buildMySQLStatefulSet, reconcileDatabase).
LEMMA TemplatesStep ==
  ASSUME TypeOK, [Next]_vars, NEW k \in {"StatefulSet"}, Live(k)' # Live(k), Live(k)' # Absent
  PROVE  \/ /\ Live(k) # Absent
            /\ Live(k)'.owner = Live(k).owner /\ Live(k)'.claims = Live(k).claims
         \/ /\ Passing /\ Live(k)'.owner = wp.uid
            /\ Live(k)'.claims = ClaimTemplates(k, wp.spec)
  <1>0. /\ k \in Kinds /\ k \in ChildKinds /\ k \notin Optional
        /\ {"WordPress", "UserSecret", "MySQLPVC", "Deployment"} \subseteq Kinds \ {k}
        /\ Workloads \subseteq Kinds /\ ChildKinds \subseteq Kinds
        /\ Live(k) \in {Absent} \cup Children
    BY ResourceVersions DEF TypeOK, Kinds, Workloads, Optional, ChildKinds, DatabaseKinds, SiteKinds
  <1>1. /\ \A j \in Kinds \ {k} : \A v : ~Put(j, v)
        /\ \A v : Put(k, v) => Live(k)' = v
    BY <1>0, PutLive DEF Only
  <1>2. ~UNCHANGED obj
    BY DEF Live
  <1>3. ~Restart /\ \A j \in Kinds : ~Deliver(j)
    BY <1>0, NothingStored DEF Untouched
  <1>4. \A c \in Children : \A x, y :
          /\ Changed(c, x).owner = c.owner /\ Changed(c, x).claims = c.claims
          /\ [c EXCEPT !.pods = y].owner = c.owner /\ [c EXCEPT !.pods = y].claims = c.claims
          /\ [Changed(c, x) EXCEPT !.password = y].owner = c.owner
          /\ [Changed(c, x) EXCEPT !.password = y].claims = c.claims
    BY DEF Changed, Children
  <1>5. CASE ApplyChild(k)
    <2>1. PICK r \in IF Call(k) = "none" THEN {"ok"} ELSE Outcomes(Result(k)) :
            IF Effective(r, Result(k))
            THEN \E p \in Generated : Put(k, Written(k, p))
            ELSE UNCHANGED obj
      BY <1>5 DEF ApplyChild
    <2>2. PICK p \in Generated : Effective(r, Result(k)) /\ Live(k)' = Written(k, p)
      BY <1>1, <1>2, <2>1
    <2>3. CASE Call(k) = "create"
      BY <1>5, <2>2, <2>3 DEF Written, ApplyChild, Passing
    <2>4. CASE Call(k) = "update"
      <3>1. Live(k) \in Children /\ Live(k) # Absent
        BY <1>0, ClusterAssumption, <2>1, <2>2, <2>4 DEF Effective, Outcomes, Result, UpdateResult
      <3>2. Live(k)' = [Changed(Live(k), Render(k, wp.spec)) EXCEPT !.password = Password(k, p)]
        BY <2>2, <2>4 DEF Written
      <3> QED
        BY <1>4, <3>1, <3>2
    <2> QED
      BY <2>2, <2>3, <2>4 DEF Written
  <1>6. ASSUME Worker, ~ApplyChild(k)
        PROVE  FALSE
    <2>1. ~AddFinalizer
      <3>1. AddFinalizer => UNCHANGED obj \/ \E v : Put("WordPress", v)
        BY DEF AddFinalizer, PutWordPress
      <3> QED
        BY <1>0, <1>1, <1>2, <3>1
    <2>2. ~RemoveFinalizer /\ ~PersistStatus
      BY <1>0, <1>1, <1>2 DEF RemoveFinalizer, PersistStatus, PutWordPress
    <2>3. ~HandleDeletion
      BY <1>0, <1>1, <1>2 DEF HandleDeletion
    <2>4. \A j \in ChildKinds : ~ApplyChild(j)
      BY <1>0, <1>1, <1>2, <1>6 DEF ApplyChild
    <2>5. /\ ~ReconcileFinished /\ ~RejectSpec /\ ~AcceptSpec
          /\ ~CheckUserSecret /\ ~UpdateStatus
      BY <1>2 DEF ReconcileFinished, RejectSpec, AcceptSpec, CheckUserSecret, UpdateStatus,
         clusterVars
    <2> QED
      BY <1>6, <2>1, <2>2, <2>3, <2>4, <2>5 DEF Worker
  <1>7. CASE Environment
    <2>1. ~CreateWordPress /\ ~EditSpec /\ ~Annotate /\ ~DeleteWordPress
      BY <1>0, <1>1 DEF CreateWordPress, EditSpec, Annotate, DeleteWordPress, PutWordPress
    <2>2. /\ ~ToggleUserSecret /\ ~Autoscale
          /\ ~ProvisionVolume /\ ~InitialiseVolume /\ ~ReleaseVolume
      BY <1>0, <1>1 DEF ToggleUserSecret, Autoscale, ProvisionVolume, InitialiseVolume,
         ReleaseVolume
    <2>3. \A j \in ChildKinds : ~CreateForeign(j) /\ ~CollectGarbage(j)
      BY <1>0, <1>1 DEF CreateForeign, CollectGarbage
    <2>4. \A j \in ChildKinds : Drift(j) =>
            j = k /\ Live(k) \in Children /\ Live(k) # Absent /\ Live(k)' = Changed(Live(k), Alien)
      BY <1>0, <1>1 DEF Drift
    <2>5. \A j \in Workloads : BecomeReady(j) \/ RollOut(j) \/ BecomeUnready(j) =>
            /\ Live(k) \in Children /\ Live(k) # Absent
            /\ \E y : Live(k)' = [Live(k) EXCEPT !.pods = y]
      <3>1. \A j \in Workloads : BecomeReady(j) \/ RollOut(j) \/ BecomeUnready(j) =>
              Live(j) # Absent /\ \E y : Put(j, [Live(j) EXCEPT !.pods = y])
        BY DEF BecomeReady, RollOut, BecomeUnready
      <3> QED
        BY <1>0, <1>1, <3>1
    <2>6. \/ \E j \in ChildKinds : Drift(j)
          \/ \E j \in Workloads : BecomeReady(j) \/ RollOut(j) \/ BecomeUnready(j)
      BY <1>7, <2>1, <2>2, <2>3, Zenon DEF Environment
    <2>7. /\ Live(k) \in Children /\ Live(k) # Absent
          /\ \/ Live(k)' = Changed(Live(k), Alien)
             \/ \E y : Live(k)' = [Live(k) EXCEPT !.pods = y]
      BY <2>4, <2>5, <2>6, Zenon
    <2>8. CASE Live(k)' = Changed(Live(k), Alien)
      BY <1>4, <2>7, <2>8
    <2>9. CASE \E y : Live(k)' = [Live(k) EXCEPT !.pods = y]
      <3>1. PICK y : Live(k)' = [Live(k) EXCEPT !.pods = y]
        BY <2>9
      <3> QED
        BY <1>4, <2>7, <3>1
    <2> QED
      BY <2>7, <2>8, <2>9
  <1> QED
    BY <1>2, <1>3, <1>5, <1>6, <1>7 DEF Next, TimerFires, vars, clusterVars

\* What a pass works from asks for the storage of the stored resource.
LEMMA PassStorage ==
  ASSUME TypeOK, TypeOK', [Next]_vars, FinalizerInv, FinalizerInv', GenerationInv, StorageInv,
         used["edit"] = 0, used'["edit"] = 0, Resource # Absent, Resource' # Absent, Passing'
  PROVE  wp'.spec.storage = Resource'.spec.storage
  <1>1. Resource'.uid = Resource.uid /\ Resource'.spec.storage = Resource.spec.storage
    BY ResourceStorage
  <1>2. CASE RejectSpec \/ AcceptSpec
    <2>1. /\ Cached("WordPress") \in Seen \ {Absent} /\ Cached("WordPress").spec \in Specs
          /\ wp'.uid = Cached("WordPress").uid
          /\ wp'.spec = applyDefaults(Cached("WordPress").spec)
      BY <1>2, PassStarts, VersionNumbers DEF Resources
    <2>2. wp'.uid = Resource'.uid
      BY DEF FinalizerInv, FinalizerHeld, Passing
    <2>3. Cached("WordPress").spec.storage = Resource.spec.storage
      BY <1>1, <2>1, <2>2 DEF StorageInv
    <2> QED
      BY <1>1, <2>1, <2>3, StorageOf
  <1>3. CASE Passing /\ wp'.spec = wp.spec
    BY <1>1, <1>3 DEF StorageInv
  <1> QED
    BY <1>2, <1>3, PassCases

\* The invariant holds at first and every step keeps it.
LEMMA StorageInductive ==
  /\ Init => StorageInv
  /\ /\ TypeOK /\ FinalizerInv /\ OrderInv /\ ObservationInv /\ StorageInv
     /\ [Next]_vars
     => StorageInv'
<1>1. Init => StorageInv
  <2> SUFFICES ASSUME Init PROVE StorageInv
    OBVIOUS
  <2>1. obj["WordPress"] = <<Absent>>
    BY NothingAtFirst
  <2> QED
    BY <2>1 DEF StorageInv, Live
<1>2. ASSUME TypeOK, FinalizerInv, OrderInv, ObservationInv, StorageInv, [Next]_vars,
             used'["edit"] = 0, Resource' # Absent
      PROVE  /\ \A v \in Seen' \ {Absent} :
                  v.uid = Resource'.uid => v.spec.storage = Resource'.spec.storage
             /\ Passing' => wp'.spec.storage = Resource'.spec.storage
             /\ Owned("StatefulSet")' =>
                  Live("StatefulSet")'.claims = ClaimTemplates("StatefulSet", Resource'.spec)
  <2>0. /\ TypeOK' /\ FinalizerInv' /\ GenerationInv /\ "StatefulSet" \in ChildKinds
        /\ used["edit"] = 0 /\ used["create"] \in Nat
        /\ Seen' \subseteq Seen \cup {Resource'}
    BY <1>2, TypeInductive, FinalizerInductive, CountsGrow, SeenGrows
    DEF ObservationInv, ChildKinds, DatabaseKinds, Disturbances
  <2> DEFINE k == "StatefulSet"
  <2>1. CASE Resource # Absent
    <3>1. Resource'.uid = Resource.uid /\ Resource'.spec.storage = Resource.spec.storage
      BY <1>2, <2>1, ResourceStorage
    <3>2. Passing' => wp'.spec.storage = Resource'.spec.storage
      BY <1>2, <2>0, <2>1, PassStorage
    <3>3. ASSUME Owned(k)'
          PROVE  Live(k)'.claims = ClaimTemplates(k, Resource'.spec)
      <4>1. Live(k)' # Absent /\ Live(k)'.owner = Resource.uid
        BY <3>1, <3>3 DEF Owned
      <4>2. ClaimTemplates(k, Resource'.spec) = ClaimTemplates(k, Resource.spec)
        BY <3>1 DEF ClaimTemplates
      <4>3. CASE Live(k) # Absent /\ Live(k)'.owner = Live(k).owner
                 /\ Live(k)'.claims = Live(k).claims
        BY <1>2, <2>0, <2>1, <4>1, <4>2, <4>3 DEF StorageInv, Owned
      <4>4. CASE Passing /\ Live(k)'.claims = ClaimTemplates(k, wp.spec)
        BY <1>2, <2>0, <2>1, <4>2, <4>4 DEF StorageInv, ClaimTemplates
      <4>5. CASE Live(k)' = Live(k)
        BY <4>1, <4>3, <4>5
      <4> QED
        BY <1>2, <4>1, <4>3, <4>4, <4>5, TemplatesStep
    <3>4. ASSUME NEW v \in Seen', v # Absent, v.uid = Resource'.uid
          PROVE  v.spec.storage = Resource'.spec.storage
      BY <1>2, <2>0, <2>1, <3>1, <3>4 DEF StorageInv
    <3> QED
      BY <3>2, <3>3, <3>4
  <2>2. CASE Resource = Absent
    <3>1. Resource'.uid = used["create"] + 1
      BY <1>2, <2>2, NextHistory DEF ResourceHistory, Created, Revised
    <3>2. \A m, n \in Nat : m <= n => m # n + 1
      OBVIOUS
    <3>3. ASSUME NEW v \in Seen', v # Absent, v.uid = Resource'.uid
          PROVE  v = Resource'
      <4> SUFFICES ASSUME v \in Seen PROVE FALSE
        BY <2>0
      <4>1. v.uid \in Nat /\ v.uid <= used["create"]
        BY <1>2, <2>0, <3>3, VersionNumbers DEF GenerationInv
      <4> QED
        BY <2>0, <3>1, <3>2, <3>3, <4>1
    <3>4. ~Passing /\ ~Passing'
      <4>1. ~Passing
        BY <1>2, <2>2 DEF FinalizerInv, FinalizerHeld, Passing
      <4>2. RejectSpec \/ AcceptSpec => Resource' = Resource
        BY <1>2, <2>0, PassStarts
      <4> QED
        BY <1>2, <2>0, <2>2, <4>1, <4>2, PassCases
    <3>5. ~Owned(k)'
      <4> SUFFICES ASSUME Owned(k)' PROVE FALSE
        OBVIOUS
      <4>1. Live(k)' # Absent /\ Live(k)'.owner = Resource'.uid
        BY DEF Owned
      <4>2. Live(k) # Absent /\ Live(k).owner = Live(k)'.owner
        BY <1>2, <3>4, <4>1, TemplatesStep
      <4>3. Live(k).owner <= used["create"] /\ Live(k).owner \in Nat
        <5>1. Live(k) \in Stream(k) /\ Live(k) \in {Absent} \cup Children
          BY <1>2, <2>0, LiveInStream, ResourceVersions, Apart DEF TypeOK
        <5> QED
          BY <1>2, <2>0, <4>2, <5>1 DEF OrderInv, Children
      <4> QED
        BY <2>0, <3>1, <3>2, <4>1, <4>2, <4>3
    <3> QED
      BY <3>3, <3>4, <3>5
  <2> QED
    BY <2>1, <2>2
<1> QED
  BY <1>1, <1>2 DEF StorageInv

\* A database is made with the storage its own resource asks for: while no spec
\* has been edited, the claim templates of a resource's StatefulSet are what the
\* spec says, whichever cached copy the creation was decided from and whatever a
\* predecessor has left behind (buildMySQLStatefulSet, reconcileDatabase). Edits
\* are what the property leaves out: no update touches the templates.
THEOREM StorageAlwaysAsSubmitted == Spec => []StorageAsSubmitted
<1> DEFINE IInv == FinalizerInv /\ OrderInv /\ ObservationInv /\ StorageInv
<1>1. Init => IInv
  BY FinalizerInductive, OrderInductive, ObservationInductive, StorageInductive
<1>2. TypeOK /\ IInv /\ [Next]_vars => IInv'
  BY TypeInductive, FinalizerInductive, OrderInductive, ObservationInductive, StorageInductive
<1>3. TypeOK /\ IInv => StorageAsSubmitted
  BY DEF StorageAsSubmitted, StorageInv, Owned
<1> QED
  BY <1>1, <1>2, <1>3, TypeCorrect, PTL DEF Spec
=============================================================================
