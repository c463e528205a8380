--------------------------- MODULE NamespaceProofs ---------------------------
(***************************************************************************)
(* What holds of any set of resources with any documents.  Of the objects  *)
(* built: names meet in one case only, Services reach their own pods, and  *)
(* references resolve.  Of the documents: the finalizer can be added, both *)
(* sets of defaults agree, accepted specs can be built, and the spec of    *)
(* the controller's model says the same as the document.                   *)
(***************************************************************************)
EXTENDS Namespace, TLAPS

\* Appending the same words keeps different names different.
LEMMA AppendInjective ==
  ASSUME NEW n \in Seq(Words), NEW m \in Seq(Words), NEW x \in Words, NEW y \in Words,
         Append(n, x) = Append(m, y)
  PROVE  n = m /\ x = y
<1>1. Len(n) = Len(m)
  BY Len(Append(n, x)) = Len(n) + 1, Len(Append(m, y)) = Len(m) + 1
<1>2. \A i \in 1..Len(n) : n[i] = m[i]
  BY <1>1, \A i \in 1..Len(n) : Append(n, x)[i] = n[i], \A i \in 1..Len(m) : Append(m, y)[i] = m[i]
<1>3. n = m
  BY <1>1, <1>2
<1>4. x = y
  BY <1>1, Append(n, x)[Len(n) + 1] = x, Append(m, y)[Len(m) + 1] = y
<1> QED BY <1>3, <1>4

LEMMA SuffixInjective ==
  ASSUME NEW n \in Seq(Words), NEW m \in Seq(Words), NEW s \in Seq(Words), n \o s = m \o s
  PROVE  n = m
<1>1. Len(n) = Len(m)
  BY Len(n \o s) = Len(n) + Len(s), Len(m \o s) = Len(m) + Len(s)
<1>2. \A i \in 1..Len(n) : n[i] = m[i]
  BY <1>1, \A i \in 1..Len(n) : (n \o s)[i] = n[i], \A i \in 1..Len(m) : (m \o s)[i] = m[i]
<1> QED BY <1>1, <1>2

\* A name and one derived from it differ.
LEMMA AppendDiffers ==
  ASSUME NEW n \in Seq(Words), NEW x \in Words
  PROVE  n # Append(n, x)
BY Len(Append(n, x)) = Len(n) + 1

-----------------------------------------------------------------------------

Builders(n, w) ==
  {buildMySQLSecret(n), buildMySQLHeadlessService(n), buildMySQLStatefulSet(n, w),
   buildWordPressPVC(n), buildWordPressDeployment(n, w), buildWordPressService(n, w),
   buildWordPressIngress(n, w), buildWordPressHPA(n)}

LEMMA BuiltByBuilders ==
  ASSUME NEW n, NEW w PROVE Built(n, w) \subseteq Builders(n, w)
BY DEF Built, Builders

LEMMA KindsAndNames ==
  ASSUME NEW n, NEW w
  PROVE  /\ buildMySQLSecret(n).kind = "Secret" /\ buildMySQLSecret(n).name = dbSecretName(n)
         /\ buildMySQLHeadlessService(n).kind = "Service"
         /\ buildMySQLHeadlessService(n).name = dbServiceName(n)
         /\ buildMySQLStatefulSet(n, w).kind = "StatefulSet"
         /\ buildMySQLStatefulSet(n, w).name = dbStatefulSetName(n)
         /\ buildWordPressPVC(n).kind = "PVC" /\ buildWordPressPVC(n).name = wpPVCName(n)
         /\ buildWordPressDeployment(n, w).kind = "Deployment"
         /\ buildWordPressDeployment(n, w).name = wpName(n)
         /\ buildWordPressService(n, w).kind = "Service" /\ buildWordPressService(n, w).name = wpName(n)
         /\ buildWordPressIngress(n, w).kind = "Ingress" /\ buildWordPressIngress(n, w).name = wpName(n)
         /\ buildWordPressHPA(n).kind = "HPA" /\ buildWordPressHPA(n).name = hpaName(n)
<1>1. /\ buildMySQLSecret(n).kind = "Secret" /\ buildMySQLSecret(n).name = dbSecretName(n)
      /\ buildWordPressPVC(n).kind = "PVC" /\ buildWordPressPVC(n).name = wpPVCName(n)
      /\ buildWordPressHPA(n).kind = "HPA" /\ buildWordPressHPA(n).name = hpaName(n)
      /\ buildWordPressIngress(n, w).kind = "Ingress" /\ buildWordPressIngress(n, w).name = wpName(n)
  BY DEF buildMySQLSecret, buildWordPressPVC, buildWordPressHPA, buildWordPressIngress, Plain
<1>2. /\ buildMySQLHeadlessService(n).kind = "Service"
      /\ buildMySQLHeadlessService(n).name = dbServiceName(n)
      /\ buildWordPressService(n, w).kind = "Service" /\ buildWordPressService(n, w).name = wpName(n)
  BY DEF buildMySQLHeadlessService, buildWordPressService
<1>3. /\ buildMySQLStatefulSet(n, w).kind = "StatefulSet"
      /\ buildMySQLStatefulSet(n, w).name = dbStatefulSetName(n)
      /\ buildWordPressDeployment(n, w).kind = "Deployment"
      /\ buildWordPressDeployment(n, w).name = wpName(n)
  BY DEF buildMySQLStatefulSet, buildWordPressDeployment
<1> QED BY <1>1, <1>2, <1>3

LEMMA NameByKind ==
  ASSUME NEW n, NEW w, NEW o \in Builders(n, w)
  PROVE  /\ o.kind = "Secret" => o.name = dbSecretName(n)
         /\ o.kind = "Service" => o.name \in {dbServiceName(n), wpName(n)}
         /\ o.kind = "StatefulSet" => o.name = dbStatefulSetName(n)
         /\ o.kind = "PVC" => o.name = wpPVCName(n)
         /\ o.kind \in {"Deployment", "Ingress"} => o.name = wpName(n)
         /\ o.kind = "HPA" => o.name = hpaName(n)
         /\ o.kind \in {"Secret", "Service", "StatefulSet", "PVC", "Deployment", "Ingress", "HPA"}
BY KindsAndNames DEF Builders

\* Two resources meet in one kind and in one way.
LEMMA OneCollision ==
  ASSUME NEW n \in Seq(Words), NEW m \in Seq(Words), NEW v, NEW w,
         NEW o \in Builders(n, v), NEW p \in Builders(m, w),
         n # m, o.kind = p.kind, o.name = p.name
  PROVE  o.kind = "Service" /\ (m = dbServiceName(n) \/ n = dbServiceName(m))
<1>1. CASE o.kind = "Secret"
  <2>1. <<"mysql", "credentials">> \in Seq(Words)
    BY WordsAssumption
  <2>2. n \o <<"mysql", "credentials">> = m \o <<"mysql", "credentials">>
    BY <1>1, NameByKind DEF dbSecretName
  <2> QED BY <2>1, <2>2, SuffixInjective
<1>2. CASE o.kind \in {"StatefulSet", "PVC", "HPA"}
  <2>1. \E x \in {"mysql", "content", "hpa"} : Append(n, x) = Append(m, x)
    BY <1>2, NameByKind DEF dbStatefulSetName, wpPVCName, hpaName
  <2> QED BY <2>1, WordsAssumption, AppendInjective
<1>3. CASE o.kind \in {"Deployment", "Ingress"}
  BY <1>3, NameByKind DEF wpName
<1>4. CASE o.kind = "Service"
  <2>1. o.name \in {dbServiceName(n), n} /\ p.name \in {dbServiceName(m), m}
    BY <1>4, NameByKind DEF wpName
  <2>2. dbServiceName(n) # dbServiceName(m)
    BY WordsAssumption, AppendInjective DEF dbServiceName
  <2> QED BY <1>4, <2>1, <2>2
<1> QED BY <1>1, <1>2, <1>3, <1>4, NameByKind

-----------------------------------------------------------------------------

StoredNames == DOMAIN stored \subseteq Names

LEMMA NamesStored == Spec => []StoredNames
<1>1. Init => StoredNames
  BY DEF Init, StoredNames
<1>2. StoredNames /\ [Next]_vars => StoredNames'
  <2> SUFFICES ASSUME StoredNames, [Next]_vars PROVE StoredNames'
    OBVIOUS
  <2>1. ASSUME NEW n \in Names, Submit(n) PROVE StoredNames'
    BY <2>1 DEF Submit, StoredNames
  <2>2. ASSUME NEW n \in Names, Edit(n) \/ AddFinalizer(n) \/ Remove(n) PROVE StoredNames'
    BY <2>2 DEF Edit, AddFinalizer, Remove, StoredNames
  <2>3. CASE UNCHANGED vars
    BY <2>3 DEF vars, StoredNames
  <2> QED BY <2>1, <2>2, <2>3 DEF Next
<1> QED BY <1>1, <1>2, PTL DEF Spec

\* Whatever documents are stored under whatever names, objects of two resources
\* share a name only where the Service of one database has the name of the
\* other site (names.go).
THEOREM NamesAlwaysDistinct == Spec => []NamesDistinct
<1>1. StoredNames => NamesDistinct
  <2> SUFFICES ASSUME StoredNames, NEW n \in Accepted, NEW m \in Accepted,
                      NEW o \in Objects(n), NEW p \in Objects(m),
                      n # m, o.kind = p.kind, o.name = p.name
               PROVE  o.kind = "Service" /\ (m = dbServiceName(n) \/ n = dbServiceName(m))
    BY DEF NamesDistinct
  <2>1. n \in Seq(Words) /\ m \in Seq(Words)
    BY NamespaceAssumption DEF StoredNames, Accepted
  <2>2. /\ o \in Builders(n, Effective(stored[n]))
        /\ p \in Builders(m, Effective(stored[m]))
    BY BuiltByBuilders DEF Objects
  <2> QED BY <2>1, <2>2, OneCollision
<1> QED BY <1>1, NamesStored, PTL

-----------------------------------------------------------------------------

\* Of two selectors that match the same labels, both name the same resource and
\* component.
LEMMA SameSelector ==
  ASSUME NEW n, NEW m, NEW c, NEW d, NEW labels,
         Matched(selectorLabels(n, c), labels), Matched(selectorLabels(m, d), labels)
  PROVE  n = m /\ c = d
<1>1. \A i, e : /\ DOMAIN selectorLabels(i, e) = {"name", "instance", "component"}
               /\ selectorLabels(i, e)["instance"] = i
               /\ selectorLabels(i, e)["component"] = e
  BY DEF selectorLabels
<1> QED BY <1>1 DEF Matched

LEMMA Selected ==
  ASSUME NEW n \in Seq(Words), NEW m, NEW v, NEW w,
         NEW s \in Builders(n, v), NEW o \in Builders(m, w),
         s.kind = "Service", Selects(s, o)
  PROVE  /\ n = m
         /\ o.kind = IF s.name = dbServiceName(n) THEN "StatefulSet" ELSE "Deployment"
         /\ s.ports \subseteq o.ports
<1>1. \/ s.name = dbServiceName(n) /\ s.ports = {3306} /\ s.selector = selectorLabels(n, "mysql")
      \/ s.name = n /\ s.ports = {80} /\ s.selector = selectorLabels(n, "wordpress")
  <2>1. s \in {buildMySQLHeadlessService(n), buildWordPressService(n, v)}
    BY KindsAndNames DEF Builders
  <2> QED BY <2>1 DEF buildMySQLHeadlessService, buildWordPressService, wpName
<1>2. \/ o.kind = "StatefulSet" /\ o.ports = {3306} /\ o.selector = selectorLabels(m, "mysql")
      \/ o.kind = "Deployment" /\ o.ports = {80} /\ o.selector = selectorLabels(m, "wordpress")
  <2>1. o.kind \in {"StatefulSet", "Deployment"}
    BY DEF Selects, Runs, Workload
  <2>2. o \in {buildMySQLStatefulSet(m, w), buildWordPressDeployment(m, w)}
    BY <2>1, KindsAndNames DEF Builders
  <2> QED BY <2>2 DEF buildMySQLStatefulSet, buildWordPressDeployment
<1>3. Matched(s.selector, o.labels) /\ Matched(o.selector, o.labels)
  BY DEF Selects, Runs
<1>4. n # dbServiceName(n)
  BY AppendDiffers, WordsAssumption DEF dbServiceName
<1> QED BY <1>1, <1>2, <1>3, <1>4, SameSelector

\* Whatever pod labels resources set, a Service of one never selects a pod of
\* another, nor one of another component (buildWordPressService,
\* buildMySQLHeadlessService).
THEOREM ServicesAlwaysReachOwnPods == Spec => []ServicesReachOwnPods
<1>1. StoredNames => ServicesReachOwnPods
  <2> SUFFICES ASSUME StoredNames, NEW n \in Accepted, NEW m \in Accepted,
                      NEW s \in Objects(n), NEW o \in Objects(m),
                      s.kind = "Service", Selects(s, o)
               PROVE  /\ n = m
                      /\ o.kind = IF s.name = dbServiceName(n) THEN "StatefulSet" ELSE "Deployment"
                      /\ s.ports \subseteq o.ports
    BY DEF ServicesReachOwnPods
  <2>1. n \in Seq(Words)
    BY NamespaceAssumption DEF StoredNames, Accepted
  <2>2. /\ s \in Builders(n, Effective(stored[n]))
        /\ o \in Builders(m, Effective(stored[m]))
    BY BuiltByBuilders DEF Objects
  <2> QED BY <2>1, <2>2, Selected
<1> QED BY <1>1, NamesStored, PTL

-----------------------------------------------------------------------------

Provided(n, w) == UNION {o.provides : o \in Built(n, w)}

\* References by name: provers need not look into them, nor take the entries of
\* different ones for values of one type.
DatabaseService(n) == <<"Service", dbServiceName(n), 3306>>
Credential(n, key) == <<"Secret", dbSecretName(n), key>>
Account(w)         == <<"Database", w.fields.name, w.fields.user>>

LEMMA AllProvided ==
  ASSUME NEW n, NEW w, NEW o \in Built(n, w)
  PROVE  o.provides \subseteq Provided(n, w)
BY DEF Provided

\* What the objects of a resource provide, by the part of the spec that has
\* them built.
LEMMA SiteProvided ==
  ASSUME NEW n, NEW w
  PROVE  /\ <<"Deployment", wpName(n)>> \in Provided(n, w)
         /\ <<"Service", wpName(n), w.fields.port>> \in Provided(n, w)
<1>1. buildWordPressDeployment(n, w) \in Built(n, w) /\ buildWordPressService(n, w) \in Built(n, w)
  BY DEF Built
<1>2. /\ <<"Deployment", wpName(n)>> \in buildWordPressDeployment(n, w).provides
      /\ <<"Service", wpName(n), w.fields.port>> \in buildWordPressService(n, w).provides
  BY DEF buildWordPressDeployment, buildWordPressService
<1> QED BY <1>1, <1>2, AllProvided

LEMMA DatabaseProvided ==
  ASSUME NEW n, NEW w, w.fields.mode = "Internal"
  PROVE  /\ Credential(n, "mysql-root-password") \in Provided(n, w)
         /\ Credential(n, "wordpress-password") \in Provided(n, w)
         /\ DatabaseService(n) \in Provided(n, w)
         /\ Account(w) \in Provided(n, w)
         /\ ClaimOf(dbStatefulSetName(n)) \in Provided(n, w)
<1>1. /\ buildMySQLSecret(n) \in Built(n, w)
      /\ buildMySQLHeadlessService(n) \in Built(n, w)
      /\ buildMySQLStatefulSet(n, w) \in Built(n, w)
  BY DEF Built
<1>2. /\ Credential(n, "mysql-root-password") \in buildMySQLSecret(n).provides
      /\ Credential(n, "wordpress-password") \in buildMySQLSecret(n).provides
  BY DEF buildMySQLSecret, Plain, Credential
<1>3. DatabaseService(n) \in buildMySQLHeadlessService(n).provides
  BY DEF buildMySQLHeadlessService, DatabaseService
<1>4. /\ Account(w) \in buildMySQLStatefulSet(n, w).provides
      /\ ClaimOf(dbStatefulSetName(n)) \in buildMySQLStatefulSet(n, w).provides
  BY DEF buildMySQLStatefulSet, Account
<1> QED BY <1>1, <1>2, <1>3, <1>4, AllProvided

LEMMA ContentProvided ==
  ASSUME NEW n, NEW w, w.fields.persist
  PROVE  <<"Claim", wpPVCName(n)>> \in Provided(n, w)
<1>1. buildWordPressPVC(n) \in Built(n, w)
  BY DEF Built
<1>2. <<"Claim", wpPVCName(n)>> \in buildWordPressPVC(n).provides
  BY DEF buildWordPressPVC, Plain
<1> QED BY <1>1, <1>2, AllProvided

LEMMA AddressProvided ==
  ASSUME NEW n, NEW w, w.fields.exposed
  PROVE  buildWordPressIngress(n, w).provides \subseteq Provided(n, w)
BY AllProvided DEF Built

\* What an object refers to is provided for the same resource.
LEMMA ObjectResolves ==
  ASSUME NEW n, NEW w, NEW o \in Built(n, w)
  PROVE  o.needs \subseteq Provided(n, w)
<1>a. w.fields.persist => <<"Claim", wpPVCName(n)>> \in Provided(n, w)
  BY ContentProvided
<1>1. CASE w.fields.mode = "Internal" /\ o \in {buildMySQLSecret(n), buildMySQLHeadlessService(n)}
  BY <1>1 DEF buildMySQLSecret, buildMySQLHeadlessService, Plain
<1>2. CASE w.fields.mode = "Internal" /\ o = buildMySQLStatefulSet(n, w)
  <2>1. o.needs \subseteq {DatabaseService(n),
                         Credential(n, "wordpress-password"),
                         Credential(n, "mysql-root-password")}
    BY <1>2 DEF buildMySQLStatefulSet, DatabaseService, Credential
  <2>2. /\ DatabaseService(n) \in Provided(n, w)
        /\ Credential(n, "wordpress-password") \in Provided(n, w)
        /\ Credential(n, "mysql-root-password") \in Provided(n, w)
    BY <1>2, DatabaseProvided
  <2> QED BY <2>1, <2>2
<1>3. CASE w.fields.persist /\ o = buildWordPressPVC(n)
  BY <1>3 DEF buildWordPressPVC, Plain
<1>4. CASE o = buildWordPressDeployment(n, w)
  <2>1. CASE w.fields.mode = "Internal"
    <3>1. o.needs \subseteq (IF w.fields.persist THEN {<<"Claim", wpPVCName(n)>>} ELSE {})
            \cup {DatabaseService(n),
                  Credential(n, "wordpress-password"),
                  Account(w)}
      BY <1>4, <2>1 DEF buildWordPressDeployment, resolvedDBHost, dbServiceName,
                          DatabaseService, Credential, Account
    <3>2. /\ DatabaseService(n) \in Provided(n, w)
          /\ Credential(n, "wordpress-password") \in Provided(n, w)
          /\ Account(w) \in Provided(n, w)
      BY <2>1, DatabaseProvided
    <3> QED BY <1>a, <3>1, <3>2
  <2>2. CASE w.fields.mode # "Internal"
    <3>1. o.needs \subseteq (IF w.fields.persist THEN {<<"Claim", wpPVCName(n)>>} ELSE {})
      BY <1>4, <2>2 DEF buildWordPressDeployment
    <3> QED BY <1>a, <3>1
  <2> QED BY <2>1, <2>2
<1>5. CASE o = buildWordPressService(n, w)
  BY <1>5 DEF buildWordPressService
<1>6. CASE w.fields.exposed /\ o = buildWordPressIngress(n, w)
  <2>1. o.needs = {<<"Service", wpName(n), w.fields.port>>}
    BY <1>6 DEF buildWordPressIngress, Plain
  <2> QED BY <2>1, SiteProvided
<1>7. CASE o = buildWordPressHPA(n)
  <2>1. o.needs = {<<"Deployment", wpName(n)>>}
    BY <1>7 DEF buildWordPressHPA, Plain
  <2> QED BY <2>1, SiteProvided
<1> QED BY <1>1, <1>2, <1>3, <1>4, <1>5, <1>6, <1>7 DEF Built

\* So is what the controller refers to: the address it reports is the one the
\* Ingress serves, the claim it deletes the one the StatefulSet has made.
LEMMA ControllerResolves ==
  ASSUME NEW n, NEW w
  PROVE  ControllerNeeds(n, w) \subseteq Provided(n, w)
<1>1. computeURL(w) \subseteq Provided(n, w)
  <2>1. CASE w.fields.siteURL = "" /\ w.fields.exposed /\ w.fields.ingressHost # ""
    <3>1. computeURL(w) = buildWordPressIngress(n, w).provides
      BY <2>1 DEF computeURL, buildWordPressIngress, Plain
    <3> QED BY <2>1, <3>1, AddressProvided
  <2>2. CASE ~(w.fields.siteURL = "" /\ w.fields.exposed /\ w.fields.ingressHost # "")
    BY <2>2 DEF computeURL
  <2> QED BY <2>1, <2>2
<1>2. CASE w.fields.mode = "Internal"
  <2>1. ControllerNeeds(n, w) = computeURL(w) \cup {ClaimOf(dbStatefulSetName(n))}
    BY <1>2 DEF ControllerNeeds, ClaimOf
  <2>2. ClaimOf(dbStatefulSetName(n)) \in Provided(n, w)
    BY <1>2, DatabaseProvided
  <2> QED BY <1>1, <2>1, <2>2
<1>3. CASE w.fields.mode # "Internal"
  BY <1>1, <1>3 DEF ControllerNeeds
<1> QED BY <1>2, <1>3

\* No document whatever makes an object of a resource, or the controller, refer
\* to something that is not built with it, though names are put together in
\* several places (buildWordPressDeployment, handleDeletion, computeURL).
THEOREM ReferencesAlwaysResolve == Spec => []ReferencesResolve
<1>1. ReferencesResolve
  <2> SUFFICES ASSUME NEW n \in Accepted
               PROVE  (UNION {o.needs : o \in Objects(n)}) \cup ControllerNeeds(n, Effective(stored[n]))
                        \subseteq UNION {o.provides : o \in Objects(n)}
    BY DEF ReferencesResolve
  <2>1. Objects(n) = Built(n, Effective(stored[n]))
    BY DEF Objects
  <2>2. UNION {o.needs : o \in Objects(n)} \subseteq Provided(n, Effective(stored[n]))
    BY <2>1, ObjectResolves
  <2>3. ControllerNeeds(n, Effective(stored[n])) \subseteq Provided(n, Effective(stored[n]))
    BY ControllerResolves
  <2>4. Provided(n, Effective(stored[n])) = UNION {o.provides : o \in Objects(n)}
    BY <2>1 DEF Provided
  <2> QED BY <2>2, <2>3, <2>4
<1> QED BY <1>1, PTL

-----------------------------------------------------------------------------

\* The tables of the schema and of the Go types fit together.
LEMMA Tables ==
  /\ DOMAIN Zero = Fields /\ DOMAIN SchemaDefault \subseteq Fields
  /\ Required \subseteq Fields /\ \A f \in Required : SectionOf[f] = "external"
  /\ Required \cap DOMAIN SchemaDefault = {}
  /\ \A f \in Fields : SectionOf[f] \in Structs \cup Pointers
<1>1. DOMAIN Zero = Fields
  BY DEF Zero, Fields, SectionOf
<1>2. DOMAIN SchemaDefault \subseteq Fields
  BY DEF SchemaDefault, Fields, SectionOf
<1>3. /\ Required \subseteq Fields /\ \A f \in Required : SectionOf[f] = "external"
      /\ Required \cap DOMAIN SchemaDefault = {}
  BY DEF Required, Fields, SectionOf, SchemaDefault
<1>4. \A f \in Fields : SectionOf[f] \in Structs \cup Pointers
  BY DEF Fields, SectionOf, Structs, Pointers
<1> QED BY <1>1, <1>2, <1>3, <1>4

Allowed(f, v) ==
  /\ f \in NonEmpty => v # Zero[f]
  /\ f \in DOMAIN Values => v \in Values[f]
  /\ f \in DOMAIN Minimum => v >= Minimum[f]
  /\ f \in DOMAIN Maximum => v <= Maximum[f]

\* The schema admits its own defaults, and they have the types of their fields.
LEMMA DefaultsAllowed ==
  \A f \in DOMAIN SchemaDefault : Allowed(f, SchemaDefault[f]) /\ Typed(f, SchemaDefault[f])
<1>1. \A f \in DOMAIN SchemaDefault : f \in NonEmpty => SchemaDefault[f] # Zero[f]
  <2>1. NonEmpty \cap DOMAIN SchemaDefault \subseteq {"name", "user"}
    BY DEF NonEmpty, Required, SchemaDefault
  <2>2. SchemaDefault["name"] = "wordpress" /\ SchemaDefault["user"] = "wordpress"
    BY DEF SchemaDefault
  <2>3. Zero["name"] = "" /\ Zero["user"] = ""
    BY DEF Zero
  <2> QED BY <2>1, <2>2, <2>3
<1>2. \A f \in DOMAIN SchemaDefault : f \in DOMAIN Minimum => SchemaDefault[f] >= Minimum[f]
  BY DEF SchemaDefault, Minimum
<1>3. \A f \in DOMAIN SchemaDefault : f \in DOMAIN Maximum => SchemaDefault[f] <= Maximum[f]
  BY DEF SchemaDefault, Maximum
<1>4. \A f \in DOMAIN SchemaDefault : f \in DOMAIN Values => SchemaDefault[f] \in Values[f]
  BY DEF SchemaDefault, Values
<1>5. \A f \in DOMAIN SchemaDefault : f \in Numbers => SchemaDefault[f] \in Int
  BY DEF SchemaDefault, Numbers
<1>6. \A f \in DOMAIN SchemaDefault : f \in Flags => SchemaDefault[f] \in BOOLEAN
  <2>1. /\ SchemaDefault["exposed"] = FALSE /\ SchemaDefault["persist"] = TRUE
        /\ SchemaDefault["autoscaled"] = FALSE
    BY DEF SchemaDefault
  <2> QED BY <2>1 DEF Flags
<1> QED BY <1>1, <1>2, <1>3, <1>4, <1>5, <1>6 DEF Allowed, Typed

LEMMA AdmittedMeans ==
  ASSUME NEW d
  PROVE  Admitted(d) <=> /\ WellFormed(d)
                         /\ \A f \in DOMAIN d.fields : Allowed(f, d.fields[f])
                         /\ "external" \in d.sections => Required \subseteq DOMAIN d.fields
BY DEF Admitted, Allowed

\* The Go value of a document: its fields, or their zero values.
LEMMA Decoded ==
  ASSUME NEW d, WellFormed(d)
  PROVE  LET w == Decode(d) IN
         /\ w.sections = d.sections \cap Pointers
         /\ DOMAIN w.fields = Fields
         /\ \A f \in Fields : w.fields[f] = IF f \in DOMAIN d.fields THEN d.fields[f] ELSE Zero[f]
BY Tables DEF Decode, mergeStringMaps, WellFormed

\* What is stored of a Go value that is sent back: a field that is not empty, or
\* not tagged omitempty, is written; the schema fills others in; sections that
\* are structs appear.
LEMMA Stored ==
  ASSUME NEW d, WellFormed(d)
  PROVE  LET w == Decode(d)
             b == WriteBack(d)
             Written(f) == SectionOf[f] \in b.sections /\ (w.fields[f] # Zero[f] \/ f \in Required) IN
         /\ b.sections = Structs \cup w.sections \cup
                         IF "internal" \in w.sections THEN {"internalResources"} ELSE {}
         /\ \A f : f \in DOMAIN b.fields <=>
              \/ f \in Fields /\ Written(f)
              \/ f \in DOMAIN SchemaDefault /\ SectionOf[f] \in b.sections
         /\ \A f \in DOMAIN b.fields :
              b.fields[f] = IF Written(f) THEN w.fields[f] ELSE SchemaDefault[f]
         /\ b = [sections |-> b.sections, fields |-> [f \in DOMAIN b.fields |-> b.fields[f]]]
<1> DEFINE w == Decode(d)
           e == Encode(w)
           b == WriteBack(d)
           Written(f) == SectionOf[f] \in e.sections /\ (w.fields[f] # Zero[f] \/ f \in Required)
<1>1. e = [sections |-> e.sections, fields |-> [f \in {g \in Fields : Written(g)} |-> w.fields[f]]]
  BY DEF Encode
<1>2. e.sections = Structs \cup w.sections \cup
                   IF "internal" \in w.sections THEN {"internalResources"} ELSE {}
  BY DEF Encode
<1> HIDE DEF w, e
<1>3. DOMAIN e.fields = {g \in Fields : Written(g)} /\ \A f \in DOMAIN e.fields : e.fields[f] = w.fields[f]
  BY <1>1
<1> DEFINE D == {g \in DOMAIN SchemaDefault : SectionOf[g] \in e.sections}
<1>4. b = [sections |-> e.sections,
           fields |-> [f \in D \cup DOMAIN e.fields |->
                         IF f \in DOMAIN e.fields THEN e.fields[f] ELSE SchemaDefault[f]]]
  <2>1. b = [e EXCEPT !.fields = mergeStringMaps([f \in D |-> SchemaDefault[f]], @)]
    BY DEF WriteBack, SchemaDefaulted, e, w
  <2>2. mergeStringMaps([f \in D |-> SchemaDefault[f]], e.fields)
          = [f \in D \cup DOMAIN e.fields |->
               IF f \in DOMAIN e.fields THEN e.fields[f] ELSE SchemaDefault[f]]
    BY DEF mergeStringMaps
  <2>3. \A x : [e EXCEPT !.fields = x] = [sections |-> e.sections, fields |-> x]
    BY <1>1
  <2> QED BY <2>1, <2>2, <2>3
<1> HIDE DEF b
<1>5. /\ b.sections = e.sections
      /\ DOMAIN b.fields = D \cup DOMAIN e.fields
      /\ \A f \in DOMAIN b.fields :
           b.fields[f] = IF f \in DOMAIN e.fields THEN e.fields[f] ELSE SchemaDefault[f]
  BY <1>4
<1>6. b = [sections |-> b.sections, fields |-> [f \in DOMAIN b.fields |-> b.fields[f]]]
  BY <1>4
<1> QED BY <1>2, <1>3, <1>5, <1>6, Tables DEF w, b

\* What the Go types make of an admitted document is admitted.
LEMMA WriteBackAdmitted ==
  ASSUME NEW d, Admitted(d) PROVE Admitted(WriteBack(d))
<1> DEFINE w == Decode(d)
           b == WriteBack(d)
<1>1. /\ WellFormed(d)
      /\ \A f \in DOMAIN d.fields : Allowed(f, d.fields[f]) /\ Typed(f, d.fields[f])
      /\ "external" \in d.sections => Required \subseteq DOMAIN d.fields
  BY AdmittedMeans DEF WellFormed
<1>2. /\ w.sections = d.sections \cap Pointers
      /\ \A f \in Fields : w.fields[f] = IF f \in DOMAIN d.fields THEN d.fields[f] ELSE Zero[f]
  BY <1>1, Decoded
<1>3. /\ b.sections = Structs \cup w.sections \cup
                      IF "internal" \in w.sections THEN {"internalResources"} ELSE {}
      /\ \A f : f \in DOMAIN b.fields <=>
           \/ /\ f \in Fields /\ SectionOf[f] \in b.sections
              /\ w.fields[f] # Zero[f] \/ f \in Required
           \/ f \in DOMAIN SchemaDefault /\ SectionOf[f] \in b.sections
      /\ \A f \in DOMAIN b.fields :
           \/ b.fields[f] = w.fields[f] /\ f \in Fields /\ (w.fields[f] # Zero[f] \/ f \in Required)
           \/ b.fields[f] = SchemaDefault[f] /\ f \in DOMAIN SchemaDefault
      /\ b = [sections |-> b.sections, fields |-> [f \in DOMAIN b.fields |-> b.fields[f]]]
  <2> DEFINE Written(f) == SectionOf[f] \in b.sections /\ (w.fields[f] # Zero[f] \/ f \in Required)
  <2>1. /\ b.sections = Structs \cup w.sections \cup
                        IF "internal" \in w.sections THEN {"internalResources"} ELSE {}
        /\ b = [sections |-> b.sections, fields |-> [f \in DOMAIN b.fields |-> b.fields[f]]]
    BY <1>1, Stored
  <2>2. \A f : f \in DOMAIN b.fields <=>
              \/ f \in Fields /\ Written(f)
              \/ f \in DOMAIN SchemaDefault /\ SectionOf[f] \in b.sections
    BY <1>1, Stored
  <2>3. \A f \in DOMAIN b.fields : b.fields[f] = IF Written(f) THEN w.fields[f] ELSE SchemaDefault[f]
    BY <1>1, Stored
  <2> HIDE DEF w, b
  <2> QED BY <2>1, <2>2, <2>3, Tables
<1> HIDE DEF w, b
<1>4. b.sections \cap Pointers = w.sections
  BY <1>2, <1>3 DEF Structs, Pointers
<1>5. ASSUME NEW f \in DOMAIN b.fields PROVE Allowed(f, b.fields[f]) /\ Typed(f, b.fields[f])
  <2>1. CASE b.fields[f] = SchemaDefault[f] /\ f \in DOMAIN SchemaDefault
    BY <2>1, DefaultsAllowed
  <2>2. CASE /\ b.fields[f] = w.fields[f] /\ f \in Fields
             /\ w.fields[f] # Zero[f] \/ f \in Required
    <3>1. f \in DOMAIN d.fields
      <4>1. CASE f \in Required
        <5>1. "external" \in b.sections
          BY <1>3, <1>5, <4>1, Tables
        <5>2. "external" \in d.sections
          BY <1>2, <1>4, <5>1 DEF Pointers
        <5> QED BY <1>1, <4>1, <5>2
      <4>2. CASE w.fields[f] # Zero[f]
        BY <1>2, <2>2, <4>2
      <4> QED BY <2>2, <4>1, <4>2
    <3>2. b.fields[f] = d.fields[f]
      BY <1>2, <2>2, <3>1
    <3> QED BY <1>1, <3>1, <3>2
  <2> QED BY <1>3, <1>5, <2>1, <2>2
<1>6. WellFormed(b)
  <2>1. "spec" \in b.sections /\ "database" \in b.sections /\ b.sections \subseteq Sections
    BY <1>2, <1>3 DEF Structs, Sections
  <2>2. "internalResources" \in b.sections => "internal" \in b.sections
    BY <1>2, <1>3 DEF Structs, Pointers
  <2>3. \A f \in DOMAIN b.fields : f \in Fields /\ SectionOf[f] \in b.sections
    BY <1>3, Tables
  <2> QED BY <1>3, <1>5, <2>1, <2>2, <2>3 DEF WellFormed
<1>7. "external" \in b.sections => Required \subseteq DOMAIN b.fields
  BY <1>3, Tables
<1> QED BY <1>5, <1>6, <1>7, AdmittedMeans DEF b

AllAdmitted == \A n \in DOMAIN stored : Admitted(stored[n])

LEMMA StoredAdmitted == Spec => []AllAdmitted
<1>1. Init => AllAdmitted
  BY DEF Init, AllAdmitted
<1>2. AllAdmitted /\ [Next]_vars => AllAdmitted'
  <2> SUFFICES ASSUME AllAdmitted, [Next]_vars PROVE AllAdmitted'
    OBVIOUS
  <2>1. ASSUME NEW n \in Names, Submit(n) PROVE AllAdmitted'
    BY <2>1 DEF Submit, AllAdmitted
  <2>2. ASSUME NEW n \in Names, Edit(n) PROVE AllAdmitted'
    BY <2>2 DEF Edit, AllAdmitted
  <2>3. ASSUME NEW n \in Names, AddFinalizer(n) PROVE AllAdmitted'
    BY <2>3 DEF AddFinalizer, AllAdmitted
  <2>4. ASSUME NEW n \in Names, Remove(n) PROVE AllAdmitted'
    BY <2>4 DEF Remove, AllAdmitted
  <2>5. CASE UNCHANGED vars
    BY <2>5 DEF vars, AllAdmitted
  <2> QED BY <2>1, <2>2, <2>3, <2>4, <2>5 DEF Next
<1> QED BY <1>1, <1>2, PTL DEF Spec

\* No document the schema has let in is refused when the controller sends it
\* back with the finalizer, so no resource is kept from its first pass.
THEOREM FinalizerAlwaysAdmitted == Spec => []FinalizerAdmitted
<1>1. AllAdmitted => FinalizerAdmitted
  BY WriteBackAdmitted DEF AllAdmitted, FinalizerAdmitted
<1> QED BY <1>1, StoredAdmitted, PTL

-----------------------------------------------------------------------------

\* The mode a pass settles on (applyDefaults).
ModeOf(w) == IF w.fields.mode = "" THEN "Internal" ELSE w.fields.mode

\* What applyDefaults leaves in each field.
LEMMA DefaultsApplied ==
  ASSUME NEW w
  PROVE  LET a == applyDefaults(w)
             Fills(f) == f \in DOMAIN CodeDefault /\ SectionOf[f] \in Defaulting(w, ModeOf(w))
                           /\ w.fields[f] = Zero[f] IN
         /\ a.sections = w.sections \cup IF ModeOf(w) = "Internal" THEN {"internal"} ELSE {}
         /\ \A f \in Fields : a.fields[f] = IF Fills(f) THEN CodeDefault[f] ELSE w.fields[f]
         /\ a.fields.mode = ModeOf(w)
<1>1. CodeDefault.mode = "Internal" /\ "mode" \in DOMAIN CodeDefault
  BY DEF CodeDefault
<1>2. Zero["mode"] = "" /\ SectionOf["mode"] = "database" /\ "mode" \in Fields
  BY DEF Zero, SectionOf, Fields
<1> DEFINE a == applyDefaults(w)
           Fills(f) == f \in DOMAIN CodeDefault /\ SectionOf[f] \in Defaulting(w, ModeOf(w))
                         /\ w.fields[f] = Zero[f]
<1>3. a = [sections |-> w.sections \cup IF ModeOf(w) = "Internal" THEN {"internal"} ELSE {},
           fields   |-> [f \in Fields |-> IF Fills(f) THEN CodeDefault[f] ELSE w.fields[f]]]
  BY <1>1 DEF applyDefaults, ModeOf
<1>4. "database" \in Defaulting(w, ModeOf(w))
  BY DEF Defaulting
<1>5. Fills("mode") <=> w.fields["mode"] = ""
  BY <1>1, <1>2, <1>4
<1> HIDE DEF a, Fills
<1>6. a.fields["mode"] = IF Fills("mode") THEN CodeDefault["mode"] ELSE w.fields["mode"]
  BY <1>2, <1>3
<1>7. a.fields["mode"] = ModeOf(w)
  BY <1>1, <1>5, <1>6 DEF ModeOf
<1> QED BY <1>3, <1>7 DEF a, Fills

\* The defaults of the code are within the bounds of the schema.
LEMMA CodeBounds ==
  /\ \A f \in Numbers \ {"replicas"} :
       /\ f \in Fields /\ f \in DOMAIN Minimum /\ f \in DOMAIN CodeDefault
       /\ Minimum[f] = 1 /\ Zero[f] = 0
       /\ CodeDefault[f] \in Int /\ CodeDefault[f] >= 1
       /\ f \in DOMAIN Maximum => CodeDefault[f] <= Maximum[f]
  /\ DOMAIN Maximum \subseteq Numbers /\ DOMAIN Minimum = Numbers
<1>1. Numbers \subseteq Fields
  BY DEF Numbers, Fields, SectionOf
<1>2. DOMAIN Minimum = Numbers /\ DOMAIN Maximum \subseteq Numbers
  BY DEF Numbers, Minimum, Maximum
<1>3. \A f \in Numbers \ {"replicas"} : Minimum[f] = 1
  BY DEF Numbers, Minimum
<1>4. \A f \in Numbers \ {"replicas"} : Zero[f] = 0
  <2>1. /\ Zero["dbPort"] = 0 /\ Zero["port"] = 0 /\ Zero["min"] = 0
        /\ Zero["max"] = 0 /\ Zero["target"] = 0
    BY DEF Zero
  <2> QED BY <2>1 DEF Numbers
<1>5. \A f \in Numbers : f \in DOMAIN CodeDefault /\ CodeDefault[f] \in Int /\ CodeDefault[f] >= 1
  BY DEF Numbers, CodeDefault
<1>6. \A f \in DOMAIN Maximum : CodeDefault[f] <= Maximum[f]
  BY DEF CodeDefault, Maximum
<1> QED BY <1>1, <1>2, <1>3, <1>4, <1>5, <1>6

\* A number that a pass has given its default, if it was missing, is in bounds.
LEMMA InBounds ==
  ASSUME NEW d, Admitted(d), NEW f \in Numbers \ {"replicas"},
         SectionOf[f] \in Defaulting(Decode(d), ModeOf(Decode(d)))
  PROVE  LET x == Effective(d).fields[f] IN
         x \in Int /\ x >= 1 /\ (f \in DOMAIN Maximum => x <= Maximum[f])
<1> DEFINE w == Decode(d)
           x == Effective(d).fields[f]
<1>1. WellFormed(d) /\ \A g \in DOMAIN d.fields : Allowed(g, d.fields[g]) /\ Typed(g, d.fields[g])
  BY AdmittedMeans DEF WellFormed
<1>2. w.fields[f] = IF f \in DOMAIN d.fields THEN d.fields[f] ELSE Zero[f]
  BY <1>1, CodeBounds, Decoded
<1>3. x = IF w.fields[f] = Zero[f] THEN CodeDefault[f] ELSE w.fields[f]
  <2>1. f \in Fields /\ f \in DOMAIN CodeDefault
    BY CodeBounds
  <2> QED BY <2>1, DefaultsApplied DEF Effective
<1> HIDE DEF w, x
<1>4. CASE f \in DOMAIN d.fields
  <2>1. /\ d.fields[f] \in Int /\ d.fields[f] >= 1
        /\ f \in DOMAIN Maximum => d.fields[f] <= Maximum[f]
    BY <1>1, <1>4, CodeBounds DEF Allowed, Typed
  <2>2. d.fields[f] # 0 /\ Zero[f] = 0
    BY <2>1, CodeBounds
  <2> QED BY <1>2, <1>3, <1>4, <2>1, <2>2 DEF x
<1>5. CASE f \notin DOMAIN d.fields
  BY <1>2, <1>3, <1>5, CodeBounds DEF x
<1> QED BY <1>4, <1>5

\* What the builders take for granted of an accepted spec, they find.
LEMMA AcceptedBuildable ==
  ASSUME NEW d, Admitted(d), validateSpec(Effective(d))
  PROVE  Buildable(Effective(d))
<1> DEFINE v == Decode(d)
           w == Effective(d)
           D == Defaulting(v, ModeOf(v))
<1>1. /\ w.fields.mode \in {"Internal", "External"}
      /\ w.fields.mode = "External" => "external" \in w.sections /\ w.fields.host # ""
      /\ w.fields.autoscaled => w.fields.max >= w.fields.min
  BY DEF validateSpec
<1>2. /\ w.sections = v.sections \cup IF ModeOf(v) = "Internal" THEN {"internal"} ELSE {}
      /\ w.fields.mode = ModeOf(v)
      /\ \A f \in Fields : w.fields[f] = v.fields[f] \/ w.fields[f] = CodeDefault[f]
      /\ \A f \in Fields \ DOMAIN CodeDefault : w.fields[f] = v.fields[f]
      /\ \A f \in DOMAIN CodeDefault \cap Fields :
           SectionOf[f] \in D => w.fields[f] # Zero[f] \/ w.fields[f] = CodeDefault[f]
  BY DefaultsApplied DEF Effective
<1>3. "autoscaled" \in Fields \ DOMAIN CodeDefault /\ "replicas" \in Fields \cap DOMAIN CodeDefault
  BY DEF Fields, SectionOf, CodeDefault
<1>4. /\ "service" \in D /\ "spec" \in D
      /\ w.fields.autoscaled => "autoscaling" \in D
      /\ w.fields.mode = "External" => "external" \in D
  BY <1>1, <1>2, <1>3 DEF Defaulting
<1>5. /\ SectionOf["port"] = "service" /\ SectionOf["dbPort"] = "external"
      /\ SectionOf["min"] = "autoscaling" /\ SectionOf["max"] = "autoscaling"
      /\ SectionOf["target"] = "autoscaling" /\ SectionOf["replicas"] = "spec"
  BY DEF SectionOf
<1>6. {"port", "dbPort", "target"} = DOMAIN Maximum /\ \A f \in DOMAIN Maximum : Maximum[f] \in Int
  BY DEF Maximum
<1>7. w.fields.replicas # Nil
  <2>1. Zero["replicas"] = Nil
    BY DEF Zero
  <2>2. CodeDefault["replicas"] = 1
    BY DEF CodeDefault
  <2>3. w.fields["replicas"] # Zero["replicas"] \/ w.fields["replicas"] = CodeDefault["replicas"]
    BY <1>2, <1>3, <1>4, <1>5
  <2> QED BY <2>1, <2>2, <2>3, NilAssumption
<1>8. \A f \in Numbers \ {"replicas"} : SectionOf[f] \in D =>
        /\ w.fields[f] \in Int /\ w.fields[f] >= 1
        /\ f \in DOMAIN Maximum => w.fields[f] <= Maximum[f]
  BY InBounds
<1>9. {"port", "dbPort", "min", "max", "target"} \subseteq Numbers \ {"replicas"}
  BY DEF Numbers
<1> HIDE DEF v, w, D
<1>10. \A x \in Int, n \in Int : x >= 1 /\ x <= n => x \in 1..n
  OBVIOUS
<1>11. w.fields["port"] \in Int /\ w.fields["port"] >= 1 /\ w.fields["port"] <= Maximum["port"]
  <2>1. "port" \in Numbers \ {"replicas"} /\ SectionOf["port"] \in D
    BY <1>4, <1>5, <1>9
  <2> QED BY <1>6, <1>8, <2>1
<1>12. ASSUME w.fields.mode = "External"
       PROVE  w.fields["dbPort"] \in Int /\ w.fields["dbPort"] >= 1 /\ w.fields["dbPort"] <= Maximum["dbPort"]
  <2>1. "dbPort" \in Numbers \ {"replicas"} /\ SectionOf["dbPort"] \in D
    BY <1>4, <1>5, <1>9, <1>12
  <2> QED BY <1>6, <1>8, <2>1
<1>13. ASSUME w.fields.autoscaled
       PROVE  /\ w.fields["min"] \in Int /\ w.fields["min"] >= 1 /\ w.fields["max"] \in Int
              /\ w.fields["target"] \in Int /\ w.fields["target"] >= 1 /\ w.fields["target"] <= Maximum["target"]
  <2>1. \A f \in {"min", "max", "target"} : f \in Numbers \ {"replicas"} /\ SectionOf[f] \in D
    BY <1>4, <1>5, <1>9, <1>13
  <2>2. w.fields["min"] \in Int /\ w.fields["min"] >= 1 /\ w.fields["max"] \in Int
    BY <1>8, <2>1
  <2>3. w.fields["target"] \in Int /\ w.fields["target"] >= 1 /\ w.fields["target"] <= Maximum["target"]
    BY <1>6, <1>8, <2>1
  <2> QED BY <2>2, <2>3
<1>14. w.fields.port \in 1..Maximum.port
  BY <1>6, <1>10, <1>11
<1>15. w.fields.mode = "External" => w.fields.dbPort \in 1..Maximum.dbPort
  BY <1>6, <1>10, <1>12
<1>16. ASSUME w.fields.autoscaled
       PROVE  w.fields.min \in 1..w.fields.max /\ w.fields.target \in 1..Maximum.target
  <2>1. w.fields["min"] <= w.fields["max"]
    BY <1>1, <1>13, <1>16
  <2> QED BY <1>6, <1>10, <1>13, <1>16, <2>1
<1>17. (IF w.fields.mode = "Internal" THEN "internal" ELSE "external") \in w.sections
  BY <1>1, <1>2
<1>18. Buildable(w)
  BY <1>1, <1>7, <1>14, <1>15, <1>16, <1>17 DEF Buildable
<1> QED BY <1>18 DEF w

\* A spec the controller accepts, from any document the schema has let in, can
\* be built: the section of its mode is there, and replicas, ports and bounds
\* are usable, whether they were written, filled in by the schema or left to
\* the code (validateSpec, applyDefaults, the builders).
THEOREM AcceptedAlwaysBuildable == Spec => []AcceptedIsBuildable
<1>1. AllAdmitted => AcceptedIsBuildable
  BY AcceptedBuildable DEF AllAdmitted, AcceptedIsBuildable, Accepted
<1> QED BY <1>1, StoredAdmitted, PTL

-----------------------------------------------------------------------------

\* The Go value that the next pass decodes: what was empty has the default of
\* the schema now, if the schema has one and the section was sent.
LEMMA Reread ==
  ASSUME NEW d, Admitted(d)
  PROVE  LET w == Decode(d)
             x == Decode(WriteBack(d)) IN
         /\ x.sections = w.sections
         /\ \A f \in Fields :
              x.fields[f] = IF /\ w.fields[f] = Zero[f] /\ f \in DOMAIN SchemaDefault
                               /\ SectionOf[f] \in Structs \cup w.sections
                            THEN SchemaDefault[f] ELSE w.fields[f]
<1> DEFINE w == Decode(d)
           b == WriteBack(d)
           x == Decode(b)
           Written(f) == SectionOf[f] \in b.sections /\ (w.fields[f] # Zero[f] \/ f \in Required)
<1>1. WellFormed(d) /\ WellFormed(b)
  BY WriteBackAdmitted, AdmittedMeans
<1>2. /\ w.sections = d.sections \cap Pointers
      /\ \A f \in Fields : w.fields[f] = IF f \in DOMAIN d.fields THEN d.fields[f] ELSE Zero[f]
      /\ x.sections = b.sections \cap Pointers
      /\ \A f \in Fields : x.fields[f] = IF f \in DOMAIN b.fields THEN b.fields[f] ELSE Zero[f]
  BY <1>1, Decoded
<1>3. b.sections = Structs \cup w.sections \cup
                   IF "internal" \in w.sections THEN {"internalResources"} ELSE {}
  BY <1>1, Stored
<1>4. \A f : f \in DOMAIN b.fields <=>
            \/ f \in Fields /\ Written(f)
            \/ f \in DOMAIN SchemaDefault /\ SectionOf[f] \in b.sections
  BY <1>1, Stored
<1>5. \A f \in DOMAIN b.fields : b.fields[f] = IF Written(f) THEN w.fields[f] ELSE SchemaDefault[f]
  BY <1>1, Stored
<1>6. \A f \in DOMAIN d.fields : f \in Fields => SectionOf[f] \in d.sections
  BY <1>1 DEF WellFormed
<1> HIDE DEF w, x, b
<1>7. x.sections = w.sections
  BY <1>2, <1>3 DEF Structs, Pointers
<1>8. \A f \in Fields : SectionOf[f] \in b.sections <=> SectionOf[f] \in Structs \cup w.sections
  BY <1>3, Tables DEF Structs, Pointers
<1>9. ASSUME NEW f \in Fields
      PROVE  x.fields[f] = IF /\ w.fields[f] = Zero[f] /\ f \in DOMAIN SchemaDefault
                              /\ SectionOf[f] \in Structs \cup w.sections
                           THEN SchemaDefault[f] ELSE w.fields[f]
  <2>1. CASE SectionOf[f] \notin b.sections
    <3>1. f \notin DOMAIN b.fields
      BY <1>4, <2>1
    <3>2. f \notin DOMAIN d.fields
      BY <1>2, <1>6, <1>8, <2>1, Tables
    <3> QED BY <1>2, <1>8, <2>1, <3>1, <3>2
  <2>2. CASE Written(f)
    BY <1>2, <1>4, <1>5, <2>2, Tables
  <2>3. CASE SectionOf[f] \in b.sections /\ ~Written(f)
    BY <1>2, <1>4, <1>5, <1>8, <2>3
  <2> QED BY <2>1, <2>2, <2>3
<1> QED BY <1>7, <1>9 DEF w, x, b

\* Both sets of defaults say the same, persistence.enabled apart, and the code's
\* cover every section in use.
LEMMA TwoDefaults ==
  /\ \A f \in DOMAIN SchemaDefault \ {"persist"} :
       SchemaDefault[f] = Zero[f] \/ (f \in DOMAIN CodeDefault /\ CodeDefault[f] = SchemaDefault[f])
  /\ \A f \in DOMAIN CodeDefault :
       \/ SectionOf[f] \in {"spec", "service", "persistence", "database", "internal", "external"}
       \/ SectionOf[f] = "autoscaling" /\ f \in {"min", "max", "target"}
<1>1. DOMAIN SchemaDefault \ {"persist", "exposed", "autoscaled"} \subseteq DOMAIN CodeDefault
  BY DEF SchemaDefault, CodeDefault
<1>2. \A f \in {"exposed", "autoscaled"} : SchemaDefault[f] = Zero[f]
  <2>1. SchemaDefault["exposed"] = FALSE /\ SchemaDefault["autoscaled"] = FALSE
    BY DEF SchemaDefault
  <2>2. Zero["exposed"] = FALSE /\ Zero["autoscaled"] = FALSE
    BY DEF Zero
  <2> QED BY <2>1, <2>2
<1>3. \A f \in DOMAIN SchemaDefault \ {"persist", "exposed", "autoscaled"} :
        CodeDefault[f] = SchemaDefault[f]
  BY DEF SchemaDefault, CodeDefault
<1>4. \A f \in DOMAIN CodeDefault :
        \/ SectionOf[f] \in {"spec", "service", "persistence", "database", "internal", "external"}
        \/ SectionOf[f] = "autoscaling" /\ f \in {"min", "max", "target"}
  BY DEF CodeDefault, SectionOf
<1> QED BY <1>1, <1>2, <1>3, <1>4
\* A mode of the schema, whoever fills it in.
LEMMA ModeKnown ==
  ASSUME NEW d, Admitted(d)
  PROVE  ModeOf(Decode(d)) \in {"Internal", "External"}
<1>1. "mode" \in DOMAIN Values /\ Values["mode"] = {"Internal", "External"}
  BY DEF Values
<1>2. "mode" \in Fields /\ Zero["mode"] = ""
  BY DEF Fields, SectionOf, Zero
<1>3. WellFormed(d) /\ ("mode" \in DOMAIN d.fields => d.fields["mode"] \in {"Internal", "External"})
  BY <1>1, AdmittedMeans DEF Allowed
<1>4. Decode(d).fields["mode"] = IF "mode" \in DOMAIN d.fields THEN d.fields["mode"] ELSE Zero["mode"]
  BY <1>2, <1>3, Decoded
<1> QED BY <1>2, <1>3, <1>4 DEF ModeOf

\* The section of the database that a mode uses.
SectionOfMode(mode) == IF mode = "Internal" THEN "internal" ELSE "external"

\* A second pass settles on the same mode and looks at the same sections.
LEMMA SameSections ==
  ASSUME NEW d, Admitted(d)
  PROVE  LET w == Decode(d)
             x == Decode(WriteBack(d)) IN
         /\ ModeOf(x) = ModeOf(w)
         /\ x.fields["autoscaled"] = w.fields["autoscaled"]
         /\ Defaulting(x, ModeOf(x)) = Defaulting(w, ModeOf(w))
<1> DEFINE w == Decode(d)
           x == Decode(WriteBack(d))
<1>1. /\ x.sections = w.sections
      /\ \A f \in Fields :
           x.fields[f] = IF /\ w.fields[f] = Zero[f] /\ f \in DOMAIN SchemaDefault
                            /\ SectionOf[f] \in Structs \cup w.sections
                         THEN SchemaDefault[f] ELSE w.fields[f]
  BY Reread
<1>2. "mode" \in Fields /\ "autoscaled" \in Fields
  BY DEF Fields, SectionOf
<1>3. /\ Zero["mode"] = "" /\ SchemaDefault["mode"] = "Internal" /\ "mode" \in DOMAIN SchemaDefault
      /\ SectionOf["mode"] \in Structs
  BY DEF Zero, SchemaDefault, SectionOf, Structs
<1>4. Zero["autoscaled"] = FALSE /\ SchemaDefault["autoscaled"] = FALSE
  BY DEF Zero, SchemaDefault
<1> HIDE DEF w, x
<1>5. x.fields["mode"] = IF w.fields["mode"] = "" THEN "Internal" ELSE w.fields["mode"]
  BY <1>1, <1>2, <1>3
<1>6. ModeOf(x) = ModeOf(w)
  BY <1>5 DEF ModeOf
<1>7. x.fields["autoscaled"] = w.fields["autoscaled"]
  BY <1>1, <1>2, <1>4
<1>8. Defaulting(x, ModeOf(x)) = Defaulting(w, ModeOf(w))
  BY <1>1, <1>6, <1>7 DEF Defaulting
<1> QED BY <1>6, <1>7, <1>8 DEF w, x

\* A field that reaches a child ends up with the same value before and after.
LEMMA SameField ==
  ASSUME NEW d, Admitted(d), NEW f \in Fields \ {"persist"},
         SectionOf[f] \in Structs \cup {SectionOfMode(ModeOf(Decode(d)))},
         Decode(d).fields["autoscaled"] \/ f \notin {"min", "max", "target"}
  PROVE  Effective(WriteBack(d)).fields[f] = Effective(d).fields[f]
<1> DEFINE w == Decode(d)
           x == Decode(WriteBack(d))
           D == Defaulting(w, ModeOf(w))
           a == Effective(d)
           c == Effective(WriteBack(d))
<1>1. x.fields[f] = IF /\ w.fields[f] = Zero[f] /\ f \in DOMAIN SchemaDefault
                       /\ SectionOf[f] \in Structs \cup w.sections
                    THEN SchemaDefault[f] ELSE w.fields[f]
  BY Reread
<1>2. a.fields[f] = IF f \in DOMAIN CodeDefault /\ SectionOf[f] \in D /\ w.fields[f] = Zero[f]
                    THEN CodeDefault[f] ELSE w.fields[f]
  BY DefaultsApplied DEF Effective
<1>3. Defaulting(x, ModeOf(x)) = D
  BY SameSections
<1>4. c.fields[f] = IF f \in DOMAIN CodeDefault /\ SectionOf[f] \in D /\ x.fields[f] = Zero[f]
                    THEN CodeDefault[f] ELSE x.fields[f]
  BY <1>3, DefaultsApplied DEF Effective
<1>5. ASSUME f \in DOMAIN SchemaDefault, SectionOf[f] \in Structs \cup w.sections,
             SchemaDefault[f] # Zero[f]
      PROVE  f \in DOMAIN CodeDefault /\ CodeDefault[f] = SchemaDefault[f] /\ SectionOf[f] \in D
  <2>1. f \in DOMAIN CodeDefault /\ CodeDefault[f] = SchemaDefault[f]
    BY <1>5, TwoDefaults
  <2>2. \/ SectionOf[f] \in {"spec", "service", "persistence", "database", "internal", "external"}
        \/ SectionOf[f] = "autoscaling" /\ f \in {"min", "max", "target"}
    BY <2>1, TwoDefaults
  <2>3. CASE SectionOf[f] \in {"spec", "service", "persistence", "database"}
    BY <2>1, <2>3 DEF Defaulting
  <2>4. CASE SectionOf[f] = "autoscaling" /\ f \in {"min", "max", "target"}
    BY <2>1, <2>4 DEF Defaulting
  <2>5. CASE SectionOf[f] \in {"internal", "external"}
    <3>1. SectionOf[f] \notin Structs
      BY <2>5 DEF Structs
    <3>2. SectionOf[f] = SectionOfMode(ModeOf(w)) /\ SectionOf[f] \in w.sections
      BY <1>5, <3>1
    <3>3. ModeOf(w) \in {"Internal", "External"}
      BY ModeKnown
    <3>4. SectionOf[f] \in D
      BY <3>2, <3>3 DEF SectionOfMode, Defaulting
    <3> QED BY <2>1, <3>4
  <2> QED BY <2>2, <2>3, <2>4, <2>5
<1> HIDE DEF w, x, D, a, c
<1>6. CASE x.fields[f] = w.fields[f]
  BY <1>2, <1>4, <1>6 DEF a, c
<1>7. CASE x.fields[f] # w.fields[f]
  <2>1. /\ w.fields[f] = Zero[f] /\ f \in DOMAIN SchemaDefault
        /\ SectionOf[f] \in Structs \cup w.sections /\ x.fields[f] = SchemaDefault[f]
    BY <1>1, <1>7
  <2>2. SchemaDefault[f] # Zero[f]
    BY <1>7, <2>1
  <2> QED BY <1>2, <1>4, <1>5, <2>1, <2>2 DEF a, c
<1> QED BY <1>6, <1>7

\* Persistence is on after the finalizer update, whatever the document said.
LEMMA PersistenceOn ==
  ASSUME NEW d, Admitted(d)
  PROVE  Effective(WriteBack(d)).fields["persist"] = TRUE
<1> DEFINE w == Decode(d)
           x == Decode(WriteBack(d))
<1>1. /\ "persist" \in Fields /\ "persist" \in Flags /\ "persist" \notin DOMAIN CodeDefault
      /\ "persist" \in DOMAIN SchemaDefault /\ SectionOf["persist"] \in Structs
  BY DEF Fields, Flags, CodeDefault, SchemaDefault, SectionOf, Structs
<1>2. Zero["persist"] = FALSE /\ SchemaDefault["persist"] = TRUE
  BY DEF Zero, SchemaDefault
<1>3. w.fields["persist"] \in BOOLEAN
  <2>1. WellFormed(d) /\ ("persist" \in DOMAIN d.fields => d.fields["persist"] \in BOOLEAN)
    BY <1>1, AdmittedMeans DEF WellFormed, Typed
  <2>2. w.fields["persist"] = IF "persist" \in DOMAIN d.fields THEN d.fields["persist"] ELSE Zero["persist"]
    BY <1>1, <2>1, Decoded
  <2> QED BY <1>2, <2>1, <2>2
<1>4. x.fields["persist"] = IF w.fields["persist"] = Zero["persist"]
                            THEN SchemaDefault["persist"] ELSE w.fields["persist"]
  BY <1>1, Reread
<1>5. Effective(WriteBack(d)).fields["persist"] = x.fields["persist"]
  BY <1>1, DefaultsApplied DEF Effective
<1> QED BY <1>2, <1>3, <1>4, <1>5

\* Nothing that reaches a child depends on which of the two filled it in.
LEMMA DefaultsSame ==
  ASSUME NEW d, Admitted(d)
  PROVE  Copied(Effective(WriteBack(d))) = Copied([Effective(d) EXCEPT !.fields.persist = TRUE])
<1> DEFINE a == Effective(d)
           b == [a EXCEPT !.fields.persist = TRUE]
           c == Effective(WriteBack(d))
           mode == ModeOf(Decode(d))
<1>1. "mode" \in Fields /\ "autoscaled" \in Fields /\ "persist" \in Fields
  BY DEF Fields, SectionOf
<1>2. "autoscaled" \notin DOMAIN CodeDefault
  BY DEF CodeDefault
<1>3. /\ a = [sections |-> a.sections, fields |-> [f \in Fields |-> a.fields[f]]]
      /\ DOMAIN a.fields = Fields
  BY DEF Effective, applyDefaults
<1>4. a.fields["mode"] = mode /\ a.fields["autoscaled"] = Decode(d).fields["autoscaled"]
  BY <1>1, <1>2, DefaultsApplied DEF Effective
<1>5. c.fields["mode"] = mode /\ c.fields["autoscaled"] = a.fields["autoscaled"]
  BY <1>1, <1>2, <1>4, SameSections, DefaultsApplied DEF Effective
<1>6. \A f \in Fields : b.fields[f] = IF f = "persist" THEN TRUE ELSE a.fields[f]
  BY <1>1, <1>3
<1>7. \A f \in Fields \ {"persist"} :
        /\ SectionOf[f] \in Structs \cup {SectionOfMode(mode)}
        /\ a.fields["autoscaled"] \/ f \notin {"min", "max", "target"}
        => c.fields[f] = a.fields[f]
  BY <1>4, SameField
<1>8. c.fields["persist"] = TRUE
  BY PersistenceOn
<1> HIDE DEF a, b, c, mode
<1>9. \A v : Relevant(v) = {f \in Fields : SectionOf[f] \in Structs \cup {SectionOfMode(v.fields["mode"])}}
                          \ (IF v.fields["autoscaled"] THEN {} ELSE {"min", "max", "target"})
  BY DEF Relevant, SectionOfMode
<1>10. b.fields["mode"] = mode /\ b.fields["autoscaled"] = a.fields["autoscaled"]
  BY <1>1, <1>4, <1>6
<1>11. Relevant(c) = Relevant(b)
  BY <1>5, <1>9, <1>10
<1>12. \A f \in Relevant(b) :
         f \in Fields /\ SectionOf[f] \in Structs \cup {SectionOfMode(mode)}
           /\ (a.fields["autoscaled"] \/ f \notin {"min", "max", "target"})
  BY <1>9, <1>10
<1>13. \A f \in Relevant(b) : c.fields[f] = b.fields[f]
  BY <1>6, <1>7, <1>8, <1>12
<1>14. Copied(c) = Copied(b)
  BY <1>11, <1>13 DEF Copied
<1> QED BY <1>14 DEF a, b, c

\* The update that adds the finalizer changes nothing a child is built from,
\* persistence.enabled apart: what the schema fills in, in sections the user did
\* not write, is what applyDefaults would have chosen.
THEOREM DefaultsAlwaysAgree == Spec => []DefaultsAgree
<1>1. AllAdmitted => DefaultsAgree
  BY DefaultsSame DEF AllAdmitted, DefaultsAgree
<1> QED BY <1>1, StoredAdmitted, PTL
-----------------------------------------------------------------------------

\* Every section of a stored document has the fields the schema fills in.
Complete(d) == \A f \in DOMAIN SchemaDefault : SectionOf[f] \in d.sections => f \in DOMAIN d.fields

LEMMA DefaultingCompletes ==
  ASSUME NEW d, d = [sections |-> d.sections, fields |-> [f \in DOMAIN d.fields |-> d.fields[f]]]
  PROVE  Complete(SchemaDefaulted(d))
<1> DEFINE D == {g \in DOMAIN SchemaDefault : SectionOf[g] \in d.sections}
           m == mergeStringMaps([f \in D |-> SchemaDefault[f]], d.fields)
<1>1. SchemaDefaulted(d) = [sections |-> d.sections, fields |-> m]
  <2>1. SchemaDefaulted(d) = [d EXCEPT !.fields = m]
    BY DEF SchemaDefaulted
  <2> HIDE DEF m
  <2>2. [d EXCEPT !.fields = m] = [sections |-> d.sections, fields |-> m]
    OBVIOUS
  <2> QED BY <2>1, <2>2
<1>2. D \subseteq DOMAIN m
  BY DEF mergeStringMaps
<1> HIDE DEF m
<1> QED BY <1>1, <1>2 DEF Complete

LEMMA EncodedIsRecord ==
  ASSUME NEW w
  PROVE  LET e == Encode(w) IN
         e = [sections |-> e.sections, fields |-> [f \in DOMAIN e.fields |-> e.fields[f]]]
BY DEF Encode

AllComplete == \A n \in DOMAIN stored : Complete(stored[n])

LEMMA StoredComplete == Spec => []AllComplete
<1>1. Init => AllComplete
  BY DEF Init, AllComplete
<1>2. StoredNames /\ AllComplete /\ [Next]_vars => AllComplete'
  <2> SUFFICES ASSUME AllComplete, [Next]_vars PROVE AllComplete'
    OBVIOUS
  <2>1. \A n \in Names : \A d \in Submitted[n] \cup Revised[n] : Complete(SchemaDefaulted(d))
    BY NamespaceAssumption, DefaultingCompletes DEF WellFormed
  <2>2. \A d : Complete(WriteBack(d))
    BY EncodedIsRecord, DefaultingCompletes DEF WriteBack
  <2>3. ASSUME NEW n \in Names, Submit(n) PROVE AllComplete'
    BY <2>1, <2>3 DEF Submit, AllComplete
  <2>4. ASSUME NEW n \in Names, Edit(n) PROVE AllComplete'
    BY <2>1, <2>4 DEF Edit, AllComplete
  <2>5. ASSUME NEW n \in Names, AddFinalizer(n) PROVE AllComplete'
    BY <2>2, <2>5 DEF AddFinalizer, AllComplete
  <2>6. ASSUME NEW n \in Names, Remove(n) PROVE AllComplete'
    BY <2>6 DEF Remove, AllComplete
  <2>7. CASE UNCHANGED vars
    BY <2>7 DEF vars, AllComplete
  <2> QED BY <2>3, <2>4, <2>5, <2>6, <2>7 DEF Next
<1> QED BY <1>1, <1>2, NamesStored, PTL DEF Spec

-----------------------------------------------------------------------------

\* A document the finalizer update has written is written out.
LEMMA WriteBackWrittenOut ==
  ASSUME NEW d, Admitted(d) PROVE WrittenOut(WriteBack(d))
<1> DEFINE w == Decode(d)
           b == WriteBack(d)
           Written(f) == SectionOf[f] \in b.sections /\ (w.fields[f] # Zero[f] \/ f \in Required)
<1>1. /\ WellFormed(d)
      /\ \A f \in DOMAIN d.fields : Allowed(f, d.fields[f])
      /\ "external" \in d.sections => Required \subseteq DOMAIN d.fields
  BY AdmittedMeans
<1>2. /\ w.sections = d.sections \cap Pointers
      /\ \A f \in Fields : w.fields[f] = IF f \in DOMAIN d.fields THEN d.fields[f] ELSE Zero[f]
  BY <1>1, Decoded
<1>3. /\ b.sections = Structs \cup w.sections \cup
                      IF "internal" \in w.sections THEN {"internalResources"} ELSE {}
      /\ \A f : f \in DOMAIN b.fields <=>
           \/ f \in Fields /\ Written(f)
           \/ f \in DOMAIN SchemaDefault /\ SectionOf[f] \in b.sections
      /\ \A f \in DOMAIN b.fields :
           b.fields[f] = IF Written(f) THEN w.fields[f] ELSE SchemaDefault[f]
  BY <1>1, Stored
<1>4. /\ Required \subseteq Fields /\ Required \subseteq NonEmpty
      /\ \A f \in Required : SectionOf[f] = "external"
      /\ "external" \in Pointers /\ "external" \notin Structs
  BY DEF Required, Fields, NonEmpty, SectionOf, Pointers, Structs
<1> HIDE DEF w, b
<1>5. ASSUME NEW f \in DOMAIN b.fields, Written(f), f \in Required PROVE w.fields[f] # Zero[f]
  <2>1. "external" \in d.sections
    BY <1>2, <1>3, <1>4, <1>5
  <2>2. f \in DOMAIN d.fields /\ d.fields[f] # Zero[f]
    BY <1>1, <1>4, <1>5, <2>1 DEF Allowed
  <2> QED BY <1>2, <1>4, <1>5, <2>2
<1>6. \A f \in DOMAIN b.fields : b.fields[f] = Zero[f] =>
        f \in DOMAIN SchemaDefault /\ SchemaDefault[f] = Zero[f]
  BY <1>3, <1>5
<1>7. Structs \subseteq b.sections /\ ("internal" \in b.sections => "internalResources" \in b.sections)
  BY <1>3 DEF Structs
<1>8. WrittenOut(b)
  BY <1>6, <1>7 DEF WrittenOut
<1> QED BY <1>8 DEF b

\* Nothing changes when the controller sends back a document that is written
\* out and has persistence on.
LEMMA WriteBackKeeps ==
  ASSUME NEW d, Admitted(d), Complete(d), WrittenOut(d), Effective(d).fields["persist"] = TRUE
  PROVE  WriteBack(d) = d
<1> DEFINE w == Decode(d)
           b == WriteBack(d)
           Written(f) == SectionOf[f] \in b.sections /\ (w.fields[f] # Zero[f] \/ f \in Required)
<1>1. /\ WellFormed(d)
      /\ "external" \in d.sections => Required \subseteq DOMAIN d.fields
  BY AdmittedMeans
<1>2. /\ w.sections = d.sections \cap Pointers
      /\ \A f \in Fields : w.fields[f] = IF f \in DOMAIN d.fields THEN d.fields[f] ELSE Zero[f]
  BY <1>1, Decoded
<1>3. /\ b.sections = Structs \cup w.sections \cup
                      IF "internal" \in w.sections THEN {"internalResources"} ELSE {}
      /\ \A f : f \in DOMAIN b.fields <=>
           \/ f \in Fields /\ Written(f)
           \/ f \in DOMAIN SchemaDefault /\ SectionOf[f] \in b.sections
      /\ \A f \in DOMAIN b.fields :
           b.fields[f] = IF Written(f) THEN w.fields[f] ELSE SchemaDefault[f]
      /\ b = [sections |-> b.sections, fields |-> [f \in DOMAIN b.fields |-> b.fields[f]]]
  BY <1>1, Stored
<1>4. /\ d = [sections |-> d.sections, fields |-> [f \in DOMAIN d.fields |-> d.fields[f]]]
      /\ d.sections \subseteq Sections
      /\ "internalResources" \in d.sections => "internal" \in d.sections
      /\ \A f \in DOMAIN d.fields : f \in Fields /\ SectionOf[f] \in d.sections
  BY <1>1 DEF WellFormed
<1>5. /\ Structs \subseteq d.sections
      /\ "internal" \in d.sections => "internalResources" \in d.sections
      /\ \A f \in DOMAIN d.fields : d.fields[f] = Zero[f] =>
           f = "persist" \/ (f \in DOMAIN SchemaDefault /\ SchemaDefault[f] = Zero[f])
  BY DEF WrittenOut
<1>6. /\ "persist" \in DOMAIN SchemaDefault /\ "persist" \in Fields /\ "persist" \notin DOMAIN CodeDefault
      /\ \A f \in Required : SectionOf[f] = "external"
  BY DEF SchemaDefault, Fields, SectionOf, CodeDefault, Required
<1>7. Zero["persist"] = FALSE
  BY DEF Zero
<1>8. w.fields["persist"] = TRUE
  BY <1>6, DefaultsApplied DEF Effective
<1> HIDE DEF w, b
<1>9. b.sections = d.sections
  BY <1>2, <1>3, <1>4, <1>5 DEF Sections, Pointers
<1>10. ASSUME NEW f \in DOMAIN d.fields PROVE f \in DOMAIN b.fields
  <2>1. CASE d.fields[f] # Zero[f]
    BY <1>2, <1>3, <1>4, <1>9, <2>1
  <2>2. CASE d.fields[f] = Zero[f]
    BY <1>3, <1>4, <1>5, <1>6, <1>9, <2>2
  <2> QED BY <2>1, <2>2
<1>11. ASSUME NEW f \in DOMAIN b.fields PROVE f \in DOMAIN d.fields
  <2>1. CASE f \in Fields /\ Written(f)
    BY <1>1, <1>2, <1>6, <1>9, <2>1
  <2>2. CASE f \in DOMAIN SchemaDefault /\ SectionOf[f] \in b.sections
    BY <1>9, <2>2 DEF Complete
  <2> QED BY <1>3, <2>1, <2>2
<1>12. ASSUME NEW f \in DOMAIN d.fields PROVE b.fields[f] = d.fields[f]
  <2>1. f \in Fields /\ SectionOf[f] \in b.sections /\ w.fields[f] = d.fields[f]
    BY <1>2, <1>4, <1>9
  <2>2. CASE Written(f)
    BY <1>3, <1>10, <2>1, <2>2
  <2>3. CASE ~Written(f)
    <3>1. d.fields[f] = Zero[f] /\ b.fields[f] = SchemaDefault[f]
      BY <1>3, <1>10, <2>1, <2>3
    <3>2. f # "persist"
      BY <1>7, <1>8, <2>1, <3>1
    <3> QED BY <1>5, <3>1, <3>2
  <2> QED BY <2>2, <2>3
<1>13. DOMAIN b.fields = DOMAIN d.fields
  BY <1>10, <1>11
<1>14. [f \in DOMAIN b.fields |-> b.fields[f]] = [f \in DOMAIN d.fields |-> d.fields[f]]
  BY <1>12, <1>13
<1> QED BY <1>3, <1>4, <1>9, <1>14 DEF b
-----------------------------------------------------------------------------

\* What a whole-object update makes of the fields the controller's model keeps.
LEMMA CoreWriteBack ==
  ASSUME NEW s,
         s = [full |-> s.full, mode |-> s.mode, external |-> s.external, persist |-> s.persist,
              ingress |-> s.ingress, hpa |-> s.hpa, replicas |-> s.replicas,
              storage |-> s.storage, rev |-> s.rev]
  PROVE  LET mode == IF s.mode = "" THEN "Internal" ELSE s.mode IN
         /\ Core!applyDefaults(s) =
              [full |-> s.full, mode |-> mode, external |-> s.external, persist |-> s.persist,
               ingress |-> s.ingress, hpa |-> s.hpa, replicas |-> s.replicas,
               storage |-> s.storage, rev |-> s.rev]
         /\ Core!WriteBack(s) =
              [full |-> TRUE, mode |-> mode, external |-> s.external, persist |-> TRUE,
               ingress |-> s.ingress, hpa |-> s.hpa, replicas |-> s.replicas,
               storage |-> s.storage, rev |-> s.rev]
<1> DEFINE mode == IF s.mode = "" THEN "Internal" ELSE s.mode
           t == Core!applyDefaults(s)
<1>1. t = [s EXCEPT !.mode = mode]
  BY DEF Core!applyDefaults
<1> HIDE DEF mode, t
<1>2. t = [full |-> s.full, mode |-> mode, external |-> s.external, persist |-> s.persist,
           ingress |-> s.ingress, hpa |-> s.hpa, replicas |-> s.replicas, storage |-> s.storage, rev |-> s.rev]
  BY <1>1
<1>3. Core!WriteBack(s) = [[t EXCEPT !.full = TRUE] EXCEPT !.persist = TRUE]
  BY DEF Core!WriteBack, t
<1>4. \A yes : [t EXCEPT !.full = yes] =
        [full |-> yes, mode |-> mode, external |-> s.external, persist |-> s.persist,
         ingress |-> s.ingress, hpa |-> s.hpa, replicas |-> s.replicas, storage |-> s.storage, rev |-> s.rev]
  BY <1>2
<1>5. ASSUME NEW u, NEW full, NEW yes,
             u = [full |-> full, mode |-> mode, external |-> s.external, persist |-> s.persist,
                  ingress |-> s.ingress, hpa |-> s.hpa, replicas |-> s.replicas,
                  storage |-> s.storage, rev |-> s.rev]
      PROVE  [u EXCEPT !.persist = yes] =
               [full |-> full, mode |-> mode, external |-> s.external, persist |-> yes,
                ingress |-> s.ingress, hpa |-> s.hpa, replicas |-> s.replicas,
                storage |-> s.storage, rev |-> s.rev]
  BY <1>5
<1>6. Core!WriteBack(s) =
        [full |-> TRUE, mode |-> mode, external |-> s.external, persist |-> TRUE,
         ingress |-> s.ingress, hpa |-> s.hpa, replicas |-> s.replicas, storage |-> s.storage, rev |-> s.rev]
  BY <1>3, <1>4, <1>5, Zenon
<1> QED BY <1>2, <1>6 DEF mode, t

IngressOf(w) == IF ~w.exposed THEN "off" ELSE IF w.ingressHost = "" THEN "nohost" ELSE "on"
HpaOf(w)     == IF ~w.autoscaled THEN "off" ELSE IF w.max < w.min THEN "inverted" ELSE "on"

LEMMA AbstractedIs ==
  ASSUME NEW d
  PROVE  Abstracted(d) =
           [full     |-> WrittenOut(d),
            mode     |-> Decode(d).fields.mode,
            external |-> "external" \in d.sections,
            persist  |-> Effective(d).fields.persist,
            ingress  |-> IngressOf(Effective(d).fields),
            hpa      |-> HpaOf(Effective(d).fields),
            replicas |-> Effective(d).fields.replicas,
            storage  |-> Storage(Effective(d)),
            rev      |-> Rest(Effective(d))]
BY DEF Abstracted, IngressOf, HpaOf

\* The mode, before and after the code's default.
LEMMA AbstractMode ==
  ASSUME NEW d, Admitted(d)
  PROVE  LET m == Decode(d).fields.mode IN
         /\ (IF m = "" THEN "Internal" ELSE m) = ModeOf(Decode(d))
         /\ Effective(d).fields.mode = ModeOf(Decode(d))
         /\ Decode(WriteBack(d)).fields.mode = ModeOf(Decode(d))
<1>1. "mode" \in Fields
  BY DEF Fields, SectionOf
<1>2. /\ Zero["mode"] = "" /\ SchemaDefault["mode"] = "Internal" /\ "mode" \in DOMAIN SchemaDefault
      /\ SectionOf["mode"] \in Structs
  BY DEF Zero, SchemaDefault, SectionOf, Structs
<1>3. Decode(WriteBack(d)).fields["mode"] =
        IF Decode(d).fields["mode"] = "" THEN "Internal" ELSE Decode(d).fields["mode"]
  BY <1>1, <1>2, Reread
<1>4. Effective(d).fields.mode = ModeOf(Decode(d))
  BY DefaultsApplied DEF Effective
<1> QED BY <1>3, <1>4 DEF ModeOf

\* The finalizer update as the controller's model has it.
LEMMA AbstractWriteBack ==
  ASSUME NEW d, Admitted(d)
  PROVE  Abstracted(WriteBack(d)) = Core!WriteBack(Abstracted(d))
<1> DEFINE a == Effective(d)
           b == WriteBack(d)
           c == Effective(b)
           mode == ModeOf(Decode(d))
<1>1. WrittenOut(b)
  BY WriteBackWrittenOut
<1>2. "external" \in b.sections <=> "external" \in d.sections
  <2>1. /\ Decode(d).sections = d.sections \cap Pointers
        /\ b.sections = Structs \cup Decode(d).sections \cup
                        IF "internal" \in Decode(d).sections THEN {"internalResources"} ELSE {}
    BY AdmittedMeans, Decoded, Stored
  <2> QED BY <2>1 DEF Structs, Pointers
<1>3. c.fields["persist"] = TRUE
  BY PersistenceOn
<1>4. \A f \in {"exposed", "ingressHost", "replicas", "min", "max"} :
        /\ f \in Fields \ {"persist"} /\ SectionOf[f] \in Structs
        /\ f \in {"exposed", "ingressHost", "replicas"} => f \notin {"min", "max", "target"}
  BY DEF Fields, SectionOf, Structs
<1>5. "autoscaled" \in Fields /\ "autoscaled" \notin DOMAIN CodeDefault
  BY DEF Fields, SectionOf, CodeDefault
<1>6. /\ a.fields["autoscaled"] = Decode(d).fields["autoscaled"]
      /\ c.fields["autoscaled"] = Decode(d).fields["autoscaled"]
  BY <1>5, SameSections, DefaultsApplied DEF Effective
<1>7. \A f \in {"exposed", "ingressHost", "replicas"} : c.fields[f] = a.fields[f]
  BY <1>4, SameField
<1>8. a.fields["autoscaled"] => c.fields["min"] = a.fields["min"] /\ c.fields["max"] = a.fields["max"]
  BY <1>4, <1>6, SameField
<1>9. Storage(c) = Storage(a) /\ Rest(c) = Rest(a)
  <2> DEFINE e == [a EXCEPT !.fields.persist = TRUE]
  <2>1. Copied(c) = Copied(e)
    BY DefaultsSame
  <2>2. DOMAIN a.fields = Fields /\ a = [sections |-> a.sections, fields |-> a.fields]
    BY DEF Effective, applyDefaults
  <2>3. "mode" \in Fields /\ "autoscaled" \in Fields
    BY DEF Fields, SectionOf
  <2> HIDE DEF a, c
  <2>4. \A f \in Fields \ {"persist"} : e.fields[f] = a.fields[f]
    BY <2>2
  <2> HIDE DEF e
  <2>5. \A v : /\ DOMAIN Copied(v) = Relevant(v)
               /\ \A f \in Relevant(v) : f \in Fields /\ Copied(v)[f] = v.fields[f]
    BY DEF Copied, Relevant
  <2>6. \A v : Relevant(v) = {f \in Fields : SectionOf[f] \in Structs \cup {SectionOfMode(v.fields["mode"])}}
                            \ (IF v.fields["autoscaled"] THEN {} ELSE {"min", "max", "target"})
    BY DEF Relevant, SectionOfMode
  <2>7. Relevant(e) = Relevant(a)
    BY <2>3, <2>4, <2>6
  <2>8. Relevant(c) = Relevant(a)
    BY <2>1, <2>5, <2>7
  <2>9. \A f \in Relevant(a) \ {"persist"} : c.fields[f] = a.fields[f]
    BY <2>1, <2>4, <2>5, <2>7, <2>8
  <2> QED BY <2>8, <2>9 DEF Storage, Rest
<1>10. /\ (IF Decode(d).fields.mode = "" THEN "Internal" ELSE Decode(d).fields.mode) = mode
       /\ Decode(b).fields.mode = mode
  BY AbstractMode
<1>11. IngressOf(c.fields) = IngressOf(a.fields)
  BY <1>7 DEF IngressOf
<1>12. HpaOf(c.fields) = HpaOf(a.fields)
  BY <1>6, <1>8 DEF HpaOf
<1>13. Core!WriteBack(Abstracted(d)) =
         [full |-> TRUE, mode |-> mode, external |-> "external" \in d.sections, persist |-> TRUE,
          ingress |-> IngressOf(a.fields), hpa |-> HpaOf(a.fields), replicas |-> a.fields.replicas,
          storage |-> Storage(a), rev |-> Rest(a)]
  <2> DEFINE s == Abstracted(d)
  <2>1. /\ s = [full |-> s.full, mode |-> s.mode, external |-> s.external, persist |-> s.persist,
                ingress |-> s.ingress, hpa |-> s.hpa, replicas |-> s.replicas,
                storage |-> s.storage, rev |-> s.rev]
        /\ s.mode = Decode(d).fields.mode /\ s.external = ("external" \in d.sections)
        /\ s.ingress = IngressOf(a.fields) /\ s.hpa = HpaOf(a.fields)
        /\ s.replicas = a.fields.replicas /\ s.storage = Storage(a) /\ s.rev = Rest(a)
    BY AbstractedIs
  <2>2. (IF s.mode = "" THEN "Internal" ELSE s.mode) = mode
    BY <1>10, <2>1
  <2> HIDE DEF s, a, mode
  <2>3. Core!WriteBack(s) =
          [full |-> TRUE, mode |-> IF s.mode = "" THEN "Internal" ELSE s.mode, external |-> s.external,
           persist |-> TRUE, ingress |-> s.ingress, hpa |-> s.hpa, replicas |-> s.replicas,
           storage |-> s.storage, rev |-> s.rev]
    BY <2>1, CoreWriteBack, Zenon
  <2>4. Core!WriteBack(s) =
          [full |-> TRUE, mode |-> mode, external |-> "external" \in d.sections, persist |-> TRUE,
           ingress |-> IngressOf(a.fields), hpa |-> HpaOf(a.fields), replicas |-> a.fields.replicas,
           storage |-> Storage(a), rev |-> Rest(a)]
    BY <2>1, <2>2, <2>3, Zenon
  <2> QED BY <2>4 DEF s
<1>14. Abstracted(b) =
         [full |-> WrittenOut(b), mode |-> Decode(b).fields.mode, external |-> "external" \in b.sections,
          persist |-> c.fields.persist, ingress |-> IngressOf(c.fields), hpa |-> HpaOf(c.fields),
          replicas |-> c.fields.replicas, storage |-> Storage(c), rev |-> Rest(c)]
  BY AbstractedIs
<1> HIDE DEF a, b, c, mode
<1>15. WrittenOut(b) = TRUE /\ ("external" \in b.sections) = ("external" \in d.sections)
  BY <1>1, <1>2
<1>16. c.fields.persist = TRUE /\ c.fields.replicas = a.fields.replicas
  BY <1>3, <1>7
<1>17. Abstracted(b) = Core!WriteBack(Abstracted(d))
  BY <1>9, <1>10, <1>11, <1>12, <1>13, <1>14, <1>15, <1>16
<1> QED BY <1>17 DEF b

\* What the controller's model decides on, field by field.
LEMMA AbstractFields ==
  ASSUME NEW d, Admitted(d)
  PROVE  LET s == Abstracted(d)
             t == Core!applyDefaults(s)
             w == Effective(d).fields IN
         /\ s = [full |-> s.full, mode |-> s.mode, external |-> s.external, persist |-> s.persist,
                 ingress |-> s.ingress, hpa |-> s.hpa, replicas |-> s.replicas,
                 storage |-> s.storage, rev |-> s.rev]
         /\ s.full = WrittenOut(d) /\ s.mode = Decode(d).fields.mode
         /\ t.mode = ModeOf(Decode(d)) /\ t.external = ("external" \in d.sections)
         /\ t.persist = w.persist /\ t.ingress = IngressOf(w) /\ t.hpa = HpaOf(w)
<1> DEFINE s == Abstracted(d)
           t == Core!applyDefaults(s)
           w == Effective(d).fields
<1>1. /\ s = [full |-> s.full, mode |-> s.mode, external |-> s.external, persist |-> s.persist,
              ingress |-> s.ingress, hpa |-> s.hpa, replicas |-> s.replicas,
              storage |-> s.storage, rev |-> s.rev]
      /\ s.full = WrittenOut(d) /\ s.mode = Decode(d).fields.mode
      /\ s.external = ("external" \in d.sections)
      /\ s.persist = w.persist /\ s.ingress = IngressOf(w) /\ s.hpa = HpaOf(w)
  BY AbstractedIs
<1>2. (IF s.mode = "" THEN "Internal" ELSE s.mode) = ModeOf(Decode(d))
  BY <1>1, AbstractMode
<1> HIDE DEF s, w
<1>3. t = [full |-> s.full, mode |-> IF s.mode = "" THEN "Internal" ELSE s.mode, external |-> s.external,
           persist |-> s.persist, ingress |-> s.ingress, hpa |-> s.hpa, replicas |-> s.replicas,
           storage |-> s.storage, rev |-> s.rev]
  BY <1>1, CoreWriteBack, Zenon
<1> HIDE DEF t
<1>4. /\ t.mode = ModeOf(Decode(d)) /\ t.external = s.external /\ t.persist = s.persist
      /\ t.ingress = s.ingress /\ t.hpa = s.hpa
  BY <1>2, <1>3
<1> QED BY <1>1, <1>4 DEF s, t, w

\* A document without a mode is one without a database section.
LEMMA AbstractStorable ==
  ASSUME NEW d, Admitted(d), Complete(d)
  PROVE  Core!Storable(Abstracted(d))
<1>1. /\ "mode" \in Fields /\ "mode" \in DOMAIN SchemaDefault /\ SectionOf["mode"] = "database"
      /\ "database" \in Structs
  BY DEF Fields, SchemaDefault, SectionOf, Structs
<1>2. "mode" \in DOMAIN Values /\ Values["mode"] = {"Internal", "External"}
  BY DEF Values
<1>3. ASSUME WrittenOut(d) PROVE Decode(d).fields["mode"] # ""
  <2>1. "mode" \in DOMAIN d.fields
    BY <1>1, <1>3 DEF WrittenOut, Complete
  <2>2. WellFormed(d) /\ d.fields["mode"] \in {"Internal", "External"}
    BY <1>2, <2>1, AdmittedMeans DEF Allowed
  <2> QED BY <1>1, <2>1, <2>2, Decoded
<1> QED BY <1>3, AbstractFields DEF Core!Storable

\* The fields that are kept decide on validity as the document does.
LEMMA AbstractValid ==
  ASSUME NEW d, Admitted(d)
  PROVE  Core!validateSpec(Core!applyDefaults(Abstracted(d))) <=> validateSpec(Effective(d))
<1> DEFINE a == Effective(d)
           w == a.fields
           t == Core!applyDefaults(Abstracted(d))
           mode == ModeOf(Decode(d))
<1>1. /\ t.mode = mode /\ t.external = ("external" \in d.sections)
      /\ t.ingress = IngressOf(w) /\ t.hpa = HpaOf(w)
  BY AbstractFields
<1>2. mode \in {"Internal", "External"} /\ w.mode = mode
  BY ModeKnown, AbstractMode
<1>3. t.hpa # "inverted" <=> (w.autoscaled => w.max >= w.min)
  <2>1. ASSUME w.autoscaled PROVE w["min"] \in Int /\ w["max"] \in Int
    <3>1. "autoscaled" \in Fields /\ "autoscaled" \notin DOMAIN CodeDefault
      BY DEF Fields, SectionOf, CodeDefault
    <3>2. Decode(d).fields.autoscaled
      BY <2>1, <3>1, DefaultsApplied DEF Effective
    <3>3. \A f \in {"min", "max"} : f \in Numbers \ {"replicas"} /\ SectionOf[f] = "autoscaling"
      BY DEF Numbers, SectionOf
    <3>4. "autoscaling" \in Defaulting(Decode(d), mode)
      BY <3>2 DEF Defaulting
    <3>5. \A f \in {"min", "max"} : a.fields[f] \in Int
      BY <3>3, <3>4, InBounds
    <3> QED BY <3>5
  <2> HIDE DEF w, t
  <2>2. CASE w.autoscaled
    BY <1>1, <2>1, <2>2 DEF HpaOf
  <2>3. CASE ~w.autoscaled
    BY <1>1, <2>3 DEF HpaOf
  <2> QED BY <2>2, <2>3
<1>4. t.ingress # "nohost" <=> (w.exposed => w.ingressHost # "")
  BY <1>1 DEF IngressOf
<1>5. mode = "External" =>
        (t.external <=> "external" \in a.sections /\ w.host # "" /\ w.password # "")
  <2> SUFFICES ASSUME mode = "External"
               PROVE  t.external <=> "external" \in a.sections /\ w.host # "" /\ w.password # ""
    OBVIOUS
  <2>1. "external" \in a.sections <=> "external" \in d.sections
    <3>1. a.sections = Decode(d).sections \cup IF mode = "Internal" THEN {"internal"} ELSE {}
      BY DefaultsApplied DEF Effective
    <3>2. Decode(d).sections = d.sections \cap Pointers
      BY AdmittedMeans, Decoded
    <3> QED BY <3>1, <3>2 DEF Pointers
  <2>2. ASSUME "external" \in d.sections, NEW f \in Required PROVE w[f] # ""
    <3>1. f \in DOMAIN d.fields /\ f \in NonEmpty
      BY <2>2, AdmittedMeans DEF NonEmpty
    <3>2. WellFormed(d) /\ d.fields[f] # Zero[f]
      BY <3>1, AdmittedMeans DEF Allowed
    <3>3. f \in Fields /\ f \notin DOMAIN CodeDefault
      BY DEF Required, Fields, SectionOf, CodeDefault
    <3>4. Zero[f] = ""
      <4>1. Zero["host"] = "" /\ Zero["password"] = ""
        BY DEF Zero
      <4> QED BY <4>1 DEF Required
    <3>5. Decode(d).fields[f] = d.fields[f]
      BY <3>1, <3>2, <3>3, Decoded
    <3>6. w[f] = Decode(d).fields[f]
      BY <3>3, DefaultsApplied DEF Effective
    <3> QED BY <3>2, <3>4, <3>5, <3>6
  <2>3. "external" \in d.sections => w["host"] # "" /\ w["password"] # ""
    BY <2>2 DEF Required
  <2> QED BY <1>1, <2>1, <2>3
<1>6. Core!validateSpec(t) <=>
        /\ t.mode \in {"Internal", "External"} /\ (t.mode = "External" => t.external)
        /\ t.hpa # "inverted" /\ t.ingress # "nohost"
  BY DEF Core!validateSpec
<1>7. validateSpec(a) <=>
        /\ w.mode \in {"Internal", "External"}
        /\ w.mode = "External" => "external" \in a.sections /\ w.host # "" /\ w.password # ""
        /\ w.autoscaled => w.max >= w.min
        /\ w.exposed => w.ingressHost # ""
  BY DEF validateSpec
<1>8. t.mode = mode
  BY <1>1
<1> HIDE DEF a, w, t, mode
<1>9. Core!validateSpec(t) <=> validateSpec(a)
  BY <1>2, <1>3, <1>4, <1>5, <1>6, <1>7, <1>8
<1> QED BY <1>9 DEF t, a

\* A pass builds the children of the site that the controller's model wants.
LEMMA AbstractWants ==
  ASSUME NEW n, NEW d, Admitted(d), validateSpec(Effective(d)), NEW k \in Core!SiteKinds
  PROVE  Core!Wants(k, Core!applyDefaults(Abstracted(d))) <=>
           k \in {IF o.kind = "PVC" THEN "ContentPVC" ELSE o.kind : o \in Built(n, Effective(d))}
<1> DEFINE a == Effective(d)
           w == a.fields
           t == Core!applyDefaults(Abstracted(d))
           kinds == {IF o.kind = "PVC" THEN "ContentPVC" ELSE o.kind : o \in Built(n, a)}
<1>1. t.persist = w.persist /\ t.ingress = IngressOf(w) /\ t.hpa = HpaOf(w)
  BY AbstractFields
<1>2. t.hpa # "inverted" /\ t.ingress # "nohost"
  BY AbstractValid DEF Core!validateSpec
<1> HIDE DEF t, a
<1>3. (t.ingress = "on" <=> w.exposed) /\ (t.hpa = "on" <=> w.autoscaled)
  BY <1>1, <1>2 DEF IngressOf, HpaOf
<1>4. /\ k \in {"Deployment", "Service"} => Core!Wants(k, t)
      /\ k = "ContentPVC" => (Core!Wants(k, t) <=> t.persist)
      /\ k = "Ingress" => (Core!Wants(k, t) <=> t.ingress = "on")
      /\ k = "HPA" => (Core!Wants(k, t) <=> t.hpa = "on")
  <2>1. k \in {"Deployment", "Service"} => Core!Wants(k, t)
    BY DEF Core!Wants
  <2>2. k = "ContentPVC" => (Core!Wants(k, t) <=> t.persist)
    BY DEF Core!Wants
  <2>3. k = "Ingress" => (Core!Wants(k, t) <=> t.ingress = "on")
    BY DEF Core!Wants
  <2>4. k = "HPA" => (Core!Wants(k, t) <=> t.hpa = "on")
    BY DEF Core!Wants
  <2> QED BY <2>1, <2>2, <2>3, <2>4
<1>5. k \in {"ContentPVC", "Deployment", "Service", "Ingress", "HPA"}
  BY DEF Core!SiteKinds
<1>6. \A o \in Built(n, a) : o.kind \in {"Secret", "Service", "StatefulSet", "PVC", "Deployment", "Ingress", "HPA"}
  BY BuiltByBuilders, NameByKind
<1>7. k \in kinds <=> \E o \in Built(n, a) : o.kind = IF k = "ContentPVC" THEN "PVC" ELSE k
  BY <1>5, <1>6
<1>8. /\ buildWordPressPVC(n).kind = "PVC" /\ buildWordPressDeployment(n, a).kind = "Deployment"
      /\ buildWordPressService(n, a).kind = "Service" /\ buildWordPressIngress(n, a).kind = "Ingress"
      /\ buildWordPressHPA(n).kind = "HPA"
      /\ buildMySQLSecret(n).kind = "Secret" /\ buildMySQLHeadlessService(n).kind = "Service"
      /\ buildMySQLStatefulSet(n, a).kind = "StatefulSet"
  BY KindsAndNames
<1>9. /\ buildWordPressDeployment(n, a) \in Built(n, a) /\ buildWordPressService(n, a) \in Built(n, a)
      /\ w.persist => buildWordPressPVC(n) \in Built(n, a)
      /\ w.exposed => buildWordPressIngress(n, a) \in Built(n, a)
      /\ w.autoscaled => buildWordPressHPA(n) \in Built(n, a)
  BY DEF Built
<1>10. \A o \in Built(n, a) :
         /\ o.kind = "PVC" => w.persist
         /\ o.kind = "Ingress" => w.exposed
         /\ o.kind = "HPA" => w.autoscaled
  BY <1>8 DEF Built
<1> HIDE DEF kinds, w
<1>11. Core!Wants(k, t) <=> k \in kinds
  <2>1. CASE k \in {"Deployment", "Service"}
    BY <1>4, <1>7, <1>8, <1>9, <2>1
  <2>2. CASE k = "ContentPVC"
    BY <1>1, <1>4, <1>7, <1>8, <1>9, <1>10, <2>2
  <2>3. CASE k = "Ingress"
    BY <1>3, <1>4, <1>7, <1>8, <1>9, <1>10, <2>3
  <2>4. CASE k = "HPA"
    BY <1>3, <1>4, <1>7, <1>8, <1>9, <1>10, <2>4
  <2> QED BY <1>5, <2>1, <2>2, <2>3, <2>4
<1> QED BY <1>11 DEF kinds, t, a

\* For whatever documents users submit, the few fields the controller's model
\* keeps say of a resource what its document says: what is storable and
\* accepted, what the finalizer update leaves and whether it raises the
\* generation, which children of the site are wanted (Reconcile).
THEOREM AlwaysAgreesWithController == Spec => []AgreesWithController
<1>1. AllAdmitted /\ AllComplete => AgreesWithController
  <2> SUFFICES ASSUME AllAdmitted, AllComplete, NEW n \in DOMAIN stored
               PROVE  LET d == stored[n]
                          s == Abstracted(d) IN
                      /\ Core!Storable(s)
                      /\ Core!validateSpec(Core!applyDefaults(s)) <=> n \in Accepted
                      /\ Abstracted(WriteBack(d)) = Core!WriteBack(s)
                      /\ Core!WriteBack(s) = s <=> WriteBack(d) = d
                      /\ n \in Accepted =>
                           \A k \in Core!SiteKinds :
                             Core!Wants(k, Core!applyDefaults(s)) <=> k \in KindsBuilt(n)
    BY DEF AgreesWithController
  <2> DEFINE d == stored[n]
             s == Abstracted(d)
  <2>1. Admitted(d) /\ Complete(d)
    BY DEF AllAdmitted, AllComplete
  <2>2. n \in Accepted <=> validateSpec(Effective(d))
    BY DEF Accepted
  <2>3. KindsBuilt(n) = {IF o.kind = "PVC" THEN "ContentPVC" ELSE o.kind : o \in Built(n, Effective(d))}
    BY DEF KindsBuilt, Objects
  <2> HIDE DEF d
  <2>4. Core!Storable(s)
    BY <2>1, AbstractStorable
  <2>5. Core!validateSpec(Core!applyDefaults(s)) <=> n \in Accepted
    BY <2>1, <2>2, AbstractValid
  <2>6. Abstracted(WriteBack(d)) = Core!WriteBack(s)
    BY <2>1, AbstractWriteBack
  <2>7. Core!WriteBack(s) = s <=> WriteBack(d) = d
    <3>1. ASSUME WriteBack(d) = d PROVE Core!WriteBack(s) = s
      BY <2>6, <3>1
    <3>2. ASSUME Core!WriteBack(s) = s PROVE WriteBack(d) = d
      <4>1. s = [full |-> s.full, mode |-> s.mode, external |-> s.external, persist |-> s.persist,
                 ingress |-> s.ingress, hpa |-> s.hpa, replicas |-> s.replicas,
                 storage |-> s.storage, rev |-> s.rev]
        BY <2>1, AbstractFields
      <4>2. s.full = WrittenOut(d) /\ s.persist = Effective(d).fields.persist
        BY AbstractedIs
      <4> HIDE DEF s
      <4>3. Core!WriteBack(s) =
              [full |-> TRUE, mode |-> IF s.mode = "" THEN "Internal" ELSE s.mode, external |-> s.external,
               persist |-> TRUE, ingress |-> s.ingress, hpa |-> s.hpa, replicas |-> s.replicas,
               storage |-> s.storage, rev |-> s.rev]
        BY <4>1, CoreWriteBack, Zenon
      <4>4. s.full = TRUE /\ s.persist = TRUE
        <5>1. \A r, yes, mode :
                r = [full |-> yes, mode |-> mode, external |-> s.external,
                     persist |-> yes, ingress |-> s.ingress, hpa |-> s.hpa, replicas |-> s.replicas,
                     storage |-> s.storage, rev |-> s.rev] => r.full = yes /\ r.persist = yes
          OBVIOUS
        <5> QED BY <3>2, <4>3, <5>1, Zenon
      <4>5. WrittenOut(d) /\ Effective(d).fields["persist"] = TRUE
        BY <4>2, <4>4
      <4> QED BY <2>1, <4>5, WriteBackKeeps
    <3> QED BY <3>1, <3>2
  <2>8. n \in Accepted =>
          \A k \in Core!SiteKinds : Core!Wants(k, Core!applyDefaults(s)) <=> k \in KindsBuilt(n)
    BY <2>1, <2>2, <2>3, AbstractWants
  <2> QED BY <2>4, <2>5, <2>6, <2>7, <2>8 DEF d
<1> QED BY <1>1, StoredAdmitted, StoredComplete, PTL
=============================================================================
