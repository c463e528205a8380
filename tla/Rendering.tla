------------------------------ MODULE Rendering ------------------------------
(***************************************************************************)
(* What the builders make of a resource: the names and labels of its       *)
(* objects and what these objects refer to.                                *)
(*                                                                         *)
(* A name is a sequence of Words, those between its dashes.  A reference   *)
(* is the tuple by which one object means something of another: a Secret   *)
(* and a key, a Service and a port, a claim, a database and its user.      *)
(* References to objects the user brings along (the Secret and host of an  *)
(* external database, a root password, a certificate) are left out.        *)
(***************************************************************************)
EXTENDS Documents, Sequences

CONSTANT Words

ASSUME WordsAssumption == {"mysql", "credentials", "content", "hpa"} \subseteq Words

(* names.go *)

\* Variant: a long name is cut short.
dbSecretNameShort(n) == <<Head(n), "mysql", "credentials">>

wpName(n)            == n
dbServiceName(n)     == Append(n, "mysql")
dbStatefulSetName(n) == Append(n, "mysql")
dbSecretName(n)      == n \o <<"mysql", "credentials">>
wpPVCName(n)         == Append(n, "content")
hpaName(n)           == Append(n, "hpa")

\* Variant: any part of an application.
selectorLabelsOfSite(n, component) == [name |-> "wordpress", instance |-> n]

selectorLabels(n, component) ==
  [name |-> "wordpress", instance |-> n, component |-> component]

commonLabels(n, component) ==
  mergeStringMaps(selectorLabels(n, component),
                  [managedBy |-> "wordpress-operator", partOf |-> "wordpress-operator"])

-----------------------------------------------------------------------------
(* resources.go and database.go, for resource n and its effective spec w *)

\* Variant: the Service of the site.
resolvedSiteHost(n, w) ==
  IF w.fields.mode = "External" THEN <<"Host", w.fields.host, w.fields.dbPort>>
  ELSE <<"Service", wpName(n), 3306>>

resolvedDBHost(n, w) ==
  IF w.fields.mode = "External" THEN <<"Host", w.fields.host, w.fields.dbPort>>
  ELSE <<"Service", dbServiceName(n), 3306>>

\* The address reported in the status; none without an Ingress, and the user's
\* own word for it if there is one.
computeURL(w) ==
  IF w.fields.siteURL = "" /\ w.fields.exposed /\ w.fields.ingressHost # ""
  THEN {<<"Site", IF w.fields.tls # "" THEN "https" ELSE "http", w.fields.ingressHost>>}
  ELSE {}

\* The claim the StatefulSet controller makes of the template "data".
ClaimOf(statefulSet) == <<"Claim", <<"data">> \o statefulSet \o <<"0">>>>

Plain(kind, name, provides, needs) ==
  [kind |-> kind, name |-> name, selector |-> <<>>, labels |-> <<>>, ports |-> {},
   provides |-> provides, needs |-> needs]

buildMySQLSecret(n) ==
  Plain("Secret", dbSecretName(n),
        {<<"Secret", dbSecretName(n), key>> : key \in {"mysql-root-password", "wordpress-password"}}, {})

buildMySQLHeadlessService(n) ==
  [kind |-> "Service", name |-> dbServiceName(n),
   selector |-> selectorLabels(n, "mysql"), labels |-> <<>>, ports |-> {3306},
   provides |-> {<<"Service", dbServiceName(n), 3306>>}, needs |-> {}]

buildMySQLStatefulSet(n, w) ==
  [kind |-> "StatefulSet", name |-> dbStatefulSetName(n),
   selector |-> selectorLabels(n, "mysql"), labels |-> commonLabels(n, "mysql"), ports |-> {3306},
   provides |-> {<<"Database", w.fields.name, w.fields.user>>, ClaimOf(dbStatefulSetName(n))},
   needs |-> {<<"Service", dbServiceName(n), 3306>>, <<"Secret", dbSecretName(n), "wordpress-password">>}
             \cup IF w.fields.rootPassword = Nil
                  THEN {<<"Secret", dbSecretName(n), "mysql-root-password">>} ELSE {}]

\* The container waits for the database under a name of its own making.
buildWordPressDeployment(n, w) ==
  [kind |-> "Deployment", name |-> wpName(n),
   selector |-> selectorLabels(n, "wordpress"),
   labels |-> mergeStringMaps(commonLabels(n, "wordpress"), w.fields.podLabels),
   ports |-> {80},
   provides |-> {<<"Deployment", wpName(n)>>},
   needs |-> (IF w.fields.persist THEN {<<"Claim", wpPVCName(n)>>} ELSE {})
             \cup IF w.fields.mode = "Internal"
                  THEN {resolvedDBHost(n, w), <<"Service", Append(n, "mysql"), 3306>>,
                        <<"Secret", dbSecretName(n), "wordpress-password">>,
                        <<"Database", w.fields.name, w.fields.user>>}
                  ELSE {}]

buildWordPressService(n, w) ==
  [kind |-> "Service", name |-> wpName(n),
   selector |-> selectorLabels(n, "wordpress"), labels |-> <<>>, ports |-> {80},
   provides |-> {<<"Service", wpName(n), w.fields.port>>}, needs |-> {}]

buildWordPressPVC(n) == Plain("PVC", wpPVCName(n), {<<"Claim", wpPVCName(n)>>}, {})

buildWordPressIngress(n, w) ==
  Plain("Ingress", wpName(n),
        {<<"Site", IF w.fields.tls # "" /\ w.fields.ingressHost # "" THEN "https" ELSE "http",
           w.fields.ingressHost>>},
        {<<"Service", wpName(n), w.fields.port>>})

buildWordPressHPA(n) == Plain("HPA", hpaName(n), {}, {<<"Deployment", wpName(n)>>})

\* The objects of a pass that completes.
Built(n, w) ==
  (IF w.fields.mode = "Internal"
   THEN {buildMySQLSecret(n), buildMySQLHeadlessService(n), buildMySQLStatefulSet(n, w)} ELSE {})
  \cup (IF w.fields.persist THEN {buildWordPressPVC(n)} ELSE {})
  \cup {buildWordPressDeployment(n, w), buildWordPressService(n, w)}
  \cup (IF w.fields.exposed THEN {buildWordPressIngress(n, w)} ELSE {})
  \cup (IF w.fields.autoscaled THEN {buildWordPressHPA(n)} ELSE {})

\* What the controller itself refers to: the address in the status, and the
\* claim that handleDeletion deletes by name.
ControllerNeeds(n, w) ==
  computeURL(w) \cup
  IF w.fields.mode = "Internal" THEN {<<"Claim", <<"data">> \o dbStatefulSetName(n) \o <<"0">>>>} ELSE {}

-----------------------------------------------------------------------------
(* Pods: those of a workload carry its labels *)

Matched(selector, labels) ==
  \A l \in DOMAIN selector : l \in DOMAIN labels /\ labels[l] = selector[l]

Workload(o) == o.kind \in {"Deployment", "StatefulSet"}

\* The API server refuses a workload that does not select its own pods.
Runs(o) == Workload(o) /\ Matched(o.selector, o.labels)

Selects(service, o) == Runs(o) /\ Matched(service.selector, o.labels)
=============================================================================
