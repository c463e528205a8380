----------------------------- MODULE Documents -----------------------------
(***************************************************************************)
(* The spec of a WordPress resource field by field, through its three      *)
(* forms: the document the API server stores, the Go value the controller  *)
(* decodes, and that value with the defaults of the code.                  *)
(*                                                                         *)
(* A document has the sections and the fields that are written out; a Go   *)
(* value has all fields, the unwritten ones with their zero value, and of  *)
(* the sections only those behind a pointer can be missing.  Fields that   *)
(* are only copied and have neither default, bound nor use in a decision   *)
(* (resources, affinity, annotations, ...) are left out.                   *)
(***************************************************************************)
EXTENDS Integers

CONSTANT Nil    \* the nil pointer

ASSUME NilAssumption == Nil \notin Int

\* The overrides take precedence.
mergeStringMaps(src, overrides) ==
  [k \in DOMAIN src \cup DOMAIN overrides |->
     IF k \in DOMAIN overrides THEN overrides[k] ELSE src[k]]

SectionOf ==
  [image       |-> "spec",        imagePullPolicy |-> "spec",
   replicas    |-> "spec",        siteURL         |-> "spec",
   podLabels   |-> "spec",
   mode        |-> "database",    name            |-> "database",
   user        |-> "database",    tablePrefix     |-> "database",
   dbImage     |-> "internal",    dbPullPolicy    |-> "internal",
   storageSize |-> "internal",    rootPassword    |-> "internal",
   host        |-> "external",    dbPort          |-> "external",
   password    |-> "external",
   type        |-> "service",     port            |-> "service",
   exposed     |-> "ingress",     ingressHost     |-> "ingress",
   tls         |-> "ingress",
   persist     |-> "persistence", size            |-> "persistence",
   accessModes |-> "persistence",
   autoscaled  |-> "autoscaling", min             |-> "autoscaling",
   max         |-> "autoscaling", target          |-> "autoscaling"]

Fields   == DOMAIN SectionOf
Pointers == {"internal", "external"}

\* Sections of the Go type that are structs and not pointers: omitempty has no
\* effect on them.
Structs == {"spec", "resources", "database", "service", "ingress", "persistence", "autoscaling"}

Sections == Structs \cup Pointers \cup {"internalResources"}

\* The fields of type int32 and bool.
Numbers == {"replicas", "dbPort", "port", "min", "max", "target"}
Flags   == {"exposed", "persist", "autoscaled"}

Typed(f, x) == (f \in Numbers => x \in Int) /\ (f \in Flags => x \in BOOLEAN)

\* A document: a spec, sections inside the sections they belong to, fields of
\* their types.
WellFormed(d) ==
  /\ d = [sections |-> d.sections, fields |-> [f \in DOMAIN d.fields |-> d.fields[f]]]
  /\ "spec" \in d.sections /\ d.sections \subseteq Sections
  /\ d.sections \cap Pointers # {} => "database" \in d.sections
  /\ "internalResources" \in d.sections => "internal" \in d.sections
  /\ \A f \in DOMAIN d.fields :
       f \in Fields /\ SectionOf[f] \in d.sections /\ Typed(f, d.fields[f])

\* What a field of the Go value holds when the document does not have it. A nil
\* map is an empty one: merging and omitempty treat them alike.
Zero ==
  [image |-> "", imagePullPolicy |-> "", replicas |-> Nil, siteURL |-> "", podLabels |-> <<>>,
   mode |-> "", name |-> "", user |-> "", tablePrefix |-> "",
   dbImage |-> "", dbPullPolicy |-> "", storageSize |-> "", rootPassword |-> Nil,
   host |-> "", dbPort |-> 0, password |-> "",
   type |-> "", port |-> 0,
   exposed |-> FALSE, ingressHost |-> "", tls |-> "",
   persist |-> FALSE, size |-> "", accessModes |-> {},
   autoscaled |-> FALSE, min |-> 0, max |-> 0, target |-> 0]

-----------------------------------------------------------------------------
(* The schema: what the API server fills in and what it refuses *)

SchemaDefault ==
  [image |-> "wordpress:6.5-apache", imagePullPolicy |-> "IfNotPresent", replicas |-> 1,
   mode |-> "Internal", name |-> "wordpress", user |-> "wordpress", tablePrefix |-> "wp_",
   dbImage |-> "mysql:8.0", dbPullPolicy |-> "IfNotPresent", storageSize |-> "5Gi",
   dbPort |-> 3306,
   type |-> "ClusterIP", port |-> 80,
   exposed |-> FALSE,
   persist |-> TRUE, size |-> "5Gi",
   autoscaled |-> FALSE, min |-> 1, max |-> 5, target |-> 80]

Minimum  == [replicas |-> 0, dbPort |-> 1, port |-> 1, min |-> 1, max |-> 1, target |-> 1]
Maximum  == [dbPort |-> 65535, port |-> 65535, target |-> 100]
Required == {"host", "password"}               \* of the external section
NonEmpty == {"name", "user"} \cup Required
Values   == [mode |-> {"Internal", "External"}, type |-> {"ClusterIP", "NodePort", "LoadBalancer"}]

\* Only sections that are written out get defaults.
SchemaDefaulted(d) ==
  [d EXCEPT !.fields = mergeStringMaps(
     [f \in {g \in DOMAIN SchemaDefault : SectionOf[g] \in d.sections} |-> SchemaDefault[f]], @)]

Admitted(d) ==
  /\ WellFormed(d)
  /\ \A f \in DOMAIN d.fields :
       /\ f \in NonEmpty => d.fields[f] # Zero[f]
       /\ f \in DOMAIN Values => d.fields[f] \in Values[f]
       /\ f \in DOMAIN Minimum => d.fields[f] >= Minimum[f]
       /\ f \in DOMAIN Maximum => d.fields[f] <= Maximum[f]
  /\ "external" \in d.sections => Required \subseteq DOMAIN d.fields

-----------------------------------------------------------------------------
(* The Go types *)

Decode(d) == [sections |-> d.sections \cap Pointers, fields |-> mergeStringMaps(Zero, d.fields)]

\* Variant: no field is omitted when it is empty.
EncodeAll(w) ==
  LET present == Structs \cup w.sections IN
  [sections |-> present,
   fields   |-> [f \in {g \in Fields : SectionOf[g] \in present} |-> w.fields[f]]]

\* Every field but the required ones is tagged omitempty.
Encode(w) ==
  LET present == Structs \cup w.sections \cup
                 IF "internal" \in w.sections THEN {"internalResources"} ELSE {}
      Written(f) == SectionOf[f] \in present /\ (w.fields[f] # Zero[f] \/ f \in Required)
  IN [sections |-> present, fields |-> [f \in {g \in Fields : Written(g)} |-> w.fields[f]]]

-----------------------------------------------------------------------------
(* applyDefaults and validateSpec *)

CodeDefault ==
  [image |-> "wordpress:6.5-apache", imagePullPolicy |-> "IfNotPresent", replicas |-> 1,
   type |-> "ClusterIP", port |-> 80,
   size |-> "5Gi", accessModes |-> {"ReadWriteOnce"},
   mode |-> "Internal", name |-> "wordpress", user |-> "wordpress", tablePrefix |-> "wp_",
   dbImage |-> "mysql:8.0", dbPullPolicy |-> "IfNotPresent", storageSize |-> "5Gi",
   dbPort |-> 3306,
   min |-> 1, max |-> 5, target |-> 80]

\* Variant: the sections of the database are forgotten.
DefaultingOfSite(w, mode) ==
  {"spec", "service", "persistence"} \cup (IF w.fields.autoscaled THEN {"autoscaling"} ELSE {})

\* The sections whose fields applyDefaults looks at, in the mode it has settled.
Defaulting(w, mode) ==
  {"spec", "service", "persistence", "database"}
  \cup (IF mode = "Internal" THEN {"internal"} ELSE {})
  \cup (IF mode = "External" THEN w.sections \cap {"external"} ELSE {})
  \cup (IF w.fields.autoscaled THEN {"autoscaling"} ELSE {})

applyDefaults(w) ==
  LET mode == IF w.fields.mode = "" THEN CodeDefault.mode ELSE w.fields.mode
      Fills(f) == f \in DOMAIN CodeDefault /\ SectionOf[f] \in Defaulting(w, mode)
                    /\ w.fields[f] = Zero[f]
  IN [sections |-> w.sections \cup IF mode = "Internal" THEN {"internal"} ELSE {},
      fields   |-> [f \in Fields |-> IF Fills(f) THEN CodeDefault[f] ELSE w.fields[f]]]

\* Variant: the external section is taken for granted.
validateSpecLoosely(w) ==
  /\ w.fields.mode \in {"Internal", "External"}
  /\ w.fields.autoscaled => w.fields.max >= w.fields.min
  /\ w.fields.exposed => w.fields.ingressHost # ""

validateSpec(w) ==
  /\ w.fields.mode \in {"Internal", "External"}
  /\ w.fields.mode = "External" =>
       "external" \in w.sections /\ w.fields.host # "" /\ w.fields.password # ""
  /\ w.fields.autoscaled => w.fields.max >= w.fields.min
  /\ w.fields.exposed => w.fields.ingressHost # ""

\* The spec a pass works from.
Effective(d) == applyDefaults(Decode(d))

-----------------------------------------------------------------------------

\* Variant: the defaults of the code are sent along.
WriteBackDefaulted(d) == SchemaDefaulted(Encode(Effective(d)))

\* What is stored after the controller sends back the object it has read.
WriteBack(d) == SchemaDefaulted(Encode(Decode(d)))
=============================================================================
