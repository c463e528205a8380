----------------------------- MODULE MCNamespace -----------------------------
(***************************************************************************)
(* An instance of Namespace for TLC: every pair of values at the edges of  *)
(* two fields, in documents with many sections and with few.               *)
(***************************************************************************)
EXTENDS Namespace, TLC

MCWords == {"a", "mysql", "credentials", "content", "hpa"}

\* Values worth writing, and among them some the schema refuses.
Edges ==
  [image |-> {"", "custom"}, replicas |-> {0, 2}, siteURL |-> {"https://site"},
   podLabels |-> {<<>>, [tier |-> "web"], [component |-> "mysql"], [instance |-> <<"a", "mysql">>]},
   mode |-> {"", "Internal", "External"}, user |-> {"", "app"}, tablePrefix |-> {""},
   dbImage |-> {""}, rootPassword |-> {"mine"},
   host |-> {"db"}, dbPort |-> {0, 65535, 65536}, password |-> {"key"},
   type |-> {"NodePort"}, port |-> {0, 8080},
   exposed |-> {FALSE, TRUE}, ingressHost |-> {"", "site"}, tls |-> {"cert"},
   persist |-> {FALSE, TRUE}, size |-> {"1Gi"}, accessModes |-> {{"ReadWriteMany"}},
   autoscaled |-> {FALSE, TRUE}, min |-> {0, 6}, max |-> {2}, target |-> {101}]

Settings == UNION {{[f |-> g, v |-> x] : x \in Edges[g]} : g \in DOMAIN Edges}

Closed(S) ==
  S \cup {"spec"} \cup (IF S \cap Pointers # {} THEN {"database"} ELSE {})

\* A document that says two things, in the sections S or those it needs.
Document(a, b, S) ==
  [sections |-> Closed(S \cup {SectionOf[a.f], SectionOf[b.f]}),
   fields   |-> (a.f :> a.v) @@ (b.f :> b.v)]

Pairs == {Document(a, b, S) : a \in Settings, b \in Settings, S \in {{}, Sections \ {"external"}}}

\* The same with what an external database needs.
WithDatabase(d) ==
  [sections |-> Closed(d.sections \cup {"external"}),
   fields   |-> d.fields @@ [mode |-> "External", host |-> "db", password |-> "key"]]

Smallest   == [sections |-> {"spec"}, fields |-> [replicas |-> 1]]
Autoscaled == [sections |-> {"spec", "autoscaling"}, fields |-> [autoscaled |-> TRUE]]

MCSubmitted ==
  (<<"a">> :> Pairs \cup {WithDatabase(d) : d \in Pairs}) @@ (<<"a", "mysql">> :> {Smallest})

MCRevised ==
  (<<"a">> :> {WithDatabase(Smallest), Autoscaled}) @@ (<<"a", "mysql">> :> {Autoscaled})
=============================================================================
