---------------------------- MODULE MCDiscovery ----------------------------
(***************************************************************************)
(* Instances for TLC: a root and a second CA in cert-manager, CAs in a     *)
(* workload namespace whose Secrets may repeat the names of those two, and *)
(* an issuer of either kind for each of them.                              *)
(***************************************************************************)
EXTENDS Discovery

MCNamespace == [root |-> "cert-manager", int |-> "cert-manager", team |-> "apps", web |-> "apps",
                copy |-> "apps", again |-> "apps", l1 |-> "apps", l2 |-> "cert-manager"]

MCSecretName == [root |-> "root-ca", int |-> "int-ca", team |-> "team-ca", web |-> "web-ca",
                 copy |-> "int-ca", again |-> "root-ca"]

Cluster(n, s) == [kind |-> ClusterIssuer, ns |-> "", name |-> n, secret |-> s]
Local(ns, n, s) == [kind |-> Issuer, ns |-> ns, name |-> n, secret |-> s]

\* the ClusterIssuers and two of the Issuers share their names
MCIssuers == { Cluster("root", "root-ca"), Cluster("int", "int-ca"),
               Local("apps", "team", "team-ca"), Local("apps", "root", "web-ca"), Local("apps", "int", "int-ca"),
               Local("apps", "again", "root-ca"), Local("cert-manager", "team", "int-ca") }

\* Secrets named apart, the issuers of int and of team named alike
MCNamesakes == { Cluster("root", "root-ca"), Cluster("int", "int-ca"),
                 Local("apps", "int", "team-ca") }
=============================================================================
