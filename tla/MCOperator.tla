----------------------------- MODULE MCOperator -----------------------------
(***************************************************************************)
(* Instances for TLC. A Certificate is a string, so a tree is a record.    *)
(***************************************************************************)
EXTENDS Operator

\* root - i1 - n1 - l1
ChainParent    == [i1 |-> "root", n1 |-> "i1", l1 |-> "n1"]
ChainNamespace == [i1 |-> "cert-manager", n1 |-> "apps", l1 |-> "apps"]

\* the chain, and a leaf of the tier-1 issuer
ForkParent     == [i1 |-> "root", n1 |-> "i1", l1 |-> "n1", d1 |-> "i1"]
ForkNamespace  == [i1 |-> "cert-manager", n1 |-> "apps", l1 |-> "apps", d1 |-> "cert-manager"]

\* two CAs in one namespace, a leaf below one of them
SharedParent    == [i1 |-> "root", n1 |-> "i1", n2 |-> "i1", l1 |-> "n1"]
SharedNamespace == [i1 |-> "cert-manager", n1 |-> "apps", n2 |-> "apps", l1 |-> "apps"]
=============================================================================
