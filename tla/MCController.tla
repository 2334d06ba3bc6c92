---------------------------- MODULE MCController ----------------------------
(***************************************************************************)
(* Instances of the work queue for TLC: root - i1 - l1.                    *)
(***************************************************************************)
EXTENDS Controller

ShortParent    == [i1 |-> "root", l1 |-> "i1"]
ShortNamespace == [i1 |-> "cert-manager", l1 |-> "cert-manager"]
ChainParent    == [i1 |-> "root", n1 |-> "i1", l1 |-> "n1"]
ChainNamespace == [i1 |-> "cert-manager", n1 |-> "apps", l1 |-> "apps"]
=============================================================================
