----------------------------- MODULE DualTrust -----------------------------
(***************************************************************************)
(* What a rotation owes to everyone who trusts the staging ConfigMap,      *)
(* without phases, Secrets or objects: a set of trusted roots, and for     *)
(* each cluster intermediate the root whose key signed it. Trust opens to  *)
(* one root at a time and only towards younger ones; it leaves a root only *)
(* when every intermediate has moved past it and a younger root is trusted.*)
(***************************************************************************)
EXTENDS Naturals

CONSTANT Intermediates

VARIABLES
    kept,     \* is there a place where the trusted roots are kept
    trusted,  \* the keys of the trusted roots
    carried   \* carried[t]: the root key t was signed with

dualTrustVars == <<kept, trusted, carried>>

Init == /\ kept \in BOOLEAN /\ trusted \subseteq Nat
        /\ kept \/ trusted = {}
        /\ carried \in [Intermediates -> Nat]

(* A root is trusted in addition, none older than those that are. *)
Extend ==
    /\ \E k \in trusted' :
          /\ trusted' = trusted \cup {k}
          /\ \A n \in trusted : n <= k
    /\ kept' = TRUE
    /\ UNCHANGED carried

(* An intermediate is re-issued, by the same root or a younger one. *)
Reissue ==
    /\ \E t \in Intermediates :
          /\ \A u \in Intermediates \ {t} : carried'[u] = carried[u]
          /\ carried'[t] >= carried[t]
    /\ UNCHANGED <<kept, trusted>>

(* Trust in a root ends. *)
Withdraw ==
    /\ kept
    /\ \E k \in trusted :
          /\ trusted' = trusted \ {k}
          /\ \A t \in Intermediates : carried[t] > k
          /\ \E n \in trusted : n > k
    /\ UNCHANGED <<kept, carried>>

(* The place where the roots are kept is lost, and only with it all of them. *)
Lose == kept /\ kept' = FALSE /\ trusted' = {} /\ UNCHANGED carried

Next == Extend \/ Reissue \/ Withdraw \/ Lose

Spec == Init /\ [][Next]_dualTrustVars
=============================================================================
