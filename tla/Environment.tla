---------------------------- MODULE Environment ----------------------------
(***************************************************************************)
(* What cert-manager, trust-manager, the API server's watch and the        *)
(* administrator do, as far as the operator's code depends on it. None of  *)
(* these programs is in the repository: the module states the contract the *)
(* operator reads Secrets, statuses and conditions under.                  *)
(***************************************************************************)
EXTENDS Cluster

InstalledKey(p) == IF p \in RotatedBeforeInstall THEN 2 ELSE 1

InstalledCertificate(c) ==
    [key     |-> InstalledKey(c),
     akid    |-> IF Parent[c] \in RotatedBeforeInstall /\ c \in RotatedBeforeInstall
                 THEN InstalledKey(Parent[c]) ELSE 1,
     anchor  |-> IF \A p \in Signers : (p = c \/ c \in Below(p)) => p \in RotatedBeforeInstall
                 THEN 2 ELSE 1,
     nb      |-> IF c \in RotatedBeforeInstall THEN Cardinality(Certs) + 1 + Depth(c)
                 ELSE 1 + Depth(c),
     present |-> TRUE]

InstalledPEM(k) == IF k \in StagingAtInstall THEN <<[key |-> k, serial |-> k]>> ELSE <<>>

InstalledStaging ==
    [exists |-> StagingAtInstall # {}, pems |-> InstalledPEM(1) \o InstalledPEM(2)]

(* The operator is installed into a running cluster: every certificate is issued, the
   PKIRotation has just been created, the Bundle still sources from the root's Secret. *)
Init ==
    /\ root = [key |-> InstalledKey(Root), serial |-> InstalledKey(Root), present |-> TRUE]
    /\ rootCR = "none"
    /\ crt = [c \in Certs |-> InstalledCertificate(c)]
    /\ pub = [c \in Certs |-> [nb |-> InstalledCertificate(c).nb, ready |-> TRUE]]
    /\ issuing = {}
    /\ loaded = [p \in Signers |->
                    IF p = Root THEN [key |-> InstalledKey(Root), anchor |-> InstalledKey(Root)]
                    ELSE [key |-> InstalledKey(p), anchor |-> InstalledCertificate(p).anchor]]
    /\ clock = 2 * Cardinality(Certs) + 1
    /\ staging = InstalledStaging
    /\ bundle = FALSE
    /\ distributed = {InstalledKey(Root)}
    /\ status = [phase |-> "", cur |-> None, prev |-> None, dual |-> "Unset",
                 reissued |-> "Unset", verified |-> "Unset"]
    /\ cached = status
    /\ seen = [root |-> root, issuing |-> issuing, staging |-> staging]
    /\ child = [c \in CAs |-> NoChild]
    /\ disruptions = 0

---------------------------------------------------------------------------
(* cert-manager, Certificates below the root. *)

(* A new key and certificate go into the Secret and Issuing is cleared. One Certificate is
   issued at most once in a second, and its status lags by one certificate at most. *)
Issue(c) ==
    /\ c \in issuing
    /\ SignerPresent(Parent[c])
    /\ crt[c].key < MaxKey
    /\ "statusLag" \in Env => pub[c] = LiveStatus(c)
    /\ \E now \in {clock + 1} \cup {clock : x \in Env \cap {"sameSecond"}} :
          /\ now > crt[c].nb
          /\ clock' = now
          /\ crt' = [crt EXCEPT ![c] = [key     |-> crt[c].key + 1,
                                        akid    |-> SigningWith(Parent[c]).key,
                                        anchor  |-> SigningWith(Parent[c]).anchor,
                                        nb      |-> now,
                                        present |-> TRUE]]
    /\ issuing' = issuing \ {c}
    /\ UNCHANGED <<rootVars, pub, loaded, trustVars, crdVars, seen, disruptions>>

(* status.notBefore and Ready catch up with the Secret. *)
Publish(c) ==
    /\ "statusLag" \in Env
    /\ pub[c] # LiveStatus(c)
    /\ pub' = [pub EXCEPT ![c] = LiveStatus(c)]
    /\ UNCHANGED <<rootVars, crt, issuing, loaded, clock, trustVars, crdVars, seen, disruptions>>

(* The issuer backed by p's Secret signs with the new key from now on. *)
LoadIssuer(p) ==
    /\ "issuerLag" \in Env
    /\ SignerPresent(p)
    /\ loaded[p] # LiveSigner(p)
    /\ loaded' = [loaded EXCEPT ![p] = LiveSigner(p)]
    /\ UNCHANGED <<rootVars, crt, pub, issuing, clock, trustVars, crdVars, seen, disruptions>>

(* The certificate is due for renewal. *)
RenewCertificate(c) ==
    /\ Disrupt("renew")
    /\ c \notin issuing
    /\ issuing' = issuing \cup {c}
    /\ UNCHANGED <<rootVars, crt, pub, loaded, clock, trustVars, crdVars, seen>>

(* Somebody deletes the Secret, and cert-manager re-issues the certificate. *)
DeleteSecret(c) ==
    /\ Disrupt("deleteSecret")
    /\ crt[c].present
    /\ crt' = [crt EXCEPT ![c].present = FALSE]
    /\ issuing' = issuing \cup {c}
    /\ UNCHANGED <<rootVars, pub, loaded, clock, trustVars, crdVars, seen>>

---------------------------------------------------------------------------
(* cert-manager, the root CA. Without "rootAgain" a renewal starts only when no rotation
   is running: the renewal period of a root is years, a rotation takes minutes. *)

RequestRoot ==
    /\ root.present
    /\ rootCR = "none"
    /\ root.serial < MaxSerial
    /\ disruptions < MaxDisruptions
    /\ "rootAgain" \in Env \/ (status.phase = "Idle" /\ status.cur = root.key)
    /\ rootCR' = "pending"
    /\ disruptions' = disruptions + 1
    /\ UNCHANGED <<root, certVars, trustVars, crdVars, seen>>

(* The Secret is gone, so cert-manager asks for a new certificate. *)
RequestAbsentRoot ==
    /\ ~root.present
    /\ rootCR = "none"
    /\ rootCR' = "pending"
    /\ UNCHANGED <<root, certVars, trustVars, crdVars, seen, disruptions>>

(* The request is Ready; the Secret is not written yet. *)
SignRoot ==
    /\ rootCR = "pending"
    /\ rootCR' = "signed"
    /\ UNCHANGED <<root, certVars, trustVars, crdVars, seen, disruptions>>

FailRoot ==
    /\ Disrupt("crFail")
    /\ rootCR = "pending"
    /\ rootCR' = "failed"
    /\ UNCHANGED <<root, certVars, trustVars, crdVars, seen>>

RetryRoot ==
    /\ rootCR = "failed"
    /\ rootCR' = "pending"
    /\ UNCHANGED <<root, certVars, trustVars, crdVars, seen, disruptions>>

(* The signed certificate goes into the Secret: under a new key, or, with rotationPolicy
   Never and the old key still there, under the old one. *)
WriteRootSecret ==
    /\ rootCR = "signed"
    /\ rootCR' = "none"
    /\ \E key \in {root.serial + 1} \cup {root.key : x \in Env \cap {"sameKey"}} :
          /\ root.present \/ key # root.key
          /\ root' = [key |-> key, serial |-> root.serial + 1, present |-> TRUE]
    /\ UNCHANGED <<certVars, trustVars, crdVars, seen, disruptions>>

DeleteRoot ==
    /\ Disrupt("deleteRoot")
    /\ root.present
    /\ root.serial < MaxSerial
    /\ "rootAgain" \in Env \/ (status.phase = "Idle" /\ status.cur = root.key /\ rootCR = "none")
    /\ root' = [root EXCEPT !.present = FALSE]
    /\ UNCHANGED <<rootCR, certVars, trustVars, crdVars, seen>>

---------------------------------------------------------------------------
(* trust-manager, the operator's informers and the administrator. *)

Distribute ==
    /\ "trustLag" \in Env
    /\ distributed # Sourced
    /\ bundle => staging.exists
    /\ distributed' = Sourced
    /\ UNCHANGED <<rootVars, certVars, staging, bundle, crdVars, seen, disruptions>>

CacheSync ==
    /\ "cacheLag" \in Env
    /\ cached # status
    /\ cached' = status
    /\ UNCHANGED <<rootVars, certVars, trustVars, status, child, seen, disruptions>>

(* The informers of Secrets, Certificates and ConfigMaps catch up, each on its own; a copy
   that is not read stays as it is. *)
Lag  == [root |-> "rootLag", issuing |-> "certLag", staging |-> "configMapLag"]
Live == [root |-> root, issuing |-> issuing, staging |-> staging]

Sync(copy) ==
    /\ Lag[copy] \in Env
    /\ seen[copy] # Live[copy]
    /\ seen' = [seen EXCEPT ![copy] = Live[copy]]
    /\ UNCHANGED <<rootVars, certVars, trustVars, crdVars, disruptions>>

Informers == CacheSync \/ \E copy \in DOMAIN Lag : Sync(copy)

(* Somebody deletes the staging ConfigMap. *)
DeleteConfigMap ==
    /\ Disrupt("deleteConfigMap")
    /\ staging.exists
    /\ staging' = [exists |-> FALSE, pems |-> <<>>]
    /\ UNCHANGED <<rootVars, certVars, bundle, distributed, crdVars, seen>>

(* Somebody deletes a child, in whatever phase it is; the root's next Idle makes a new one. *)
DeleteChild(c) ==
    /\ Disrupt("deleteChild")
    /\ child[c].exists
    /\ child' = [child EXCEPT ![c] = NoChild]
    /\ UNCHANGED <<rootVars, certVars, trustVars, status, cached, seen>>

CertManager ==
    \/ \E c \in Certs : Issue(c)
    \/ \E c \in Certs : Publish(c)
    \/ \E p \in Signers : LoadIssuer(p)
    \/ RequestAbsentRoot \/ SignRoot \/ RetryRoot \/ WriteRootSecret

Disruption ==
    \/ \E c \in Certs : RenewCertificate(c)
    \/ \E c \in Certs : DeleteSecret(c)
    \/ RequestRoot \/ FailRoot \/ DeleteRoot \/ DeleteConfigMap
    \/ \E c \in CAs : DeleteChild(c)

EnvironmentStep == CertManager \/ Disruption \/ Distribute \/ Informers

(* cert-manager and trust-manager are level-driven controllers of their own: work that
   stays possible is done. Disruptions may never come. *)
EnvironmentFairness ==
    /\ \A c \in Certs : WF_vars(Issue(c)) /\ WF_vars(Publish(c))
    /\ \A p \in Signers : WF_vars(LoadIssuer(p))
    /\ WF_vars(RequestAbsentRoot) /\ WF_vars(SignRoot)
    /\ WF_vars(RetryRoot) /\ WF_vars(WriteRootSecret)
    /\ WF_vars(Distribute) /\ WF_vars(CacheSync)
    /\ \A copy \in DOMAIN Lag : WF_vars(Sync(copy))
=============================================================================
