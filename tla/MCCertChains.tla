----------------------------- MODULE MCCertChains -----------------------------
(***************************************************************************)
(* Instances of CertChains: a server CA that signs the API server's       *)
(* serving certificate (its names follow the external host) and the        *)
(* certificate of the kubeconfigs, and an etcd CA that signs the peer      *)
(* certificate of the embedded etcd.  The walk sorts sub-CAs by name; the  *)
(* set-up follows the order of declaration.                                *)
(***************************************************************************)
EXTENDS CertChains

MCSubCAs == {"server-ca", "etcd-ca"}
MCLeaves == {"kube-apiserver", "kube-aggregator", "peer"}
\* With one host name only the serving certificate is like any other leaf.
MCOneHostLeaves == MCLeaves \ {"kube-apiserver"}
MCSignerOf == [l \in Leaves |-> IF l = "peer" THEN "etcd-ca" ELSE "server-ca"]
MCWalkRank ==
  [t \in {"root-ca"} \cup MCSubCAs \cup Leaves |->
     CASE t = "root-ca" -> 0 [] t = "etcd-ca" -> 1 [] t = "peer" -> 2
       [] t = "server-ca" -> 3 [] t = "kube-aggregator" -> 4 [] OTHER -> 5]
MCSetupRank ==
  [t \in MCSubCAs \cup Leaves |->
     CASE t = "server-ca" -> 0 [] t = "kube-apiserver" -> 1
       [] t = "kube-aggregator" -> 2 [] t = "etcd-ca" -> 3 [] OTHER -> 4]
MCNoProvidedRoots == {NoRoot}

\* A CA pair whose file holds a number of certificates, due after 2 ticks.
MCProvided(certs) ==
  [gen |-> 1, expires |-> 6, validity |-> 12, name |-> "provided", certs |-> certs]
MCSometimesProvided == {NoRoot, MCProvided(1)}
MCProvidedRoots == {NoRoot, MCProvided(1), MCProvided(2)}
===============================================================================
