----------------------------- MODULE TrustDomain ------------------------------
(***************************************************************************)
(* What the certificate directory promises to everybody who holds a        *)
(* certificate signed by one of the sub-CAs: while the process serves, no  *)
(* sub-CA changes; a start replaces the sub-CAs that were close to their   *)
(* end when it began, or all of them if the root was; what replaces them   *)
(* is new and lives for the whole validity; and only a start that dies may *)
(* lose another one, at most one.  CertChains implements this,             *)
(* KubeControllers builds on it.                                           *)
(***************************************************************************)
EXTENDS Integers

CONSTANTS
  SubCAs,
  Validity,     \* of a sub-CA
  Threshold     \* a sub-CA with less time left than this is due

VARIABLES
  phase,        \* "down", "starting", "serving"
  ca,           \* ca[c]: key pair (0 is none) and end of the sub-CA on disk
  due,          \* the sub-CAs this start may replace
  keys,         \* key pairs made so far
  now

vars == <<phase, ca, due, keys, now>>

None == [gen |-> 0, expires |-> 0]

TypeOK ==
  /\ phase \in {"down", "starting", "serving"}
  /\ ca \in [SubCAs -> [gen : Nat, expires : Int]]
  /\ due \subseteq SubCAs
  /\ keys \in Nat /\ now \in Nat

Init ==
  /\ phase = "down" /\ due = {}
  /\ ca = [c \in SubCAs |-> None]
  /\ keys = 1 /\ now = 0

(* Mutant of CloseToEnd: the comparison is not strict.                     *)
CloseToEndOrAt(c) == ca[c].gen # 0 /\ ca[c].expires - now <= Threshold

CloseToEnd(c) == ca[c].gen # 0 /\ ca[c].expires - now < Threshold

(* A start finds out what is due; the root is not part of this picture.    *)
Start ==
  /\ phase = "down"
  /\ phase' = "starting"
  /\ \/ due' = {c \in SubCAs : CloseToEnd(c)}
     \/ due' = SubCAs
  /\ UNCHANGED <<ca, keys, now>>

(* A due sub-CA is removed.                                                *)
Remove(c) ==
  /\ phase = "starting" /\ c \in due
  /\ ca' = [ca EXCEPT ![c] = None]
  /\ UNCHANGED <<phase, due, keys, now>>

(* The process dies while it removes a sub-CA or signs with it, and leaves *)
(* files that no longer load.                                              *)
Lose(c) ==
  /\ phase = "starting"
  /\ ca' = [ca EXCEPT ![c] = None]
  /\ phase' = "down" /\ due' = {}
  /\ UNCHANGED <<keys, now>>

Make(c) ==
  /\ phase = "starting" /\ ca[c].gen = 0
  /\ keys' = keys + 1
  /\ ca' = [ca EXCEPT ![c] = [gen |-> keys', expires |-> now + Validity]]
  /\ UNCHANGED <<phase, due, now>>

(* Key pairs are also made for roots.                                      *)
MakeOther ==
  /\ phase = "starting"
  /\ keys' = keys + 1
  /\ UNCHANGED <<phase, ca, due, now>>

Serve ==
  /\ phase = "starting"
  /\ \A c \in SubCAs : ca[c].gen # 0
  /\ phase' = "serving"
  /\ UNCHANGED <<ca, due, keys, now>>

Stop ==
  /\ phase # "down"
  /\ phase' = "down" /\ due' = {}
  /\ UNCHANGED <<ca, keys, now>>

Tick ==
  /\ phase # "starting"
  /\ now' = now + 1
  /\ UNCHANGED <<phase, ca, due, keys>>

Next ==
  \/ Start \/ MakeOther \/ Serve \/ Stop \/ Tick
  \/ \E c \in SubCAs : Remove(c) \/ Lose(c) \/ Make(c)

Spec == Init /\ [][Next]_vars
===============================================================================
