---------------------------- MODULE NetworkStore ----------------------------
(***************************************************************************)
(* What the device promises of the networks it knows: a set of them, with  *)
(* at most one secret each, that survives a restart.  A restart while they *)
(* are being kept may lose any of them and damage one secret, and of more  *)
(* than Entries networks, or with a nameless one, some may be lost.  A     *)
(* network that was forgotten, or a secret that was replaced, never comes  *)
(* back once it is being kept.                                             *)
(***************************************************************************)
EXTENDS Naturals, FiniteSets

CONSTANTS
  Ssid,      \* names of networks
  Nameless,  \* the empty name, one of Ssid
  Secret,    \* passwords, with the value of none
  Torn,      \* a damaged secret
  Entries    \* how many networks can be kept

VARIABLES
  known,     \* the networks that are used
  kept,      \* the networks a restart would bring back
  keeping    \* the known networks are being kept

storeVars == <<known, kept, keeping>>

Network == [ssid : Ssid, secret : Secret \cup {Torn}]

Without(networks, s) == {n \in networks : n.ssid # s}
Damaged(s) == [ssid |-> s, secret |-> Torn]

Init == known = {} /\ kept = {} /\ keeping = FALSE

(* A network is known with a new secret, whatever was known of it.         *)
Put(n) ==
  /\ ~keeping /\ keeping' = TRUE
  /\ known' = Without(known, n.ssid) \cup {n}
  /\ kept' = {}

Forget(s) ==
  /\ ~keeping /\ keeping' = TRUE
  /\ known' = Without(known, s)
  /\ kept' = {}

Keep ==
  /\ keeping /\ UNCHANGED <<known, keeping>>
  /\ kept' \subseteq known

Kept ==
  /\ keeping /\ keeping' = FALSE /\ UNCHANGED known
  /\ kept' \subseteq known
  /\ Cardinality(known) <= Entries /\ Without(known, Nameless) = known => kept' = known

(* The interrupted write may have left a network with a damaged secret.    *)
Restart ==
  /\ keeping' = FALSE /\ known' = kept'
  /\ \/ kept' = kept
     \/ /\ keeping
        /\ \E n \in known : kept' = kept \cup {Damaged(n.ssid)}

Next ==
  \/ \E n \in Network : Put(n)
  \/ \E s \in Ssid : Forget(s)
  \/ Keep \/ Kept \/ Restart

Spec == Init /\ [][Next]_storeVars
=============================================================================
