----------------------------- MODULE RelaySwitch -----------------------------
(***************************************************************************)
(* What the fallback relay promises, whatever the negotiation around it    *)
(* does: it is a switch that joins source addresses in disjoint pairs.  An *)
(* address of a pair counts as proven once it has returned the pair's      *)
(* ping, and a datagram goes from one end of a pair to the other only when *)
(* both are proven.  NatNeg implements this module.                        *)
(*                                                                         *)
(* README.md of the program: "opaque game datagrams are forwarded only     *)
(* between that session's two proven endpoints".                           *)
(***************************************************************************)
EXTENDS FiniteSets

CONSTANT Addr      \* source addresses

VARIABLES
  pairs,           \* the joined pairs, each a set of two addresses
  proven,          \* the addresses that returned the ping of their pair
  delivered        \* <<source, destination>> of the datagram the step relayed

vars == <<pairs, proven, delivered>>

Init == pairs = {} /\ proven = {} /\ delivered = {}

(* Pairs may go at any time; an address that is in no pair any more is not *)
(* proven either.                                                          *)
Closing(S) == pairs' = pairs \ S

Close ==
  /\ \E S \in SUBSET pairs :
       /\ Closing(S)
       /\ proven' = proven \ UNION S
  /\ delivered' = {}

(* A new pair takes its addresses away from the pairs they were in.        *)
Open(a, b) ==
  /\ a # b
  /\ \E S \in SUBSET pairs :
       /\ \A p \in pairs : p \cap {a, b} # {} => p \in S
       /\ pairs' = (pairs \ S) \cup {{a, b}}
       /\ proven' = proven \ UNION S
  /\ delivered' = {}

Prove(a) ==
  /\ \E S \in SUBSET pairs :
       /\ a \in UNION (pairs \ S)
       /\ Closing(S)
       /\ proven' = (proven \ UNION S) \cup {a}
  /\ delivered' = {}

Relay(a, b) ==
  \E S \in SUBSET pairs :
    /\ {a, b} \in pairs \ S
    /\ {a, b} \subseteq proven
    /\ Closing(S)
    /\ proven' = proven \ UNION S
    /\ delivered' = {<<a, b>>}

Next ==
  \/ Close
  \/ \E a, b \in Addr : Open(a, b) \/ Relay(a, b)
  \/ \E a \in Addr : Prove(a)

Spec == Init /\ [][Next]_vars
=============================================================================
