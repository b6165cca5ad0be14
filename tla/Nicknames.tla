------------------------------ MODULE Nicknames ------------------------------
(***************************************************************************)
(* What the chat service promises about nicknames, independent of rooms,   *)
(* broadcasts and drains: one belongs to one connection at most, a         *)
(* connection has one at most, it is refused while somebody else has it,   *)
(* and only its owner gives it up, by choosing another or by leaving.      *)
(* Whoever has left comes back to no nickname; one whose owner has left is *)
(* free for others.  PeerChat implements this module until it is drained,  *)
(* and through a drain if that disconnects nobody whose NICK is under way. *)
(*                                                                         *)
(* README.md of the program: "uniqueness lasts only for the active         *)
(* connection"; ROADMAP.md: "Reject duplicate PeerChat nicknames           *)
(* deterministically."                                                     *)
(***************************************************************************)
CONSTANTS Client, Nobody, Nick

VARIABLES
  owner,   \* nickname -> its connection, or Nobody
  left     \* the connections that have left

vars == <<owner, left>>

Init == owner = [n \in Nick |-> Nobody] /\ left = {}

GivenUp(c) == [n \in Nick |-> IF owner[n] = c THEN Nobody ELSE owner[n]]

Choose(c, n) ==
  /\ c \notin left /\ owner[n] \in {c, Nobody}
  /\ owner' = [GivenUp(c) EXCEPT ![n] = c]
  /\ left' = left

Leave(c) ==
  /\ c \notin left
  /\ owner' = GivenUp(c)
  /\ left' = left \cup {c}

Next == \E c \in Client : Leave(c) \/ \E n \in Nick : Choose(c, n)

Spec == Init /\ [][Next]_vars
=============================================================================
