------------------------------ MODULE Identity ------------------------------
(***************************************************************************)
(* What the patcher promises about signing: there is one identity, chosen  *)
(* once, and whatever is signed is signed by it.  Where and how its two    *)
(* files come to be, and what becomes of a build that fails or is killed,  *)
(* is no concern of this module; an identity may also never be chosen.     *)
(* Signing implements it as long as builds do not overlap.                 *)
(*                                                                         *)
(* README.md of the program: "Subsequent builds reuse that identity so     *)
(* they can update an existing FruitSpy installation".                     *)
(***************************************************************************)
CONSTANTS Key, None

VARIABLES
  identity,    \* the key, or None while none has been chosen
  signatures   \* the keys that APKs were signed with

vars == <<identity, signatures>>

Init == identity = None /\ signatures = {}

Choose(k) == identity = None /\ identity' = k /\ signatures' = signatures

Sign == identity # None /\ identity' = identity /\ signatures' = signatures \cup {identity}

Next == Sign \/ \E k \in Key : Choose(k)

Spec == Init /\ [][Next]_vars
=============================================================================
