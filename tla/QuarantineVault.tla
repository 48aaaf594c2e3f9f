--------------------------- MODULE QuarantineVault --------------------------
(***************************************************************************)
(* What the quarantine promises about an artifact, without a file system:  *)
(* it is at home, held in the vault, or destroyed for good, and each move  *)
(* between these happens in one step.                                      *)
(***************************************************************************)
CONSTANT Artifacts

VARIABLE place             \* artifact -> where it is

VaultInit == place = [a \in Artifacts |-> "home"]

Moves(a, from, to) ==
  /\ place[a] = from
  /\ place' = [place EXCEPT ![a] = to]

Hold(a)     == Moves(a, "home", "vault")
GiveBack(a) == Moves(a, "vault", "home")
Destroy(a)  == Moves(a, "vault", "destroyed")

VaultNext == \E a \in Artifacts : Hold(a) \/ GiveBack(a) \/ Destroy(a)

VaultSpec == VaultInit /\ [][VaultNext]_place
=============================================================================
