---------------------------- MODULE MCPatchData ----------------------------
(***************************************************************************)
(* A roster that may list two champions, one of them, or be no roster; for *)
(* each champion, two contents that are its own and one of the other's.    *)
(***************************************************************************)
EXTENDS PatchDataProperties, TLC

CONSTANTS roster, garen, jax, both, one, new, old, other, Gone, None

MCPaths == {roster, garen, jax}
MCContents == {both, one, new, old, other}
MCPlanOf == both :> {garen, jax} @@ one :> {jax}
MCValidFor == roster :> {} @@ garen :> {new, old} @@ jax :> {old, other}
=============================================================================
