----------------------------- MODULE MCObjects -----------------------------
(***************************************************************************)
(* Two classes that Python cannot instantiate; one with a free list; a    *)
(* larger class derived from it, whose blocks come from Python but go   *)
(* to that list.                                                           *)
(***************************************************************************)
EXTENDS Objects, TLC

CONSTANTS Root, Mid, Small, Large

MCBases == (Root :> <<>>) @@ (Mid :> <<Root>>) @@ (Small :> <<Mid, Root>>)
           @@ (Large :> <<Small, Mid, Root>>)
MCSize == (Root :> 1) @@ (Mid :> 1) @@ (Small :> 2) @@ (Large :> 3)
MCFields == (Root :> 0) @@ (Mid :> 0) @@ (Small :> 1) @@ (Large :> 2)
MCPool == (Root :> 0) @@ (Mid :> 0) @@ (Small :> 1) @@ (Large :> 0)
MCGives(S) == CHOOSE b \in S : TRUE
=============================================================================
