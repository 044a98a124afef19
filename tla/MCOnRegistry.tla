---------------------------- MODULE MCOnRegistry ----------------------------
(* Model-checking instance of OnRegistry: callbacks at the root and at x,  *)
(* pushes at, above and below both.                                        *)
EXTENDS OnRegistry, TLC

CONSTANTS x, y, z, v1, v2

Tree == {<<>>, <<x>>, <<x, y>>, <<x, z>>}
Subscribed == {<<>>, <<x>>}

Obj == <<>> :> Object
Values ==
    { <<>> :> Null, <<>> :> v1, <<>> :> v2,
      Obj @@ <<y>> :> v1 @@ <<z>> :> v1,
      Obj @@ <<x>> :> Object @@ <<x, y>> :> v2 }
OneSub == {<<x>>}
Symmetry == Permutations(Handle)
=============================================================================
