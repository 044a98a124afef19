---------------------------- MODULE MCDataCache -----------------------------
(* Model-checking instance of DataCache: two branches, one of depth two.   *)
EXTENDS DataCache, TLC

CONSTANTS x, y, z, v1, v2

Tree == {<<>>, <<x>>, <<x, y>>, <<x, z>>, <<z>>}

Obj == <<>> :> Object
Values ==
    { <<>> :> Null, <<>> :> v1, <<>> :> v2, Obj,
      Obj @@ <<y>> :> v1,
      Obj @@ <<y>> :> v2 @@ <<z>> :> Null,
      Obj @@ <<x>> :> Object @@ <<x, y>> :> v1,
      Obj @@ <<x>> :> v1 @@ <<z>> :> v2,
      Obj @@ <<x>> :> Object @@ <<x, z>> :> Null @@ <<z>> :> Object }
=============================================================================
