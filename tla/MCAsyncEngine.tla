---------------------------- MODULE MCAsyncEngine ----------------------------
(* The asynchronous engine on every small model the front end can build. *)
EXTENDS AsyncEngine

Vector == <<2>>
Matrix == <<2, 2>>
MCFetcherShapes == {Vector, Matrix}
=============================================================================
