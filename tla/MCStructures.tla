---------------------------- MODULE MCStructures ----------------------------
(***************************************************************************)
(* Structures small enough to be explored.                                 *)
(***************************************************************************)
EXTENDS Structures

OtherLists == {<<1>>, <<1, 2>>, <<2, 2, 1>>}
Signs      == {1, -1}
WordList   == {<<>>, <<"a">>, <<"a", "b">>, <<"a", "b", "b">>, <<"b">>}
=============================================================================
