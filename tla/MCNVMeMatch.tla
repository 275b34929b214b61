------------------------------ MODULE MCNVMeMatch ------------------------------
(* Two volumes of one array with a device each, listed in either order.      *)
EXTENDS NVMeMatch

EitherOrder == {<<"own", "foreign">>, <<"foreign", "own">>}
================================================================================
