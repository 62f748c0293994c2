----------------------------- MODULE MCLoaders -----------------------------
(* Model checking Loaders: blocks of two bytes, files of up to two blocks  *)
(* and one byte, two disks of two sectors each.                             *)
EXTENDS Loaders

AllTexts  == UNION {[1 .. n -> {1, 172}] : n \in 1 .. 5}
TwoDisks  == <<<<[next |-> 2, bytes |-> <<1, 129>>], [next |-> 0, bytes |-> <<17>>]>>,
               <<[next |-> 0, bytes |-> <<129, 1, 1>>], [next |-> 1, bytes |-> <<1>>]>>>>
SomeBytes == {<<1, 1>>, <<17, 129>>}
=============================================================================
