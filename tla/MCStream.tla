------------------------------ MODULE MCStream ------------------------------
(* Bounds for Stream: which SETs the streams are made of.                  *)
EXTENDS Stream

SetOf(key, val, px) == [key |-> key, val |-> val, px |-> px]

(* Messages with and without PX, in each order, and words of one, two and  *)
(* ten characters, the second of them a digit.                             *)
Plain == SetOf(<<"k">>, <<"v", "2">>, NoPx)
Dated == SetOf(<<"q", "7">>, <<"w">>, 5)
Long == SetOf(<<"l", "8">> \o [i \in 1 .. 8 |-> "l"], <<>>, 5000)
UnstarredStreams ==
  { <<Plain, Dated, Plain>>, <<Dated, Dated>>, <<Dated, Plain, Dated>>, <<Long, Plain>> }

(* Words with a star before a digit: in the value, in the key, in both, or *)
(* twice in one, and what is behind it a number or not.                    *)
Product == SetOf(<<"k">>, <<"2", "*", "3">>, NoPx)
Factor == SetOf(<<"p", "*", "1", "x">>, <<"w">>, 5)
Square == SetOf(<<"q", "*", "2">>, <<"v", "*", "1">>, NoPx)
Cube == SetOf(<<"k">>, <<"a", "*", "0", "*", "9">>, 5)
StarredStreams ==
  { <<Plain, Product, Plain>>, <<Product, Plain, Dated>>, <<Dated, Factor, Plain>>,
    <<Factor, Plain>>, <<Square, Dated>>, <<Cube, Plain>>, <<Plain, Cube>>, <<Square, Product>> }

PlainStreams == UnstarredStreams \cup StarredStreams

(* A key that looks like the header of an argument.                        *)
HeaderStreams == { <<SetOf(key, <<"v">>, NoPx)>> : key \in { <<"k">>, <<"$", "5">> } }
=============================================================================
