---- MODULE MCReceiving ----
(* Model-checking instance of Receiving: an empty message and one of a byte. *)
EXTENDS Receiving

SmallMessages == {<<>>, <<1>>}
====
