----------------------------- MODULE MCTvpReader -----------------------------
(* TvpReader for TLC: messages put together from pieces, proper fields of    *)
(* two accepted tags and of one that is not, the closing checksum, and what  *)
(* can be wrong with a field.                                                *)
EXTENDS TvpReader

CONSTANTS t8, t9, t10

Long == {<<t8, "=", "x", ";">>, <<t9, "=", "x", "x", ";">>,
         <<"x", "=", t9, "=", "x", ";">>}
Short == {<<t10, "=", "x", ";">>, <<t10, "=", "x">>, <<t9, ";">>, <<t8, "=", ";">>, <<t8, "=", "x">>, <<"x">>}

BuiltMessages ==
  {FlattenSeq(s) : s \in SeqOf(Long \cup Short, 2) \cup [1..3 -> Long]}

(* Messages that begin as a FIX message does, with a version and a length.   *)
ProperMessages ==
  {<<t8, "=", "x", ";", t9, "=", "x", "x", ";">> \o m :
     m \in {<<>>, <<t10, "=", "x", ";">>}}
=============================================================================
