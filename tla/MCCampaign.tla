----------------------------- MODULE MCCampaign -----------------------------
(* Two words of two bytes of two bits, and traces that add a byte, a bit to a
   byte already reached, news in the second word only, and, after the fourth,
   a byte in the first word and a bit in the second. *)
EXTENDS Campaign

Trace(hits) == [v \in 1..2 |-> [l \in {1, 2} |-> {b \in {"x", "y"} : <<v, l, b>> \in hits}]]

MCTraces == {Trace({}),
             Trace({<<1, 1, "x">>}),
             Trace({<<1, 1, "x">>, <<1, 1, "y">>}),
             Trace({<<1, 2, "x">>, <<2, 1, "x">>}),
             Trace({<<1, 1, "y">>, <<2, 1, "y">>})}

MCEmptyDir == {}
=============================================================================
