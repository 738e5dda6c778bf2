--------------------------- MODULE MCSettingsCache ---------------------------
(***************************************************************************)
(* Texts for the settings: valid ones, out of bounds, invalid, missing.    *)
(***************************************************************************)
EXTENDS SettingsCache

Text(fields, first, second) ==
    [word |-> "", fields |-> fields, first |-> first, second |-> second]

Word(w) == [word |-> w, fields |-> 1, first |-> <<>>, second |-> <<>>]

MCTexts ==
    [frequency |-> {Text(1, <<10>>, <<>>), Text(1, <<120>>, <<>>)},
     period    |-> {Text(1, <<-5>>, <<>>), Text(1, <<3601>>, <<>>)},
     ttl       |-> {Word("use-period"), Text(1, <<10>>, <<>>)},
     settle    |-> {Text(1, <<>>, <<>>)},
     critical  |-> {Text(3, <<95>>, <<60>>), Text(2, <<101>>, <<60>>)}]

\* A text with a span, and one without, are enough to lose the span.
MCLow ==
    [frequency |-> {Text(1, <<60>>, <<>>)},
     period    |-> {Text(1, <<604800>>, <<>>)},
     low       |-> {Text(1, <<20>>, <<>>), Text(2, <<70>>, <<90000>>)}]

=============================================================================
