----------------------------- MODULE MCConsult -----------------------------
(* The constants of client.go in ticks of 200 ms, with a cap that the third  *)
(* delay reaches, a jitter of a tick and a timeout of four, or less than     *)
(* none; every article of five characters or fewer: spaces, letters, letters *)
(* of two bytes.                                                             *)
EXTENDS Consult, SequencesExt

Rune == {<<"space">>, <<"letter">>, <<"lead", "tail">>}

MCArticles == {FlattenSeq(runes) : runes \in BoundedSeq(Rune, 5)}

MCTimeouts == {4, -1}

MCConfidences == {-10, 50, 110}
=============================================================================
