---------------------------- MODULE MCPipeline ----------------------------
(* Values for the constants of Pipeline: two labels, one of them written in *)
(* two ways, a blank one, and answers of both kinds of confidence.          *)
EXTENDS Pipeline, TLC

CONSTANTS b1, b2, w1, w2, tech, food

MCSpellings == {"Tech", " tech", "food", " "}

MCNormal == ("Tech" :> tech @@ " tech" :> tech @@ "food" :> food @@ " " :> NoLabel)

MCAnswers ==
    {[labels |-> {"Tech", " tech", "food"}, confidence |-> 90],
     [labels |-> {"Tech", " "}, confidence |-> 50],
     [labels |-> {" "}, confidence |-> 90],
     [labels |-> {"food"}, confidence |-> 49]}

OneDry == (w1 :> FALSE @@ w2 :> TRUE)

NoneDry == [w \in Workers |-> FALSE]

AllDry == [w \in Workers |-> TRUE]

MCSeed == {tech}
=============================================================================
