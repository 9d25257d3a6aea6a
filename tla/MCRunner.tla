------------------------------ MODULE MCRunner ------------------------------
(* One place where processes run, two or three bookmarks, one label; or two, *)
(* of which the config knows one and allows no new ones.                     *)
EXTENDS Runner, TLC

CONSTANTS b1, b2, b3, w1, tech, food

MCSpellings == {"Tech", " "}

MCNormal == ("Tech" :> tech @@ " " :> NoLabel)

MCAnswers ==
    {[labels |-> {"Tech", " "}, confidence |-> 90],
     [labels |-> {"Tech"}, confidence |-> 10]}

SeedSpellings == {"Tech", "Food", " "}

SeedNormal == ("Tech" :> tech @@ "Food" :> food @@ " " :> NoLabel)

(* Some of an answer is of the seed, none, or all of one that is too low.    *)
SeedAnswers ==
    {[labels |-> {"Tech", "Food", " "}, confidence |-> 90],
     [labels |-> {"Food"}, confidence |-> 90],
     [labels |-> {"Tech"}, confidence |-> 10]}

NoneDry == [w \in Workers |-> FALSE]

InOrder == SelectSeq(<<b1, b2, b3>>, LAMBDA b : b \in Bookmarks)

AnySubcommand == [w \in Workers |-> Subcommands]

OnlyServe == [w \in Workers |-> {"serve"}]

(* serve asks for one page, as the code does; run for none, which makes it   *)
(* one; the others for two.                                                  *)
TwoPages ==
    [s \in Subcommands |-> CASE s = "serve" -> 1 [] s = "run" -> 0 [] OTHER -> 2]
=============================================================================
