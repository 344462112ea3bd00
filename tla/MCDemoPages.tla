---------------------------- MODULE MCDemoPages ----------------------------
(* Two of the four commenters.  Two questions are enough to confuse their  *)
(* answers.  On Aperture's page one competes with a generation of the      *)
(* thread, or two generations do with each other, and three of the four    *)
(* requests may pass in an hour that straddles two windows.                *)
EXTENDS DemoPages, TLC

MCCommenters == <<"marcellus", "calder">>

MCMaxQuestions ==
  [slug \in Pages |-> IF slug = "aperture-0312" THEN 1 ELSE 2]

TextSymmetry == Permutations(Texts)
=============================================================================
