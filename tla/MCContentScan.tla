--------------------------- MODULE MCContentScan ---------------------------
(* Two copies of one project.  One head has two markers, of which the      *)
(* other keeps one, in another blob: a rescan closes one item and must     *)
(* keep the other.  Its tree takes two chunks, the other's one.            *)
EXTENDS ContentScan, TLC

CONSTANTS a, b, w1, w2, h1, h2

CopiesDef == {a, b}
HeadsDef == {h1, h2}
TreeDef == (h1 :> <<"u", "plain", "t1">>) @@ (h2 :> <<"plain", "t2">>)
MarkerDef == [u |-> "fixed later", plain |-> NoText, t1 |-> "stays", t2 |-> "stays"]
ReadmeDef == {h2}

NoEvents == [moves |-> 0, leaves |-> 0, opens |-> 0, walks |-> 0, choices |-> 0,
             faults |-> 0, refusals |-> 0, crashes |-> 0]
SomeBudgets ==
  {[NoEvents EXCEPT !.opens = 1, !.walks = 2, !.moves = 1, !.leaves = 1],
   [NoEvents EXCEPT !.opens = 1, !.walks = 1, !.choices = 2],
   [NoEvents EXCEPT !.opens = 1, !.walks = 1, !.faults = 1, !.refusals = 1, !.crashes = 1]}

(* An instance on which PaidIsGone does not hold: the grant is taken back  *)
(* and given again, and the project walked again.                          *)
Regranted == {[NoEvents EXCEPT !.opens = 1, !.walks = 2, !.choices = 2]}

(* One git ls-tree that fails, and nothing else.                           *)
OneFault == {[NoEvents EXCEPT !.opens = 1, !.walks = 1, !.faults = 1]}
=============================================================================
