------------------------- MODULE MCCandidateSearch -------------------------
EXTENDS CandidateSearch

\* Results that the means and the worst folds order differently, and a tie.
MCResults ==
  {[folds |-> <<1, 1>>, rest |-> 0], [folds |-> <<3, 0>>, rest |-> 0], [folds |-> <<0, 2>>, rest |-> 1]}

MCMatrix ==
  [select |-> [tuned |-> 2], remediate |-> [R |-> 4], v1 |-> [CB |-> 4],
   v2 |-> [lightgbm |-> 3, catboost |-> 2], v3 |-> [lightgbm |-> 3, catboost |-> 2]]

MCMethods ==
  [select |-> <<"sigmoid">>, remediate |-> <<"sigmoid">>, v1 |-> <<"sigmoid">>,
   v2 |-> <<"isotonic">>, v3 |-> <<"none">>]

\* In parts of 2520, which is divided by every number up to ten, the largest
\* denominator of a sample of five.  Recall 3/5, precision 1/2, rate 3/5 and F1
\* 3/5: each of them excludes a threshold of some sample of five.
MCLimits == [recall |-> 1512, precision |-> 1260, rate |-> 1512, f1 |-> 1512]

\* Five flights of which two or three are late.
MCLabels == {<<0, 0, 0, 1, 1>>, <<0, 0, 1, 1, 1>>}

\* The order of two flights with the same label is of no account: the first two
\* and the last two are in descending order.
MCScorings ==
  {s \in [1..5 -> {30, 50, 70}] : s[1] >= s[2] /\ s[4] >= s[5]}

MCAssessments == {s \in MCScorings : \A i \in 1..5 : s[i] # 50}
=============================================================================
