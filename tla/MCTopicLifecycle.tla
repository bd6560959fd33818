-------------------------- MODULE MCTopicLifecycle --------------------------
(* Two environments with two clusters each; the clusters are interchangeable. *)
EXTENDS TopicLifecycle, TLC

CONSTANTS e1, e2, A, B, r1

TwoEnvs == {e1, e2}
OneEnv == {e1}
TwoClusters == {A, B}
OneRequest == {r1}
ClusterSymmetry == Permutations(TwoClusters)
=============================================================================
