---------------------------- MODULE MCPublishMany ----------------------------
(* Small instances of PublishMany for TLC. *)
EXTENDS PublishMany, TLC

CONSTANTS t1, t2, t3

\* Two pages of spot entries and one of futures against one page and none.
ThreeTasks == (t1 :> <<3, 1, 0>>) @@ (t2 :> <<2, 0, 1>>) @@ (t3 :> <<0, 0, 0>>)
TwoTasks == (t1 :> <<1, 0, 0>>) @@ (t2 :> <<1, 0, 0>>)

=============================================================================
