---------------------------- MODULE MCLifecycle ----------------------------
(***************************************************************************)
(* Instances of Lifecycle for TLC.                                         *)
(***************************************************************************)
EXTENDS Lifecycle

\* No subscription, one of each type, and both.
FewSubscriptions == {<<>>, <<"sync">>, <<"async">>, <<"async", "sync">>}
=============================================================================
