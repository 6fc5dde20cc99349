--------------------------------- MODULE MCTui ---------------------------------
(* Two profiles of two accounts, with one bucket between them. *)
EXTENDS Tui

MCAccount == [dev |-> "a1", prod |-> "a2"]
MCCatalog == [bucket |-> [service |-> "s3", account |-> "a1"]]

FairSpec == Spec /\ Fairness
=============================================================================
