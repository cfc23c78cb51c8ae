---------------------------- MODULE MCMigration ----------------------------
(***************************************************************************)
(* Instances of Migration for TLC: the current build and the one before.   *)
(***************************************************************************)
EXTENDS Migration

CONSTANTS old, new

OldAndNew == {old, new}
Everywhere == {"postgres", "mysql"} \X {"dev", "prod"} \cup {<<"sqlite", "dev">>}

OldKnowsOne == [c \in OldAndNew |-> IF c = old THEN 1 ELSE 2]
ProdPostgres == {<<"postgres", "prod">>}

NewKnowsOne == [c \in {new} |-> 1]

=============================================================================
