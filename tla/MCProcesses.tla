---------------------------- MODULE MCProcesses ----------------------------
(***************************************************************************)
(* Instances of Processes for TLC.                                         *)
(***************************************************************************)
EXTENDS Processes

MCFiles == {"f", "g"}

Trait(deaf, grandDeaf, holds) == [deaf |-> deaf, grandDeaf |-> grandDeaf, holds |-> holds]

MCTraits ==
  {Trait(FALSE, FALSE, FALSE), Trait(TRUE, FALSE, TRUE), Trait(FALSE, TRUE, TRUE)}

\* The stages of a run share no process: a few short runs stand for a long one.
MCPlans == {<<"agent">>, <<"command", "server">>}

\* A descendant that keeps the pipes of a command.
MCCommands == {<<"command">>}
MCLingering == {Trait(FALSE, FALSE, TRUE)}
=============================================================================
