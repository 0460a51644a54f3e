---------------------------- MODULE MCGameLaunch ----------------------------
(***************************************************************************)
(* GameLaunch for TLC. Launches, names and stop requests are model values  *)
(* the specification never tells apart.                                    *)
(***************************************************************************)
EXTENDS GameLaunch, TLC

Symmetric == Permutations(Names) \cup Permutations(Keys) \cup Permutations(Stops)
=============================================================================
