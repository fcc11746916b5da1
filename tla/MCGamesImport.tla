----------------------------- MODULE MCGamesImport -----------------------------
(***************************************************************************)
(* Instances of GamesImport for TLC: two packages, two applications.       *)
(***************************************************************************)
EXTENDS GamesImport

CONSTANTS base, bundle, game, sequel

Own(p)    == [package |-> p, shared |-> FALSE]
Shared(p) == [package |-> p, shared |-> TRUE]

(* The bundle contains the game of the base package too.                   *)
Overlapping == (base :> {game}) @@ (bundle :> {game, sequel})

Disjoint == (base :> {game}) @@ (bundle :> {sequel})

Single == (base :> {game}) @@ (bundle :> {})

\* What Steam may send: the user's own licences, and a relative's.
OwnAndShared == { <<Own(bundle)>>, <<Own(bundle), Shared(base)>> }

\* The user's own licence of the game goes and a relative's comes, or back;
\* each list of them throws the other's cache away or adds to it.
OwnOrShared == { <<Own(base)>>, <<Shared(base), Own(bundle)>> }

OneList == { <<Own(base), Own(bundle)>> }

SharedGame == { <<Own(bundle), Shared(base)>> }

\* The relative's game is bought.
Bought == { <<Shared(base)>>, <<Own(base)>> }
================================================================================
