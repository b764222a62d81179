-------------------------- MODULE MCGraphQLUpdates --------------------------
(***************************************************************************)
(* An instance of GraphQLUpdates for TLC: two variables, of which one can  *)
(* hold a value that JSON cannot express.                                  *)
(***************************************************************************)
EXTENDS GraphQLUpdates

CONSTANTS v1, v2, p1, r1, i1, i2

TwoVars == {v1, v2}
OnePublisher == {p1}
OneRequest == {r1}
OneId == {i1}
TwoIds == {i1, i2}
NotANumber == {<<v2, 1>>}
=============================================================================
