------------------------- MODULE MCSessionsArtifacts -------------------------
(* Small instances of RefreshTokens and of Artifacts in one run: a           *)
(* behaviour is about one user's tokens or about one artifact, which share   *)
(* no state.  Their overlapping requests have the same names and are         *)
(* interchangeable.                                                          *)
EXTENDS RefreshTokens, Artifacts, TLC

VARIABLE table    \* what this behaviour is about: "refresh_tokens" or "artifacts"

tableVars == <<table, vars, artifactVars>>

EditorSymmetry == Permutations(Requests)

TableInit == table \in {"refresh_tokens", "artifacts"} /\ Init /\ ArtifactInit

TableNext ==
  /\ UNCHANGED table
  /\ \/ table = "refresh_tokens" /\ Next /\ UNCHANGED artifactVars
     \/ table = "artifacts" /\ ArtifactNext /\ UNCHANGED vars

TableSpec == TableInit /\ [][TableNext]_tableVars
=============================================================================
