------------------------------ MODULE MCStorage -----------------------------
(* Model-checking instances of SQLiteStorage.                              *)
EXTENDS SQLiteStorage

MCEntry   == [term : {1, 2}, key : Keys, value : {CHOOSE v \in Values : TRUE}]
MCIndices == 1..MaxRows + 1
=============================================================================
