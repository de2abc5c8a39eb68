------------------------------- MODULE MCClient -------------------------------
(* Instances of KVClient for TLC.                                          *)
EXTENDS KVClient

CONSTANTS s1, s2

MCServers  == {s1, s2}
MCList     == <<s1, s2>>
OneHost    == [s \in MCServers |-> 1]

(* One value that fits the caller's buffer and one that is a byte too long. *)
MCValues == {[name |-> "a", len |-> BufferLen],
             [name |-> "b", len |-> BufferLen + 1]}
MCNoValue == [name |-> "none", len |-> 0]
=============================================================================
