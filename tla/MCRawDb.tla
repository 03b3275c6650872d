------------------------------ MODULE MCRawDb ------------------------------
(* Two accounts that differ in both strings, and a password without a name. *)
EXTENDS RawDb

MCAccounts == {[username |-> "ann", password |-> "secret"],
               [username |-> "bob", password |-> "word"]}
MCPairs == MCAccounts \union {[username |-> "", password |-> "word"]}

=============================================================================
