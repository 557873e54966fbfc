----------------------------- MODULE MCClients -----------------------------
(* Instances of Clients.                                                   *)
EXTENDS Clients

Two == {"h1", "h2"}
List(clear, add, drop, i) == [clear |-> clear, add |-> add, drop |-> drop, id |-> i]
SomeLists == {List(FALSE, Kinds, {}, 0), List(TRUE, {}, {}, 0)}
Everything == {"empty", "info", "help", "list", "get", "volume", "execute", "wait",
               "set", "monitor", "reset"}
OneTalks == [h \in Two |-> IF h = "h1" THEN Everything ELSE {"wait"}]
=============================================================================
