---------------------------- MODULE MCTokenLogin ----------------------------
(* TokenLogin for TLC. *)
EXTENDS TokenLogin

(* Tokens, sockets and accounts are told apart by their logins only: which *)
(* of them is the first to be used is no loss.                             *)
FirstToken == CHOOSE t \in Tokens : TRUE
FirstConn == CHOOSE c \in Conns : TRUE
FirstAccount == CHOOSE a \in Accounts : TRUE

Ordered ==
  /\ (\E t \in Tokens : wait[t] # "unstarted") => wait[FirstToken] # "unstarted"
  /\ (\E c \in Conns : serve[c] # "new") => serve[FirstConn] # "new"
  /\ selfID[FirstConn] = FirstAccount

(* Bound: where both tokens are used there is no Stop, no Cancel and one   *)
(* crash at most; a single token has all of them.                          *)
Bounded ==
  (\A t \in Tokens : wait[t] # "unstarted") =>
    stop = "no" /\ crashes <= 1 /\ \A t \in Tokens : cancel[t] = "no"
=============================================================================
