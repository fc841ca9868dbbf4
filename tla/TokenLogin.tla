----------------------------- MODULE TokenLogin -----------------------------
(***************************************************************************)
(* Logging in and out (pkg/connector/login.go, client.go, connector.go)    *)
(* over the registry of OnebotService.                                     *)
(*                                                                         *)
(* TokenLogin.Start registers a client for a fresh token; TokenLogin.Wait  *)
(* polls it until the agent that was given the token says which account it *)
(* serves, then releases that client and has the bridge make a UserLogin,  *)
(* whose PylonClient registers a second client under the same token.       *)
(* TokenLogin.Cancel and PylonClient.Disconnect may run meanwhile, and the *)
(* process may die and load its logins from the database again.            *)
(*                                                                         *)
(* What NewLogin of the bridge does around LoadUserLogin is external: it   *)
(* loads the login, saves its row, and may fail before either or between.  *)
(* A row has the account for its key: with DeleteOnConflict the row of a   *)
(* second login of an account takes the place of the first one's.  Whether *)
(* the first one's client is disconnected before is left open: it is one   *)
(* of the behaviours of Logout.                                            *)
(***************************************************************************)
EXTENDS OnebotService

CONSTANTS MaxCrashes     \* bound: how often the process dies or is stopped

ASSUME MaxCrashesAssumption == MaxCrashes \in Nat

VARIABLES
  wait,      \* wait[t]: where TokenLogin.Start and Wait are
  cancel,    \* cancel[t]: where TokenLogin.Cancel, called by the bridge, is
  logout,    \* logout[t]: where PylonClient.Disconnect is
  account,   \* account[t]: the ID of GetLoginInfo
  handler,   \* handler[t]: the user client has its event handler
  saved,     \* the tokens in the rows of the UserLogins, one for an account at most
  crashes    \* how often the process died or was stopped

processVars == <<wait, cancel, logout, account, handler, saved, crashes>>
vars == <<serviceVars, processVars>>

Init ==
  /\ ServiceInit
  /\ wait = [t \in Tokens |-> "unstarted"]
  /\ cancel = [t \in Tokens |-> "no"]
  /\ logout = [t \in Tokens |-> "no"]
  /\ account = [t \in Tokens |-> NoAccount]
  /\ handler = [t \in Tokens |-> FALSE]
  /\ saved = {}
  /\ crashes = 0

-----------------------------------------------------------------------------
(* TokenLogin.Start and Wait *)

Start(t) ==
  /\ wait[t] = "unstarted"
  /\ NewClient(LoginClient(t), NoAccount)
  /\ wait' = [wait EXCEPT ![t] = "poll"]
  /\ UNCHANGED <<cancel, logout, account, handler, saved, crashes>>

(* The client is logged in and GetLoginInfo is answered over its socket.   *)
(* A poll that finds it not logged in, or gets an error, changes nothing.  *)
Poll(t) ==
  /\ wait[t] = "poll"
  /\ LET c == conn[LoginClient(t)] IN
     /\ c # NoConn /\ sock[c] = "open"
     /\ account' = [account EXCEPT ![t] = selfID[c]]
  /\ wait' = [wait EXCEPT ![t] = "releaseConnection"]
  /\ UNCHANGED <<serviceVars, cancel, logout, handler, saved, crashes>>

(* tl.client.Release() *)
WaitReleases(t) ==
  \/ /\ wait[t] = "releaseConnection"
     /\ ReleaseConnection(LoginClient(t))
     /\ wait' = [wait EXCEPT ![t] = "removeClient"]
     /\ UNCHANGED <<cancel, logout, account, handler, saved, crashes>>
  \/ /\ wait[t] = "removeClient"
     /\ RemoveClient(LoginClient(t))
     /\ wait' = [wait EXCEPT ![t] = "newLogin"]
     /\ UNCHANGED <<cancel, logout, account, handler, saved, crashes>>

SameAccount(t) == {u \in Tokens : account[u] = account[t]}

(* Inside NewLogin: PylonConnector.LoadUserLogin, for the id and the token *)
(* of the new login; if the account has a row already, that login has been *)
(* loaded before (external).                                               *)
LoadUserLogin(t) ==
  /\ wait[t] = "newLogin" /\ \A u \in SameAccount(t) : wait[u] # "reload"
  /\ NewClient(UserClient(t), account[t])
  /\ wait' = [wait EXCEPT ![t] = "save"]
  /\ UNCHANGED <<cancel, logout, account, handler, saved, crashes>>

(* Mutant: the row of the earlier login is deleted last, by its account. *)
SaveLoginThenDelete(t) ==
  /\ wait[t] = "save"
  /\ saved' = IF saved \cap SameAccount(t) = {} THEN saved \cup {t}
              ELSE saved \ SameAccount(t)
  /\ wait' = [wait EXCEPT ![t] = "connect"]
  /\ UNCHANGED <<serviceVars, cancel, logout, account, handler, crashes>>

(* Inside NewLogin: the row of the account is written, or written over     *)
(* (external).                                                             *)
SaveLogin(t) ==
  /\ wait[t] = "save"
  /\ saved' = (saved \ SameAccount(t)) \cup {t}
  /\ wait' = [wait EXCEPT ![t] = "connect"]
  /\ UNCHANGED <<serviceVars, cancel, logout, account, handler, crashes>>

(* NewLogin returns an error, and so does Wait. *)
NewLoginFails(t) ==
  /\ wait[t] \in {"newLogin", "save"}
  /\ wait' = [wait EXCEPT ![t] = "failed"]
  /\ UNCHANGED <<serviceVars, cancel, logout, account, handler, saved, crashes>>

(* PylonClient.Connect, the last step of Wait: SetEventHandler. *)
Connect(t) ==
  /\ wait[t] = "connect"
  /\ handler' = [handler EXCEPT ![t] = TRUE]
  /\ wait' = [wait EXCEPT ![t] = "complete"]
  /\ UNCHANGED <<serviceVars, cancel, logout, account, saved, crashes>>

(* The context of Wait is done: Wait cancels the login itself. *)
WaitCancelled(t) ==
  \/ /\ wait[t] = "poll"
     /\ ReleaseConnection(LoginClient(t))
     /\ wait' = [wait EXCEPT ![t] = "cancelling"]
     /\ UNCHANGED <<cancel, logout, account, handler, saved, crashes>>
  \/ /\ wait[t] = "cancelling"
     /\ RemoveClient(LoginClient(t))
     /\ wait' = [wait EXCEPT ![t] = "cancelled"]
     /\ UNCHANGED <<cancel, logout, account, handler, saved, crashes>>

(* TokenLogin.Cancel, called by the bridge while Wait runs. *)
Cancel(t) ==
  \/ /\ cancel[t] = "no"
     /\ wait[t] \in {"poll", "releaseConnection", "removeClient", "newLogin", "save",
                    "connect"}
     /\ ReleaseConnection(LoginClient(t))
     /\ cancel' = [cancel EXCEPT ![t] = "removeClient"]
     /\ UNCHANGED <<wait, logout, account, handler, saved, crashes>>
  \/ /\ cancel[t] = "removeClient"
     /\ RemoveClient(LoginClient(t))
     /\ cancel' = [cancel EXCEPT ![t] = "done"]
     /\ UNCHANGED <<wait, logout, account, handler, saved, crashes>>

-----------------------------------------------------------------------------
(* PylonClient.LogoutRemote, which is Disconnect, of the login that the    *)
(* row of the account names, after which the bridge deletes that row       *)
(* (external), whichever login it names by then.                           *)
Logout(t) ==
  \/ /\ logout[t] = "no" /\ wait[t] \in {"connect", "complete"} /\ t \in saved
     /\ ReleaseConnection(UserClient(t))
     /\ logout' = [logout EXCEPT ![t] = "removeClient"]
     /\ UNCHANGED <<wait, cancel, account, handler, saved, crashes>>
  \/ /\ logout[t] = "removeClient"
     /\ RemoveClient(UserClient(t))
     /\ logout' = [logout EXCEPT ![t] = "delete"]
     /\ UNCHANGED <<wait, cancel, account, handler, saved, crashes>>
  \/ /\ logout[t] = "delete"
     /\ saved' = saved \ SameAccount(t)
     /\ logout' = [logout EXCEPT ![t] = "done"]
     /\ UNCHANGED <<serviceVars, wait, cancel, account, handler, crashes>>

-----------------------------------------------------------------------------
(* The process dies at any point; login processes are lost, and the logins *)
(* that have a row are loaded and connected when it comes up again.        *)
Crash ==
  /\ crashes < MaxCrashes /\ crashes' = crashes + 1
  /\ LoseService
  /\ wait' = [t \in Tokens |-> IF t \in saved THEN "reload"
                               ELSE IF wait[t] = "unstarted" THEN "unstarted" ELSE "lost"]
  /\ cancel' = [t \in Tokens |-> "no"]
  /\ logout' = [t \in Tokens |-> IF t \in saved \/ logout[t] = "no" THEN "no" ELSE "done"]
  /\ handler' = [t \in Tokens |-> FALSE]
  /\ UNCHANGED <<account, saved>>

(* Mutant: a login that is loaded from its row gets no client. *)
ReloadWithoutClient(t) ==
  /\ wait[t] = "reload"
  /\ wait' = [wait EXCEPT ![t] = "connect"]
  /\ UNCHANGED <<serviceVars, cancel, logout, account, handler, saved, crashes>>

(* LoadUserLogin for a row of the database. *)
Reload(t) ==
  /\ wait[t] = "reload"
  /\ NewClient(UserClient(t), account[t])
  /\ wait' = [wait EXCEPT ![t] = "connect"]
  /\ UNCHANGED <<cancel, logout, account, handler, saved, crashes>>

-----------------------------------------------------------------------------
LoginStep(t) == \/ WaitReleases(t)  \/ LoadUserLogin(t) \/ SaveLogin(t)
                \/ NewLoginFails(t) \/ Connect(t)       \/ Reload(t)

ServiceStep == /\ \/ \E c \in Conns : ServeStep(c) \/ PeerGone(c)
                  \/ \E t \in Tokens : StopReleases(t)
                  \/ StopShutsDown
               /\ UNCHANGED processVars

(* PylonConnector.Stop, called by the bridge when it ends.  (Bound: counts *)
(* as a crash, and the process may go on until it dies.)                   *)
Stop ==
  /\ StopBegins
  /\ crashes < MaxCrashes /\ crashes' = crashes + 1
  /\ UNCHANGED <<wait, cancel, logout, account, handler, saved>>

Next == \/ \E t \in Tokens : \/ Start(t)         \/ Poll(t)   \/ LoginStep(t)
                             \/ WaitCancelled(t) \/ Cancel(t) \/ Logout(t)
        \/ ServiceStep
        \/ Stop
        \/ Crash

Spec == Init /\ [][Next]_vars

(* Wait, once it has its answer, and the start of the bridge go on.        *)
(* Nothing is assumed of agents, of users, of Stop or of the poll being    *)
(* answered.                                                               *)
Fairness == \A t \in Tokens : WF_vars(LoginStep(t))

FairSpec == Spec /\ Fairness
-----------------------------------------------------------------------------
(* Every variable has its type, and a socket that was let in has a client. *)
TypeOK ==
  /\ clients \in [Tokens -> Client \cup {NoClient}]
  /\ id \in [Client -> Accounts \cup {NoAccount}]
  /\ conn \in [Client -> Conns \cup {NoConn}]
  /\ sock \in [Conns -> {"new", "open", "gone", "closed"}]
  /\ serve \in [Conns -> {"new", "refused", "upgrade", "install", "read", "clear", "done"}]
  /\ found \in [Conns -> Client \cup {NoClient}]
  /\ \A c \in Conns : serve[c] \in {"upgrade", "install", "read", "clear"}
                        => found[c] # NoClient
  /\ selfID \in [Conns -> Accounts]
  /\ wait \in [Tokens -> {"unstarted", "poll", "releaseConnection", "removeClient",
                          "newLogin", "save", "connect", "complete", "failed",
                          "cancelling", "cancelled", "lost", "reload"}]
  /\ cancel \in [Tokens -> {"no", "removeClient", "done"}]
  /\ logout \in [Tokens -> {"no", "removeClient", "delete", "done"}]
  /\ account \in [Tokens -> Accounts \cup {NoAccount}]
  /\ handler \in [Tokens -> BOOLEAN]
  /\ saved \in SUBSET Tokens
  /\ crashes \in 0 .. MaxCrashes
  /\ stop \in {"no", "range", "stopped"} /\ due \subseteq Tokens
  /\ visiting \in Client \cup {NoClient}
  /\ released \subseteq Client
  /\ held \subseteq [client: Client, sock: Conns \cup {NoConn}]

(* A login that was reported complete is reachable: its token is in the    *)
(* registry under the client that has its event handler, until it is       *)
(* logged out or the process ends, even when another login takes over its  *)
(* account.  Its token is saved, too, unless that happens, and the account *)
(* is, unless one of its logins is logged out, which deletes the row of    *)
(* all.  A Cancel that overlaps Wait breaks this, since Release removes    *)
(* the token whatever client holds it (login.go:58-62, 95-118;             *)
(* service.go:117-122).                                                    *)
CompleteLoginIsReachable ==
  \A t \in Tokens :
    LET others == {u \in SameAccount(t) \ {t} : wait[u] \in {"connect", "complete"}} IN
    wait[t] = "complete" /\ logout[t] = "no" /\ cancel[t] = "no" /\ stop = "no" =>
      /\ clients[t] = UserClient(t)
      /\ handler[t]
      /\ id[UserClient(t)] = account[t]
      /\ t \in saved \/ others # {}
      /\ saved \cap SameAccount(t) # {} \/ \E u \in others : logout[u] # "no"

(* The agent whose socket a user's client has is the agent of the account  *)
(* that the login was made for, also when several agents were given the    *)
(* token (service.go:94-97, login.go:94-98).                               *)
AgentIsTheLogin ==
  \A t \in Tokens : LET c == conn[UserClient(t)] IN
    c # NoConn => selfID[c] = account[t]

(* What was released lets no agent in any more: the login client once Wait *)
(* has released it, the user client after logout, and after Stop every     *)
(* client there was when it began, and was not being released already.     *)
(* The sockets these had then, if they are still read, are closed too,     *)
(* however Stop overlaps with logins, logouts and sockets that replace     *)
(* each other; only a Cancel can take a client away from Stop              *)
(* (service.go:52-66, 86-92, 117-122).                                     *)
ReleasedIsGone ==
  \A t \in Tokens :
    /\ wait[t] \in {"newLogin", "save", "connect", "complete", "failed", "cancelled"}
         => clients[t] # LoginClient(t)
    /\ logout[t] \in {"delete", "done"} => clients[t] # UserClient(t)
    /\ stop = "stopped" /\ cancel[t] = "no" => \A h \in held : h.client.token = t =>
         /\ clients[t] # h.client
         /\ h.sock # NoConn /\ serve[h.sock] = "read" => sock[h.sock] \in {"gone", "closed"}

-----------------------------------------------------------------------------
(* A login that is saved is registered in the end, after each crash too,   *)
(* unless it is logged out, was cancelled or the service stops             *)
(* (connector.go:60-78).                                                   *)
SavedLoginComesBack ==
  \A t \in Tokens : t \in saved ~> \/ clients[t] = UserClient(t)
                                   \/ logout[t] # "no"
                                   \/ cancel[t] # "no"
                                   \/ stop # "no"
=============================================================================
