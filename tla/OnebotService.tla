--------------------------- MODULE OnebotService ---------------------------
(***************************************************************************)
(* The registry of onebot.Service (pkg/onebot/service.go) and the sockets  *)
(* that come in through it: NewClient, ServeHTTP, StartLoop as far as the  *)
(* connection goes, the parts of Client.Release, and Stop.                 *)
(*                                                                         *)
(* A token is the key of the registry.  Two Client objects are made for it *)
(* in turn, one by the login process and one by the login that results.    *)
(* ServeHTTP looks a client up, and only later, in a goroutine of its own, *)
(* installs the socket on it: Release may come in between.                 *)
(*                                                                         *)
(* This module has actions and no specification; TokenLogin composes them  *)
(* with the processes that call them.                                      *)
(***************************************************************************)
EXTENDS Naturals

CONSTANTS Tokens,      \* login tokens, each drawn fresh (uuid)
          Accounts,    \* OneBot account ids, as in X-Self-ID
          Conns,       \* the sockets agents open, each used once
          NoClient,    \* no entry in Service.clients
          NoConn,      \* Client.conn == nil
          NoAccount    \* Client.id == ""

ASSUME NamesAssumption == NoConn \notin Conns /\ NoAccount \notin Accounts

(* The Client objects: that of the TokenLogin and that of the PylonClient. *)
Client == [token : Tokens, role : {"login", "user"}]
LoginClient(t) == [token |-> t, role |-> "login"]
UserClient(t)  == [token |-> t, role |-> "user"]

ASSUME ClientAssumption == NoClient \notin Client

VARIABLES
  clients,   \* Service.clients
  id,        \* id[o]: Client.id
  conn,      \* conn[o]: Client.conn
  sock,      \* sock[c]: "new", "open", "gone" (by the peer), "closed" (by us)
  serve,     \* serve[c]: where ServeHTTP and then StartLoop are
  found,     \* found[c]: the client that ServeHTTP looked up
  selfID,    \* selfID[c]: the account the agent on socket c serves
  stop,      \* Service.Stop: "no", "range" (over the clients), "stopped"
  due,       \* the tokens the range has yet to come to
  visiting,  \* the client Stop is releasing
  released,  \* history: the clients whose Release began
  held       \* history: the others and their sockets when Stop began

stopVars == <<stop, due, visiting, released, held>>
serviceVars == <<clients, id, conn, sock, serve, found, selfID, stopVars>>

ServiceInit ==
  /\ clients = [t \in Tokens |-> NoClient]
  /\ id = [o \in Client |-> NoAccount]
  /\ conn = [o \in Client |-> NoConn]
  /\ sock = [c \in Conns |-> "new"]
  /\ serve = [c \in Conns |-> "new"]
  /\ found = [c \in Conns |-> NoClient]
  /\ selfID \in [Conns -> Accounts]
  /\ stop = "no" /\ due = {} /\ visiting = NoClient
  /\ released = {} /\ held = {}

-----------------------------------------------------------------------------
(* Service.NewClient: o is made with login id a and takes its token.       *)
NewClient(o, a) ==
  /\ clients' = [clients EXCEPT ![o.token] = o]
  /\ id' = [id EXCEPT ![o] = a]
  /\ UNCHANGED <<conn, sock, serve, found, selfID, stopVars>>

-----------------------------------------------------------------------------
(* ServeHTTP and StartLoop, for the socket c. *)

(* Mutant: the login id of the client is not compared. *)
LookupAnyAccount(c, t) ==
  /\ serve[c] = "new" /\ stop # "stopped"
  /\ LET o == clients[t] IN
     \/ /\ o # NoClient
        /\ serve' = [serve EXCEPT ![c] = "upgrade"]
        /\ found' = [found EXCEPT ![c] = o]
     \/ /\ o = NoClient
        /\ serve' = [serve EXCEPT ![c] = "refused"]
        /\ found' = found
  /\ UNCHANGED <<clients, id, conn, sock, selfID, stopVars>>

(* Mutant: that the token is registered is not checked. *)
LookupUnchecked(c, t) ==
  /\ serve[c] = "new" /\ stop # "stopped"
  /\ serve' = [serve EXCEPT ![c] = "upgrade"]
  /\ found' = [found EXCEPT ![c] = clients[t]]
  /\ UNCHANGED <<clients, id, conn, sock, selfID, stopVars>>

(* The token must be registered, and a client with a login id takes only   *)
(* the agent of that account.                                              *)
Lookup(c, t) ==
  /\ serve[c] = "new" /\ stop # "stopped"
  /\ LET o == clients[t] IN
     \/ /\ o # NoClient /\ id[o] \in {NoAccount, selfID[c]}
        /\ serve' = [serve EXCEPT ![c] = "upgrade"]
        /\ found' = [found EXCEPT ![c] = o]
     \/ /\ o # NoClient => id[o] \notin {NoAccount, selfID[c]}
        /\ serve' = [serve EXCEPT ![c] = "refused"]
        /\ found' = found
  /\ UNCHANGED <<clients, id, conn, sock, selfID, stopVars>>

(* The handshake makes a socket of the request ... *)
Upgrade(c) ==
  /\ serve[c] = "upgrade"
  /\ sock' = [sock EXCEPT ![c] = "open"]
  /\ serve' = [serve EXCEPT ![c] = "install"]
  /\ UNCHANGED <<clients, id, conn, found, selfID, stopVars>>

(* ... or fails. *)
UpgradeFails(c) ==
  /\ serve[c] = "upgrade"
  /\ serve' = [serve EXCEPT ![c] = "refused"]
  /\ UNCHANGED <<clients, id, conn, sock, found, selfID, stopVars>>

(* StartLoop begins: updateConnection on the client found above, even if   *)
(* it was released meanwhile.                                              *)
Install(c) ==
  /\ serve[c] = "install"
  /\ sock' = [d \in Conns |-> IF d = conn[found[c]] THEN "closed" ELSE sock[d]]
  /\ conn' = [conn EXCEPT ![found[c]] = c]
  /\ serve' = [serve EXCEPT ![c] = "read"]
  /\ UNCHANGED <<clients, id, found, selfID, stopVars>>

(* The read loop ends: the read failed, or a frame was not JSON. *)
EndRead(c) ==
  /\ serve[c] = "read"
  /\ serve' = [serve EXCEPT ![c] = "clear"]
  /\ UNCHANGED <<clients, id, conn, sock, found, selfID, stopVars>>

(* The deferred function of StartLoop. *)
Clear(c) ==
  /\ serve[c] = "clear"
  /\ conn' = IF conn[found[c]] = c THEN [conn EXCEPT ![found[c]] = NoConn] ELSE conn
  /\ serve' = [serve EXCEPT ![c] = "done"]
  /\ UNCHANGED <<clients, id, sock, found, selfID, stopVars>>

(* The agent or the network drops the socket (external). *)
PeerGone(c) ==
  /\ sock[c] = "open"
  /\ sock' = [sock EXCEPT ![c] = "gone"]
  /\ UNCHANGED <<clients, id, conn, serve, found, selfID, stopVars>>

ServeStep(c) ==
  \/ \E t \in Tokens : Lookup(c, t)
  \/ Upgrade(c) \/ UpgradeFails(c) \/ Install(c) \/ EndRead(c) \/ Clear(c)

-----------------------------------------------------------------------------
(* The parts of Client.Release that concern the service: the first is      *)
(* updateConnection(nil), the last is Service.removeClient, which deletes  *)
(* by token whatever client is registered.  The one in between cancels the *)
(* checker (OnebotChecker).                                                *)

ReleaseConnection(o) ==
  /\ sock' = [c \in Conns |-> IF c = conn[o] THEN "closed" ELSE sock[c]]
  /\ conn' = [conn EXCEPT ![o] = NoConn]
  /\ released' = released \cup {o}
  /\ UNCHANGED <<clients, id, serve, found, selfID, stop, due, visiting, held>>

(* A range over the map does not come to an entry that was deleted.        *)
RemoveClient(o) ==
  /\ clients' = [clients EXCEPT ![o.token] = NoClient]
  /\ due' = due \ {o.token}
  /\ UNCHANGED <<id, conn, sock, serve, found, selfID, stop, visiting, released, held>>

-----------------------------------------------------------------------------
(* Service.Stop, which ranges over the clients without the lock.  It comes *)
(* to every entry that stays, and may or may not come to one that is added *)
(* meanwhile.  A write by another goroutine meanwhile is a data race, for  *)
(* which the runtime may end the process: LoseService.                     *)

Registered == {t \in Tokens : clients[t] # NoClient}

StopBegins ==
  /\ stop = "no"
  /\ stop' = "range"
  /\ due' = Registered
  /\ held' = {[client |-> o, sock |-> conn[o]] :
                o \in {clients[t] : t \in Registered} \ released}
  /\ UNCHANGED <<clients, id, conn, sock, serve, found, selfID, visiting, released>>

(* clients.Release() *)
StopReleases(t) ==
  \/ /\ stop = "range" /\ visiting = NoClient /\ t \in Registered
     /\ visiting' = clients[t] /\ released' = released \cup {clients[t]}
     /\ sock' = [c \in Conns |-> IF c = conn[clients[t]] THEN "closed" ELSE sock[c]]
     /\ conn' = [conn EXCEPT ![clients[t]] = NoConn]
     /\ UNCHANGED <<clients, id, serve, found, selfID, stop, due, held>>
  \/ /\ visiting # NoClient /\ t = visiting.token
     /\ visiting' = NoClient
     /\ clients' = [clients EXCEPT ![t] = NoClient]
     /\ due' = due \ {t}
     /\ UNCHANGED <<id, conn, sock, serve, found, selfID, stop, released, held>>

(* Mutant: the range ends after any client, as with a return in it. *)
StopShutsDownEarly ==
  /\ stop = "range" /\ visiting = NoClient
  /\ stop' = "stopped"
  /\ UNCHANGED <<clients, id, conn, sock, serve, found, selfID, due, visiting, released, held>>

(* server.Shutdown takes no further requests and leaves sockets alone.     *)
StopShutsDown ==
  /\ stop = "range" /\ visiting = NoClient /\ due = {}
  /\ stop' = "stopped"
  /\ UNCHANGED <<clients, id, conn, sock, serve, found, selfID, due, visiting, released, held>>

-----------------------------------------------------------------------------
(* The process dies and comes up again with an empty registry. *)
LoseService ==
  /\ clients' = [t \in Tokens |-> NoClient]
  /\ id' = [o \in Client |-> NoAccount]
  /\ conn' = [o \in Client |-> NoConn]
  /\ sock' = [c \in Conns |-> IF sock[c] = "new" THEN "new" ELSE "gone"]
  /\ serve' = [c \in Conns |-> IF serve[c] = "new" THEN "new" ELSE "done"]
  /\ found' = [c \in Conns |-> NoClient]
  /\ stop' = "no" /\ due' = {} /\ visiting' = NoClient
  /\ released' = {} /\ held' = {}
  /\ UNCHANGED selfID
=============================================================================
