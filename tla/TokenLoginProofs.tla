-------------------------- MODULE TokenLoginProofs --------------------------
(***************************************************************************)
(* Proofs about TokenLogin for any tokens, accounts, sockets and crashes.  *)
(* The inductive invariant IInv says which client a token can have at each *)
(* stage of its login, which logins the row of their account names or has  *)
(* left, that a socket serves the account of the login whose client it was *)
(* let in to, and how far Stop is with what it found.                      *)
(***************************************************************************)
EXTENDS TokenLogin, TLAPS

USE NamesAssumption, ClientAssumption, MaxCrashesAssumption

(* The stages of a login whose token the login client, or that of the      *)
(* user, may have.                                                         *)
Before == {"poll", "releaseConnection", "removeClient", "cancelling"}
Past == {"save", "connect", "complete", "failed"}

(* A token has the client of its stage.                                    *)
RegistryInv ==
  \A t \in Tokens :
    /\ clients[t] \in {NoClient, LoginClient(t), UserClient(t)}
    /\ clients[t] = LoginClient(t) => wait[t] \in Before
    /\ clients[t] = UserClient(t) => wait[t] \in Past
    /\ logout[t] \in {"delete", "done"} => clients[t] # UserClient(t)

(* What a row names was logged in or waits to be loaded again, and what is *)
(* logged out had been logged in.                                          *)
LoginInv ==
  \A t \in Tokens :
    /\ logout[t] # "no" => wait[t] \in {"connect", "complete", "lost"}
    /\ logout[t] \in {"removeClient", "delete"} => wait[t] \in {"connect", "complete"}
    /\ wait[t] = "reload" => t \in saved
    /\ t \in saved => wait[t] \in {"connect", "complete", "reload"}
    /\ wait[t] = "complete" => handler[t]

(* An account has one row at most, which is not written while it waits to  *)
(* be loaded.  A login whose row is gone was replaced or logged out by     *)
(* another one of its account, and if the account has no row at all one of *)
(* its logins was logged out.                                              *)
In == {"connect", "complete"}

Replaced(t) == \E u \in Tokens \ {t} : account[u] = account[t] /\ wait[u] \in In

RowOrLogout(t) ==
  \E u \in Tokens : /\ account[u] = account[t]
                    /\ u \in saved \/ (wait[u] \in In /\ logout[u] # "no")

RowInv ==
  /\ \A t, u \in saved : account[t] = account[u] => t = u
  /\ \A t, u \in Tokens : /\ wait[t] \in {"save", "connect", "complete"}
                          /\ wait[u] = "reload"
                          => account[t] # account[u]
  /\ \A t \in Tokens : wait[t] \in In =>
       /\ logout[t] = "no" /\ t \notin saved => Replaced(t)
       /\ RowOrLogout(t)

(* While nothing takes the user client away, it is registered.             *)
ReachInv ==
  \A t \in Tokens :
    /\ wait[t] \in {"save", "connect", "complete"}
    /\ logout[t] = "no" /\ cancel[t] = "no" /\ stop = "no"
    => clients[t] = UserClient(t)

(* The account is known before there is a user client, and that client     *)
(* lets in only the agent of the account.                                  *)
AgentInv ==
  \A t \in Tokens :
    /\ wait[t] \notin {"unstarted", "poll", "cancelling", "cancelled", "lost"}
         => account[t] # NoAccount
    /\ clients[t] = UserClient(t) => id[UserClient(t)] = account[t]
    /\ \A c \in Conns : found[c] = UserClient(t) =>
         selfID[c] = account[t] /\ wait[t] \notin {"unstarted", "poll"}

(* A client has a socket that was let in to it and is read or was.         *)
SocketInv ==
  \A o \in Client : conn[o] # NoConn => /\ serve[conn[o]] \in {"read", "clear"}
                                        /\ found[conn[o]] = o

(* Who removes a client has released its connection.                       *)
ReleaseInv ==
  /\ stop = "no" => held = {}
  /\ visiting # NoClient => stop = "range" /\ visiting \in released
  /\ \A t \in Tokens :
       /\ visiting = UserClient(t) => wait[t] \in Past
       /\ wait[t] \in {"removeClient", "cancelling"} => LoginClient(t) \in released
       /\ logout[t] = "removeClient" => UserClient(t) \in released

(* The socket that h had when Stop began is closed, if it is read at all.  *)
SockGone(h) ==
  h.sock # NoConn /\ serve[h.sock] = "read" => sock[h.sock] \in {"gone", "closed"}

(* What Stop found: it stays in reach of the range until it is released,   *)
(* and until then its socket is its own or closed.                         *)
HeldOK(h) ==
  LET t == h.client.token IN
  /\ h.client = UserClient(t) => wait[t] \in Past /\ visiting # LoginClient(t)
  /\ h.client = LoginClient(t) => wait[t] # "unstarted"
  /\ h.sock # NoConn => serve[h.sock] \in {"read", "clear", "done"}
  /\ conn[h.client] = h.sock \/ SockGone(h)
  /\ h.client \in released => SockGone(h)
  /\ cancel[t] = "no" /\ clients[t] = h.client => stop = "range" /\ t \in due
  /\ cancel[t] = "no" /\ h.client \notin released => clients[t] = h.client

HeldInv == \A h \in held : HeldOK(h)

IInv ==
  /\ TypeOK /\ RegistryInv /\ LoginInv /\ ReachInv /\ AgentInv /\ SocketInv /\ ReleaseInv
  /\ HeldInv /\ RowInv

-----------------------------------------------------------------------------
(* A token has two clients of its own.                                     *)
LEMMA ClientFacts ==
  /\ \A t \in Tokens : /\ LoginClient(t) \in Client /\ LoginClient(t).token = t
                       /\ UserClient(t) \in Client /\ UserClient(t).token = t
                       /\ LoginClient(t) # NoClient /\ UserClient(t) # NoClient
  /\ \A t, u \in Tokens : LoginClient(t) # UserClient(u)
  /\ \A o \in Client : /\ o.token \in Tokens
                       /\ o \in {LoginClient(o.token), UserClient(o.token)}
  BY DEF Client, LoginClient, UserClient

(* What Stop found has its types.                                          *)
LEMMA HeldFacts ==
  ASSUME IInv, NEW h \in held
  PROVE  /\ HeldOK(h) /\ h.client \in Client /\ h.sock \in Conns \cup {NoConn}
         /\ h.client.token \in Tokens
         /\ \/ h.client = LoginClient(h.client.token)
            \/ h.client = UserClient(h.client.token)
<1>1. HeldOK(h) /\ h.client \in Client /\ h.sock \in Conns \cup {NoConn}
  BY DEF IInv, TypeOK, HeldInv
<1> QED
  BY <1>1, ClientFacts

-----------------------------------------------------------------------------
(* NewClient and the parts of Release, for whoever calls them *)

(* A step takes no login back to where its client is registered, and no    *)
(* Cancel back.                                                            *)
Onward ==
  \A t \in Tokens : /\ wait[t] \in Past => wait'[t] \in Past
                    /\ wait[t] # "unstarted" => wait'[t] # "unstarted"
                    /\ cancel'[t] = "no" => cancel[t] = "no"

(* The socket is closed, and the client has none.                          *)
LEMMA ReleaseFacts ==
  ASSUME IInv, NEW o \in Client, ReleaseConnection(o)
  PROVE  /\ sock' \in [Conns -> {"new", "open", "gone", "closed"}]
         /\ conn' \in [Client -> Conns \cup {NoConn}]
         /\ \A c \in Conns : sock'[c] = IF c = conn[o] THEN "closed" ELSE sock[c]
         /\ \A p \in Client : conn'[p] = IF p = o THEN NoConn ELSE conn[p]
         /\ released' = released \cup {o} /\ released' \subseteq Client
         /\ UNCHANGED <<clients, id, serve, found, selfID, stop, due, visiting, held>>
  BY DEF ReleaseConnection, IInv, TypeOK

(* That client, if Stop found it, had no other socket to be closed.        *)
LEMMA HeldReleased ==
  ASSUME IInv, NEW o \in Client, Onward,
         sock' = [c \in Conns |-> IF c = conn[o] THEN "closed" ELSE sock[c]],
         conn' = [conn EXCEPT ![o] = NoConn], released' = released \cup {o},
         UNCHANGED <<clients, serve, stop, due, held>>,
         \A t \in Tokens : visiting' = LoginClient(t) /\ wait[t] \in Past
                            => visiting = LoginClient(t)
  PROVE  HeldInv'
<1> SUFFICES ASSUME NEW h \in held PROVE HeldOK(h)'
  BY DEF HeldInv
<1>1. /\ HeldOK(h) /\ h.client \in Client /\ h.sock \in Conns \cup {NoConn}
      /\ h.client.token \in Tokens
  BY HeldFacts
<1>2. /\ \A c \in Conns : sock'[c] = IF c = conn[o] THEN "closed" ELSE sock[c]
      /\ conn'[h.client] = IF h.client = o THEN NoConn ELSE conn[h.client]
  BY <1>1 DEF IInv, TypeOK
<1>3. SockGone(h) => SockGone(h)'
  BY <1>1, <1>2 DEF SockGone
<1>4. h.client = o => SockGone(h)'
  BY <1>1, <1>2, <1>3 DEF HeldOK, SockGone
<1> QED
  BY <1>1, <1>2, <1>3, <1>4 DEF HeldOK, Onward

(* The same of ReleaseConnection.                                          *)
LEMMA HeldOnRelease ==
  ASSUME IInv, NEW o \in Client, ReleaseConnection(o), Onward PROVE HeldInv'
  BY HeldReleased DEF ReleaseConnection

(* The token has no client.                                                *)
LEMMA RemoveFacts ==
  ASSUME IInv, NEW o \in Client, RemoveClient(o)
  PROVE  /\ clients' \in [Tokens -> Client \cup {NoClient}]
         /\ \A t \in Tokens : clients'[t] = IF t = o.token THEN NoClient ELSE clients[t]
         /\ due' = due \ {o.token} /\ due' \subseteq Tokens
         /\ UNCHANGED <<id, conn, sock, serve, found, selfID, stop, visiting, released, held>>
  BY ClientFacts DEF RemoveClient, IInv, TypeOK

(* That client, if Stop found it, was released.                            *)
LEMMA HeldRemoved ==
  ASSUME IInv, NEW t \in Tokens, Onward,
         clients' = [clients EXCEPT ![t] = NoClient], due' = due \ {t},
         UNCHANGED <<conn, sock, serve, stop, released, held>>,
         visiting' \in {visiting, NoClient},
         \A h \in held : cancel'[t] = "no" /\ h.client.token = t /\ h.client = clients[t]
                         => h.client \in released
  PROVE  HeldInv'
<1> SUFFICES ASSUME NEW h \in held PROVE HeldOK(h)'
  BY DEF HeldInv
<1>1. /\ HeldOK(h) /\ h.client \in Client /\ h.client # NoClient
      /\ h.client.token \in Tokens
  BY HeldFacts, ClientFacts
<1>2. /\ clients'[h.client.token] = IF h.client.token = t THEN NoClient
                                    ELSE clients[h.client.token]
      /\ visiting' \in {visiting, NoClient}
  BY <1>1 DEF IInv, TypeOK
<1>3. SockGone(h)' <=> SockGone(h)
  BY DEF SockGone
<1>4. \A u \in Tokens : LoginClient(u) # NoClient
  BY ClientFacts
<1> QED
  BY <1>1, <1>2, <1>3, <1>4 DEF HeldOK, Onward

(* The same of RemoveClient.                                               *)
LEMMA HeldOnRemove ==
  ASSUME IInv, NEW o \in Client, RemoveClient(o), Onward,
         cancel'[o.token] = "no" /\ clients[o.token] # NoClient
           => clients[o.token] \in released
  PROVE  HeldInv'
<1>1. \A h \in held : h.client # NoClient
  BY HeldFacts, ClientFacts
<1>2. PICK t \in Tokens : t = o.token
  BY ClientFacts
<1>3. \A h \in held : cancel'[t] = "no" /\ h.client.token = t /\ h.client = clients[t]
                      => h.client \in released
  BY <1>1, <1>2
<1>4. /\ clients' = [clients EXCEPT ![t] = NoClient] /\ due' = due \ {t}
      /\ UNCHANGED <<conn, sock, serve, stop, released, held>>
      /\ visiting' \in {visiting, NoClient}
  BY <1>2 DEF RemoveClient
<1> QED
  BY <1>3, <1>4, HeldRemoved

(* Stop removes the client that it visits.                                 *)
LEMMA HeldOnStop ==
  ASSUME IInv, NEW t \in Tokens, StopReleases(t), visiting # NoClient, UNCHANGED processVars
  PROVE  HeldInv'
<1>1. Onward
  BY DEF processVars, Onward
<1>2. /\ visiting.token = t /\ visiting' \in {visiting, NoClient}
      /\ clients' = [clients EXCEPT ![t] = NoClient] /\ due' = due \ {t}
      /\ UNCHANGED <<conn, sock, serve, stop, released, held>>
  BY DEF StopReleases
<1>3. visiting \in {LoginClient(t), UserClient(t)} /\ visiting \in released
  BY <1>2, ClientFacts DEF IInv, TypeOK, ReleaseInv
<1>4. ASSUME NEW h \in held, h.client.token = t, h.client = clients[t]
      PROVE  h.client = visiting
  <2>1. HeldOK(h) /\ h.client \in {LoginClient(t), UserClient(t)}
    BY <1>4, HeldFacts
  <2>2. CASE h.client = LoginClient(t)
    BY <1>3, <1>4, <2>2 DEF IInv, RegistryInv, ReleaseInv, Before, Past
  <2>3. CASE h.client = UserClient(t)
    BY <1>3, <1>4, <2>1, <2>3 DEF HeldOK
  <2> QED
    BY <2>1, <2>2, <2>3
<1>5. \A h \in held : cancel'[t] = "no" /\ h.client.token = t /\ h.client = clients[t]
                      => h.client \in released
  BY <1>3, <1>4
<1> QED
  BY <1>1, <1>2, <1>5, HeldRemoved

(* The client takes its token.                                             *)
LEMMA NewClientFacts ==
  ASSUME IInv, NEW o \in Client, NEW a \in Accounts \cup {NoAccount}, NewClient(o, a)
  PROVE  /\ clients' \in [Tokens -> Client \cup {NoClient}]
         /\ id' \in [Client -> Accounts \cup {NoAccount}]
         /\ \A t \in Tokens : clients'[t] = IF t = o.token THEN o ELSE clients[t]
         /\ \A p \in Client : id'[p] = IF p = o THEN a ELSE id[p]
         /\ UNCHANGED <<conn, sock, serve, found, selfID, stop, due, visiting, released, held>>
  BY ClientFacts DEF NewClient, IInv, TypeOK, stopVars

(* A client is registered when the one before it is gone.                  *)
LEMMA HeldRegistered ==
  ASSUME IInv, NEW t \in Tokens, NEW a \in Accounts \cup {NoAccount},
         NewClient(UserClient(t), a), Onward, wait[t] \in {"newLogin", "reload"}
  PROVE  HeldInv'
<1>1. /\ UserClient(t) \in Client /\ UserClient(t).token = t
      /\ clients[t] # LoginClient(t)
  BY ClientFacts DEF IInv, RegistryInv, Before
<1> SUFFICES ASSUME NEW h \in held PROVE HeldOK(h)'
  BY <1>1, NewClientFacts DEF HeldInv
<1>2. /\ HeldOK(h) /\ h.client \in Client /\ h.client.token \in Tokens
      /\ \/ h.client = LoginClient(h.client.token)
         \/ h.client = UserClient(h.client.token)
  BY HeldFacts
<1>3. h.client # UserClient(t)
  BY <1>1, <1>2 DEF HeldOK, Past
<1>4. h.client.token = t => h.client # clients[t] /\ h.client # clients'[t]
  BY <1>1, <1>2, <1>3, NewClientFacts
<1>5. h.client.token # t => clients'[h.client.token] = clients[h.client.token]
  BY <1>1, <1>2, NewClientFacts
<1>6. SockGone(h)' <=> SockGone(h)
  BY <1>1, NewClientFacts DEF SockGone
<1> QED
  BY <1>1, <1>2, <1>4, <1>5, <1>6, NewClientFacts DEF HeldOK, Onward

(* The service is left alone.                                              *)
LEMMA HeldKept ==
  ASSUME IInv, UNCHANGED serviceVars, Onward PROVE HeldInv'
<1> SUFFICES ASSUME NEW h \in held PROVE HeldOK(h)'
  BY DEF HeldInv, serviceVars, stopVars
<1>1. HeldOK(h) /\ h.client.token \in Tokens
  BY HeldFacts
<1>2. UNCHANGED <<clients, conn, sock, serve, stop, due, visiting, released>>
  BY DEF serviceVars, stopVars
<1>3. SockGone(h)' <=> SockGone(h)
  BY <1>2 DEF SockGone
<1> QED
  BY <1>1, <1>2, <1>3 DEF HeldOK, Onward

(* A socket is let in, opened, read or dropped: those that Stop found were *)
(* let in before, and the one that replaces them closes them.              *)
LEMMA HeldServed ==
  ASSUME IInv, UNCHANGED <<clients, stop, due, visiting, released, held>>,
         UNCHANGED processVars,
         \A h \in held : HeldOK(h) /\ h.client \in Client /\ h.sock \in Conns \cup {NoConn} =>
           /\ h.sock # NoConn => serve'[h.sock] \in {"read", "clear", "done"}
           /\ SockGone(h) => SockGone(h)'
           /\ conn'[h.client] = conn[h.client] \/ SockGone(h)'
  PROVE  HeldInv'
<1> SUFFICES ASSUME NEW h \in held PROVE HeldOK(h)'
  BY DEF HeldInv
<1>1. /\ HeldOK(h) /\ h.client \in Client /\ h.sock \in Conns \cup {NoConn}
      /\ h.client.token \in Tokens
  BY HeldFacts
<1>2. /\ h.sock # NoConn => serve'[h.sock] \in {"read", "clear", "done"}
      /\ SockGone(h) => SockGone(h)'
      /\ conn'[h.client] = conn[h.client] \/ SockGone(h)'
  BY <1>1
<1>3. UNCHANGED <<wait, cancel>>
  BY DEF processVars
<1> QED
  BY <1>1, <1>2, <1>3 DEF HeldOK

-----------------------------------------------------------------------------
(* TokenLogin and PylonClient *)

(* The rows are left alone: no login gets to where its row is written or   *)
(* loaded, none leaves but in a crash, and no logout is taken back.        *)
LEMMA RowKept ==
  ASSUME IInv, saved' = saved,
         \A t \in Tokens :
           /\ wait'[t] \in {"save", "connect", "complete", "reload"}
                => /\ wait[t] = wait'[t] \/ {wait[t], wait'[t]} = In
                   /\ account'[t] = account[t]
           /\ wait[t] \in In => wait'[t] \in In
           /\ wait[t] \in In \cup {"reload"} => account'[t] = account[t]
           /\ logout'[t] = "no" => logout[t] = "no"
  PROVE  RowInv'
<1> USE DEF IInv, In
<1>1. saved \subseteq Tokens /\ \A t \in saved : account'[t] = account[t]
  BY DEF TypeOK, LoginInv
<1>2. \A t, u \in saved' : account'[t] = account'[u] => t = u
  BY <1>1 DEF RowInv
<1>3. \A t, u \in Tokens : wait'[t] \in {"save", "connect", "complete"} /\ wait'[u] = "reload"
                           => account'[t] # account'[u]
  BY DEF RowInv
<1>4. ASSUME NEW t \in Tokens, wait'[t] \in In
      PROVE  /\ logout'[t] = "no" /\ t \notin saved' => Replaced(t)'
             /\ RowOrLogout(t)'
  <2>1. wait[t] \in In /\ account'[t] = account[t] /\ (logout'[t] = "no" => logout[t] = "no")
    BY <1>4
  <2>2. Replaced(t) => Replaced(t)'
    BY <2>1 DEF Replaced
  <2>3. RowOrLogout(t) => RowOrLogout(t)'
    BY <1>1, <2>1 DEF RowOrLogout
  <2> QED
    BY <2>1, <2>2, <2>3 DEF RowInv
<1> QED
  BY <1>2, <1>3, <1>4 DEF RowInv

(* The login client is registered.                                         *)
LEMMA StartStep ==
  ASSUME IInv, NEW t \in Tokens, Start(t)
  PROVE  IInv'
<1> USE DEF IInv, TypeOK, Before, Past
<1>1. TypeOK'
  BY ClientFacts DEF Start, NewClient, stopVars
<1>2. RegistryInv'
  BY ClientFacts DEF RegistryInv, Start, NewClient, stopVars
<1>3. LoginInv'
  BY ClientFacts DEF LoginInv, Start, NewClient, stopVars
<1>4. ReachInv'
  BY ClientFacts DEF ReachInv, Start, NewClient, stopVars
<1>5. AgentInv'
  BY ClientFacts DEF AgentInv, Start, NewClient, stopVars
<1>6. SocketInv'
  BY ClientFacts DEF SocketInv, Start, NewClient, stopVars
<1>7. ReleaseInv'
  BY ClientFacts DEF ReleaseInv, Start, NewClient, stopVars
<1>8. HeldInv'
  <2>1. \A h \in held : HeldOK(h) /\ h.client.token \in Tokens \ {t}
    BY HeldFacts DEF HeldOK, Start
  <2>2. /\ \A u \in Tokens \ {t} : clients'[u] = clients[u] /\ wait'[u] = wait[u]
        /\ UNCHANGED <<conn, sock, serve, stop, due, visiting, released, held, cancel>>
    BY ClientFacts DEF Start, NewClient, stopVars
  <2>3. ASSUME NEW h \in held PROVE HeldOK(h)'
    <3>1. SockGone(h)' <=> SockGone(h)
      BY <2>2 DEF SockGone
    <3> QED
      BY <2>1, <2>2, <3>1 DEF HeldOK
  <2> QED
    BY <2>2, <2>3 DEF HeldInv
<1>9. RowInv'
  BY RowKept DEF Start, In
<1> QED
  BY <1>1, <1>2, <1>3, <1>4, <1>5, <1>6, <1>7, <1>8, <1>9

(* The account is that of the agent whose socket the login client has.     *)
LEMMA PollStep ==
  ASSUME IInv, NEW t \in Tokens, Poll(t)
  PROVE  IInv'
<1> USE DEF IInv, TypeOK, Before, Past
<1>1. TypeOK'
  BY ClientFacts DEF Poll, serviceVars, stopVars
<1>2. RegistryInv'
  BY ClientFacts DEF RegistryInv, Poll, serviceVars, stopVars
<1>3. LoginInv'
  BY ClientFacts DEF LoginInv, Poll, serviceVars, stopVars
<1>4. ReachInv'
  BY ClientFacts DEF ReachInv, Poll, serviceVars, stopVars
<1>5. AgentInv'
  <2>1. account'[t] \in Accounts /\ \A u \in Tokens : u # t => account'[u] = account[u]
    BY ClientFacts DEF Poll
  <2> QED
    BY <2>1, ClientFacts DEF AgentInv, RegistryInv, Poll, serviceVars, stopVars
<1>6. SocketInv'
  BY ClientFacts DEF SocketInv, Poll, serviceVars, stopVars
<1>7. ReleaseInv'
  BY ClientFacts DEF ReleaseInv, Poll, serviceVars, stopVars
<1>8. HeldInv'
  <2>1. UNCHANGED serviceVars /\ Onward
    BY DEF Poll, Onward
  <2> QED
    BY <2>1, HeldKept
<1>9. RowInv'
  BY RowKept DEF Poll, In
<1> QED
  BY <1>1, <1>2, <1>3, <1>4, <1>5, <1>6, <1>7, <1>8, <1>9

(* The login client goes.                                                  *)
LEMMA WaitReleasesStep ==
  ASSUME IInv, NEW t \in Tokens, WaitReleases(t)
  PROVE  IInv'
<1> USE DEF IInv, TypeOK, Before, Past
<1>1. TypeOK'
  <2>1. CASE /\ wait[t] = "releaseConnection"
             /\ ReleaseConnection(LoginClient(t)) /\ wait' = [wait EXCEPT ![t] = "removeClient"]
             /\ UNCHANGED <<cancel, logout, account, handler, saved, crashes>>
    BY <2>1, ReleaseFacts, ClientFacts
  <2>2. CASE /\ wait[t] = "removeClient"
             /\ RemoveClient(LoginClient(t)) /\ wait' = [wait EXCEPT ![t] = "newLogin"]
             /\ UNCHANGED <<cancel, logout, account, handler, saved, crashes>>
    BY <2>2, RemoveFacts, ClientFacts
  <2> QED
    BY <2>1, <2>2 DEF WaitReleases
<1>2. RegistryInv'
  BY ClientFacts DEF RegistryInv, WaitReleases, ReleaseConnection, RemoveClient
<1>3. LoginInv'
  BY ClientFacts DEF LoginInv, WaitReleases, ReleaseConnection, RemoveClient
<1>4. ReachInv'
  BY ClientFacts DEF ReachInv, WaitReleases, ReleaseConnection, RemoveClient
<1>5. AgentInv'
  BY ClientFacts DEF AgentInv, WaitReleases, ReleaseConnection, RemoveClient
<1>6. SocketInv'
  BY ClientFacts DEF SocketInv, WaitReleases, ReleaseConnection, RemoveClient
<1>7. ReleaseInv'
  BY ClientFacts DEF ReleaseInv, WaitReleases, ReleaseConnection, RemoveClient
<1>8. HeldInv'
  <2>1. Onward
    BY DEF WaitReleases, Onward
  <2>2. CASE ReleaseConnection(LoginClient(t))
    BY <2>1, <2>2, HeldOnRelease, ClientFacts
  <2>3. CASE RemoveClient(LoginClient(t)) /\ wait[t] = "removeClient"
    <3>1. clients[t] \in {NoClient, LoginClient(t)} /\ LoginClient(t) \in released
      BY <2>3 DEF RegistryInv, ReleaseInv
    <3> QED
      BY <2>1, <2>3, <3>1, HeldOnRemove, ClientFacts
  <2> QED
    BY <2>2, <2>3 DEF WaitReleases
<1>9. RowInv'
  BY RowKept DEF WaitReleases, In
<1> QED
  BY <1>1, <1>2, <1>3, <1>4, <1>5, <1>6, <1>7, <1>8, <1>9

(* The user client is registered.                                          *)
LEMMA LoadUserLoginStep ==
  ASSUME IInv, NEW t \in Tokens, LoadUserLogin(t)
  PROVE  IInv'
<1> USE DEF IInv, TypeOK, Before, Past
<1>1. TypeOK'
  BY ClientFacts DEF LoadUserLogin, NewClient, stopVars
<1>2. RegistryInv'
  <2>1. NewClient(UserClient(t), account[t]) /\ account[t] \in Accounts \cup {NoAccount}
    BY DEF LoadUserLogin
  <2>2. \A u \in Tokens : clients'[u] = IF u = t THEN UserClient(t) ELSE clients[u]
    BY <2>1, NewClientFacts, ClientFacts
  <2> QED
    BY <2>2, ClientFacts DEF RegistryInv, LoginInv, LoadUserLogin
<1>3. LoginInv'
  BY ClientFacts DEF LoginInv, LoadUserLogin, NewClient, stopVars
<1>4. ReachInv'
  BY ClientFacts DEF ReachInv, LoadUserLogin, NewClient, stopVars
<1>5. AgentInv'
  BY ClientFacts DEF AgentInv, LoadUserLogin, NewClient, stopVars
<1>6. SocketInv'
  BY ClientFacts DEF SocketInv, LoadUserLogin, NewClient, stopVars
<1>7. ReleaseInv'
  BY ClientFacts DEF ReleaseInv, LoadUserLogin, NewClient, stopVars
<1>8. HeldInv'
  <2>1. Onward
    BY DEF LoadUserLogin, Onward
  <2> QED
    BY <2>1, HeldRegistered DEF LoadUserLogin
<1>9. RowInv'
  <2>1. /\ wait[t] = "newLogin" /\ wait' = [wait EXCEPT ![t] = "save"]
        /\ \A u \in Tokens : wait[u] = "reload" => account[u] # account[t]
        /\ UNCHANGED <<account, saved, logout>>
    BY DEF LoadUserLogin, SameAccount
  <2> QED
    BY <2>1 DEF RowInv, LoginInv, In, Replaced, RowOrLogout
<1> QED
  BY <1>1, <1>2, <1>3, <1>4, <1>5, <1>6, <1>7, <1>8, <1>9

(* The login has a row.                                                    *)
LEMMA SaveLoginStep ==
  ASSUME IInv, NEW t \in Tokens, SaveLogin(t)
  PROVE  IInv'
<1> USE DEF IInv, TypeOK, Before, Past
<1>1. TypeOK'
  BY ClientFacts DEF SaveLogin, serviceVars, stopVars
<1>2. RegistryInv'
  BY ClientFacts DEF RegistryInv, SaveLogin, serviceVars, stopVars
<1>3. LoginInv'
  <2>1. /\ wait[t] = "save" /\ wait' = [wait EXCEPT ![t] = "connect"]
        /\ \A u \in Tokens : u \in saved' <=> u = t \/ (u \in saved /\ account[u] # account[t])
        /\ UNCHANGED <<account, logout, handler>>
    BY DEF SaveLogin, SameAccount
  <2>2. wait'[t] = "connect" /\ \A u \in Tokens : u # t => wait'[u] = wait[u]
    BY <2>1
  <2>3. \A u \in Tokens : wait[u] = "reload" => account[u] # account[t]
    BY <2>1 DEF RowInv
  <2> QED
    BY <2>1, <2>2, <2>3 DEF LoginInv
<1>4. ReachInv'
  BY ClientFacts DEF ReachInv, SaveLogin, serviceVars, stopVars
<1>5. AgentInv'
  BY ClientFacts DEF AgentInv, SaveLogin, serviceVars, stopVars
<1>6. SocketInv'
  BY ClientFacts DEF SocketInv, SaveLogin, serviceVars, stopVars
<1>7. ReleaseInv'
  BY ClientFacts DEF ReleaseInv, SaveLogin, serviceVars, stopVars
<1>8. HeldInv'
  <2>1. UNCHANGED serviceVars /\ Onward
    BY DEF SaveLogin, Onward
  <2> QED
    BY <2>1, HeldKept
<1>9. RowInv'
  <2>1. /\ wait[t] = "save" /\ wait' = [wait EXCEPT ![t] = "connect"]
        /\ \A u \in Tokens : u \in saved' <=> u = t \/ (u \in saved /\ account[u] # account[t])
        /\ saved' \subseteq Tokens /\ UNCHANGED <<account, logout>>
    BY DEF SaveLogin, SameAccount
  <2>2. wait'[t] = "connect" /\ \A u \in Tokens : u # t => wait'[u] = wait[u]
    BY <2>1
  <2>3. \A u, v \in saved' : account'[u] = account'[v] => u = v
    BY <2>1 DEF RowInv
  <2>4. \A u, v \in Tokens :
          wait'[u] \in {"save", "connect", "complete"} /\ wait'[v] = "reload"
          => account'[u] # account'[v]
    BY <2>1, <2>2 DEF RowInv
  <2>5. ASSUME NEW u \in Tokens, wait'[u] \in In, logout'[u] = "no", u \notin saved'
        PROVE  Replaced(u)'
    <3>1. u # t /\ wait[u] \in In /\ logout[u] = "no"
      BY <2>1, <2>2, <2>5
    <3>2. account[u] = account[t] => Replaced(u)'
      BY <2>1, <2>2, <3>1 DEF Replaced, In
    <3>3. Replaced(u) => Replaced(u)'
      BY <2>1, <2>2 DEF Replaced, In
    <3> QED
      BY <2>1, <2>5, <3>1, <3>2, <3>3 DEF RowInv
  <2>6. ASSUME NEW u \in Tokens, wait'[u] \in In PROVE RowOrLogout(u)'
    <3>1. account[u] = account[t] => RowOrLogout(u)'
      BY <2>1 DEF RowOrLogout
    <3>2. account[u] # account[t] /\ RowOrLogout(u) => RowOrLogout(u)'
      BY <2>1, <2>2 DEF RowOrLogout, In
    <3>3. u # t => wait[u] \in In
      BY <2>2, <2>6
    <3> QED
      BY <3>1, <3>2, <3>3 DEF RowInv
  <2> QED
    BY <2>3, <2>4, <2>5, <2>6 DEF RowInv
<1> QED
  BY <1>1, <1>2, <1>3, <1>4, <1>5, <1>6, <1>7, <1>8, <1>9

(* The login fails.                                                        *)
LEMMA NewLoginFailsStep ==
  ASSUME IInv, NEW t \in Tokens, NewLoginFails(t)
  PROVE  IInv'
<1> USE DEF IInv, TypeOK, Before, Past
<1>1. TypeOK'
  BY ClientFacts DEF NewLoginFails, serviceVars, stopVars
<1>2. RegistryInv'
  BY ClientFacts DEF RegistryInv, NewLoginFails, serviceVars, stopVars
<1>3. LoginInv'
  BY ClientFacts DEF LoginInv, NewLoginFails, serviceVars, stopVars
<1>4. ReachInv'
  BY ClientFacts DEF ReachInv, NewLoginFails, serviceVars, stopVars
<1>5. AgentInv'
  BY ClientFacts DEF AgentInv, NewLoginFails, serviceVars, stopVars
<1>6. SocketInv'
  BY ClientFacts DEF SocketInv, NewLoginFails, serviceVars, stopVars
<1>7. ReleaseInv'
  BY ClientFacts DEF ReleaseInv, NewLoginFails, serviceVars, stopVars
<1>8. HeldInv'
  <2>1. UNCHANGED serviceVars /\ Onward
    BY DEF NewLoginFails, Onward
  <2> QED
    BY <2>1, HeldKept
<1>9. RowInv'
  BY RowKept DEF NewLoginFails, In
<1> QED
  BY <1>1, <1>2, <1>3, <1>4, <1>5, <1>6, <1>7, <1>8, <1>9

(* The login is complete.                                                  *)
LEMMA ConnectStep ==
  ASSUME IInv, NEW t \in Tokens, Connect(t)
  PROVE  IInv'
<1> USE DEF IInv, TypeOK, Before, Past
<1>1. TypeOK'
  BY ClientFacts DEF Connect, serviceVars, stopVars
<1>2. RegistryInv'
  BY ClientFacts DEF RegistryInv, Connect, serviceVars, stopVars
<1>3. LoginInv'
  BY ClientFacts DEF LoginInv, Connect, serviceVars, stopVars
<1>4. ReachInv'
  BY ClientFacts DEF ReachInv, Connect, serviceVars, stopVars
<1>5. AgentInv'
  BY ClientFacts DEF AgentInv, Connect, serviceVars, stopVars
<1>6. SocketInv'
  BY ClientFacts DEF SocketInv, Connect, serviceVars, stopVars
<1>7. ReleaseInv'
  BY ClientFacts DEF ReleaseInv, Connect, serviceVars, stopVars
<1>8. HeldInv'
  <2>1. UNCHANGED serviceVars /\ Onward
    BY DEF Connect, Onward
  <2> QED
    BY <2>1, HeldKept
<1>9. RowInv'
  BY RowKept DEF Connect, In
<1> QED
  BY <1>1, <1>2, <1>3, <1>4, <1>5, <1>6, <1>7, <1>8, <1>9

(* A saved login is loaded.                                                *)
LEMMA ReloadStep ==
  ASSUME IInv, NEW t \in Tokens, Reload(t)
  PROVE  IInv'
<1> USE DEF IInv, TypeOK, Before, Past
<1>1. TypeOK'
  BY ClientFacts DEF Reload, NewClient, stopVars
<1>2. RegistryInv'
  <2>1. NewClient(UserClient(t), account[t]) /\ account[t] \in Accounts \cup {NoAccount}
    BY DEF Reload
  <2>2. \A u \in Tokens : clients'[u] = IF u = t THEN UserClient(t) ELSE clients[u]
    BY <2>1, NewClientFacts, ClientFacts
  <2> QED
    BY <2>2, ClientFacts DEF RegistryInv, LoginInv, Reload
<1>3. LoginInv'
  BY ClientFacts DEF LoginInv, Reload, NewClient, stopVars
<1>4. ReachInv'
  BY ClientFacts DEF ReachInv, Reload, NewClient, stopVars
<1>5. AgentInv'
  BY ClientFacts DEF AgentInv, Reload, NewClient, stopVars
<1>6. SocketInv'
  BY ClientFacts DEF SocketInv, Reload, NewClient, stopVars
<1>7. ReleaseInv'
  BY ClientFacts DEF ReleaseInv, Reload, NewClient, stopVars
<1>8. HeldInv'
  <2>1. Onward
    BY DEF Reload, Onward
  <2> QED
    BY <2>1, HeldRegistered DEF Reload
<1>9. RowInv'
  <2>1. /\ wait[t] = "reload" /\ wait' = [wait EXCEPT ![t] = "connect"] /\ t \in saved
        /\ UNCHANGED <<account, saved, logout>>
    BY DEF Reload, LoginInv
  <2>2. wait'[t] = "connect" /\ \A u \in Tokens : u # t => wait'[u] = wait[u]
    BY <2>1
  <2>3. \A u \in Tokens : wait[u] = "reload" => u \in saved
    BY DEF LoginInv
  <2>4. \A u, v \in Tokens :
          wait'[u] \in {"save", "connect", "complete"} /\ wait'[v] = "reload"
          => account'[u] # account'[v]
    BY <2>1, <2>2, <2>3 DEF RowInv
  <2>5. \A u \in Tokens : wait'[u] \in In => u = t \/ wait[u] \in In
    BY <2>2
  <2>6. \A u \in Tokens : wait[u] \in In => wait'[u] \in In
    BY <2>1, <2>2 DEF In
  <2> QED
    BY <2>1, <2>4, <2>5, <2>6 DEF RowInv, Replaced, RowOrLogout
<1> QED
  BY <1>1, <1>2, <1>3, <1>4, <1>5, <1>6, <1>7, <1>8, <1>9

(* Wait cancels the login: the login client goes.                          *)
LEMMA WaitCancelledStep ==
  ASSUME IInv, NEW t \in Tokens, WaitCancelled(t)
  PROVE  IInv'
<1> USE DEF IInv, TypeOK, Before, Past
<1>1. TypeOK'
  <2>1. CASE /\ wait[t] = "poll"
             /\ ReleaseConnection(LoginClient(t)) /\ wait' = [wait EXCEPT ![t] = "cancelling"]
             /\ UNCHANGED <<cancel, logout, account, handler, saved, crashes>>
    BY <2>1, ReleaseFacts, ClientFacts
  <2>2. CASE /\ wait[t] = "cancelling"
             /\ RemoveClient(LoginClient(t)) /\ wait' = [wait EXCEPT ![t] = "cancelled"]
             /\ UNCHANGED <<cancel, logout, account, handler, saved, crashes>>
    BY <2>2, RemoveFacts, ClientFacts
  <2> QED
    BY <2>1, <2>2 DEF WaitCancelled
<1>2. RegistryInv'
  BY ClientFacts DEF RegistryInv, WaitCancelled, ReleaseConnection, RemoveClient
<1>3. LoginInv'
  BY ClientFacts DEF LoginInv, WaitCancelled, ReleaseConnection, RemoveClient
<1>4. ReachInv'
  BY ClientFacts DEF ReachInv, WaitCancelled, ReleaseConnection, RemoveClient
<1>5. AgentInv'
  BY ClientFacts DEF AgentInv, WaitCancelled, ReleaseConnection, RemoveClient
<1>6. SocketInv'
  BY ClientFacts DEF SocketInv, WaitCancelled, ReleaseConnection, RemoveClient
<1>7. ReleaseInv'
  BY ClientFacts DEF ReleaseInv, WaitCancelled, ReleaseConnection, RemoveClient
<1>8. HeldInv'
  <2>1. Onward
    BY DEF WaitCancelled, Onward
  <2>2. CASE ReleaseConnection(LoginClient(t))
    BY <2>1, <2>2, HeldOnRelease, ClientFacts
  <2>3. CASE RemoveClient(LoginClient(t)) /\ wait[t] = "cancelling"
    <3>1. clients[t] \in {NoClient, LoginClient(t)} /\ LoginClient(t) \in released
      BY <2>3 DEF RegistryInv, ReleaseInv
    <3> QED
      BY <2>1, <2>3, <3>1, HeldOnRemove, ClientFacts
  <2> QED
    BY <2>2, <2>3 DEF WaitCancelled
<1>9. RowInv'
  BY RowKept DEF WaitCancelled, In
<1> QED
  BY <1>1, <1>2, <1>3, <1>4, <1>5, <1>6, <1>7, <1>8, <1>9

(* Cancel takes away whatever client the token has.                        *)
LEMMA CancelStep ==
  ASSUME IInv, NEW t \in Tokens, Cancel(t)
  PROVE  IInv'
<1> USE DEF IInv, TypeOK, Before, Past
<1>1. TypeOK'
  <2>1. CASE /\ cancel[t] = "no"
             /\ ReleaseConnection(LoginClient(t)) /\ cancel' = [cancel EXCEPT ![t] = "removeClient"]
             /\ UNCHANGED <<wait, logout, account, handler, saved, crashes>>
    BY <2>1, ReleaseFacts, ClientFacts
  <2>2. CASE /\ cancel[t] = "removeClient"
             /\ RemoveClient(LoginClient(t)) /\ cancel' = [cancel EXCEPT ![t] = "done"]
             /\ UNCHANGED <<wait, logout, account, handler, saved, crashes>>
    BY <2>2, RemoveFacts, ClientFacts
  <2> QED
    BY <2>1, <2>2 DEF Cancel
<1>2. RegistryInv'
  BY ClientFacts DEF RegistryInv, Cancel, ReleaseConnection, RemoveClient
<1>3. LoginInv'
  BY ClientFacts DEF LoginInv, Cancel, ReleaseConnection, RemoveClient
<1>4. ReachInv'
  BY ClientFacts DEF ReachInv, Cancel, ReleaseConnection, RemoveClient
<1>5. AgentInv'
  BY ClientFacts DEF AgentInv, Cancel, ReleaseConnection, RemoveClient
<1>6. SocketInv'
  BY ClientFacts DEF SocketInv, Cancel, ReleaseConnection, RemoveClient
<1>7. ReleaseInv'
  BY ClientFacts DEF ReleaseInv, Cancel, ReleaseConnection, RemoveClient
<1>8. HeldInv'
  <2>1. Onward
    BY DEF Cancel, Onward
  <2>2. CASE ReleaseConnection(LoginClient(t))
    BY <2>1, <2>2, HeldOnRelease, ClientFacts
  <2>3. CASE RemoveClient(LoginClient(t)) /\ cancel'[t] # "no"
    BY <2>1, <2>3, HeldOnRemove, ClientFacts
  <2> QED
    BY <2>2, <2>3 DEF Cancel
<1>9. RowInv'
  BY RowKept DEF Cancel, In
<1> QED
  BY <1>1, <1>2, <1>3, <1>4, <1>5, <1>6, <1>7, <1>8, <1>9

(* The user client goes, then the row.                                     *)
LEMMA LogoutStep ==
  ASSUME IInv, NEW t \in Tokens, Logout(t)
  PROVE  IInv'
<1> USE DEF IInv, TypeOK, Before, Past
<1>1. TypeOK'
  <2>1. CASE ReleaseConnection(UserClient(t)) /\ logout' = [logout EXCEPT ![t] = "removeClient"]
             /\ UNCHANGED <<wait, cancel, account, handler, saved, crashes>>
    BY <2>1, ReleaseFacts, ClientFacts
  <2>2. CASE RemoveClient(UserClient(t)) /\ logout' = [logout EXCEPT ![t] = "delete"]
             /\ UNCHANGED <<wait, cancel, account, handler, saved, crashes>>
    BY <2>2, RemoveFacts, ClientFacts
  <2>3. CASE logout[t] = "delete"
    BY <2>3 DEF Logout, serviceVars, stopVars
  <2> QED
    BY <2>1, <2>2, <2>3 DEF Logout
<1>2. RegistryInv'
  BY ClientFacts
  DEF RegistryInv, Logout, ReleaseConnection, RemoveClient, serviceVars, stopVars
<1>3. LoginInv'
  <2>1. CASE saved' = saved
    BY <2>1 DEF LoginInv, Logout
  <2>2. CASE logout[t] = "delete"
    <3>1. /\ logout' = [logout EXCEPT ![t] = "done"] /\ UNCHANGED <<wait, account, handler>>
          /\ \A u \in Tokens : u \in saved' <=> u \in saved /\ account[u] # account[t]
          /\ wait[t] \in {"connect", "complete"}
      BY <2>2 DEF Logout, SameAccount, LoginInv
    <3>2. logout'[t] = "done" /\ \A u \in Tokens : u # t => logout'[u] = logout[u]
      BY <3>1
    <3>3. \A u \in Tokens : wait[u] = "reload" => account[u] # account[t]
      BY <3>1 DEF RowInv
    <3> QED
      BY <3>1, <3>2, <3>3 DEF LoginInv
  <2> QED
    BY <2>1, <2>2 DEF Logout
<1>4. ReachInv'
  BY ClientFacts
  DEF ReachInv, Logout, ReleaseConnection, RemoveClient, serviceVars, stopVars
<1>5. AgentInv'
  BY ClientFacts
  DEF AgentInv, Logout, ReleaseConnection, RemoveClient, serviceVars, stopVars
<1>6. SocketInv'
  BY ClientFacts
  DEF SocketInv, Logout, ReleaseConnection, RemoveClient, serviceVars, stopVars
<1>7. ReleaseInv'
  BY ClientFacts
  DEF ReleaseInv, Logout, ReleaseConnection, RemoveClient, serviceVars, stopVars
<1>8. HeldInv'
  <2>1. Onward
    BY DEF Logout, Onward
  <2>2. CASE ReleaseConnection(UserClient(t))
    BY <2>1, <2>2, HeldOnRelease, ClientFacts
  <2>3. CASE RemoveClient(UserClient(t)) /\ logout[t] = "removeClient"
    <3>1. clients[t] \in {NoClient, UserClient(t)} /\ UserClient(t) \in released
      BY <2>3 DEF RegistryInv, LoginInv, ReleaseInv
    <3> QED
      BY <2>1, <2>3, <3>1, HeldOnRemove, ClientFacts
  <2>4. CASE logout[t] = "delete"
    BY <2>1, <2>4, HeldKept DEF Logout
  <2> QED
    BY <2>2, <2>3, <2>4 DEF Logout
<1>9. RowInv'
  <2>1. CASE saved' = saved
    BY <2>1, RowKept DEF Logout, In, ReleaseConnection, RemoveClient
  <2>2. CASE logout[t] = "delete"
    <3>1. /\ logout' = [logout EXCEPT ![t] = "done"] /\ UNCHANGED <<wait, account>>
          /\ \A u \in Tokens : u \in saved' <=> u \in saved /\ account[u] # account[t]
          /\ saved' \subseteq saved /\ wait[t] \in In
      BY <2>2 DEF Logout, SameAccount, LoginInv, In
    <3>2. logout'[t] = "done" /\ \A u \in Tokens : u # t => logout'[u] = logout[u]
      BY <3>1
    <3>3. ASSUME NEW u \in Tokens, wait'[u] \in In, logout'[u] = "no", u \notin saved'
          PROVE  Replaced(u)'
      <4>1. u # t /\ wait[u] \in In /\ logout[u] = "no"
        BY <3>1, <3>2, <3>3
      <4>2. account[u] = account[t] => Replaced(u)'
        BY <3>1, <4>1 DEF Replaced
      <4>3. Replaced(u) => Replaced(u)'
        BY <3>1 DEF Replaced
      <4> QED
        BY <3>1, <3>3, <4>1, <4>2, <4>3 DEF RowInv
    <3>4. ASSUME NEW u \in Tokens, wait'[u] \in In PROVE RowOrLogout(u)'
      <4>1. account[u] = account[t] => RowOrLogout(u)'
        BY <3>1, <3>2 DEF RowOrLogout
      <4>2. account[u] # account[t] /\ RowOrLogout(u) => RowOrLogout(u)'
        BY <3>1, <3>2 DEF RowOrLogout
      <4> QED
        BY <3>1, <3>4, <4>1, <4>2 DEF RowInv
    <3> QED
      BY <3>1, <3>3, <3>4 DEF RowInv
  <2> QED
    BY <2>1, <2>2 DEF Logout
<1> QED
  BY <1>1, <1>2, <1>3, <1>4, <1>5, <1>6, <1>7, <1>8, <1>9

-----------------------------------------------------------------------------
(* The service *)

(* A socket is let in to the client of its token, or not.                  *)
LEMMA LookupStep ==
  ASSUME IInv, NEW c \in Conns, NEW t \in Tokens, Lookup(c, t), UNCHANGED processVars
  PROVE  IInv'
<1> USE DEF IInv, TypeOK, Before, Past
<1>1. TypeOK'
  <2>1. CASE clients[t] # NoClient /\ serve' = [serve EXCEPT ![c] = "upgrade"]
             /\ found' = [found EXCEPT ![c] = clients[t]]
    BY <2>1 DEF Lookup, processVars, stopVars
  <2>2. CASE serve' = [serve EXCEPT ![c] = "refused"] /\ found' = found
    BY <2>2 DEF Lookup, processVars, stopVars
  <2> QED
    BY <2>1, <2>2 DEF Lookup
<1>2. RegistryInv'
  BY ClientFacts DEF RegistryInv, Lookup, processVars, stopVars
<1>3. LoginInv'
  BY ClientFacts DEF LoginInv, Lookup, processVars, stopVars
<1>4. ReachInv'
  BY ClientFacts DEF ReachInv, Lookup, processVars, stopVars
<1>5. AgentInv'
  <2>1. \A d \in Conns : d # c => found'[d] = found[d]
    BY DEF Lookup
  <2>2. ASSUME NEW u \in Tokens, found'[c] = UserClient(u), found[c] # UserClient(u)
        PROVE  selfID[c] = account[u] /\ wait[u] \notin {"unstarted", "poll"}
    <3>1. clients[t] = UserClient(u) /\ id[clients[t]] \in {NoAccount, selfID[c]}
      BY <2>2 DEF Lookup
    <3>2. u = t
      BY <3>1, ClientFacts DEF RegistryInv
    <3> QED
      BY <3>1, <3>2, ClientFacts DEF RegistryInv, AgentInv
  <2> QED
    BY <2>1, <2>2 DEF AgentInv, Lookup, processVars, stopVars
<1>6. SocketInv'
  BY ClientFacts DEF SocketInv, Lookup, processVars, stopVars
<1>7. ReleaseInv'
  BY ClientFacts DEF ReleaseInv, Lookup, processVars, stopVars
<1>8. HeldInv'
  <2>1. /\ UNCHANGED <<clients, stop, due, visiting, released, held, conn, sock>>
        /\ serve[c] = "new" /\ \A d \in Conns \ {c} : serve'[d] = serve[d]
    BY DEF Lookup, stopVars
  <2> QED
    BY <2>1, HeldServed DEF HeldOK, SockGone
<1>9. RowInv'
  BY RowKept DEF processVars, In
<1> QED
  BY <1>1, <1>2, <1>3, <1>4, <1>5, <1>6, <1>7, <1>8, <1>9

(* The socket opens.                                                       *)
LEMMA HandshakeStep ==
  ASSUME IInv, NEW c \in Conns, Upgrade(c) \/ UpgradeFails(c), UNCHANGED processVars
  PROVE  IInv'
<1> USE DEF IInv, TypeOK, Before, Past
<1>1. TypeOK'
  <2>1. CASE Upgrade(c)
    BY <2>1 DEF Upgrade, processVars, stopVars
  <2>2. CASE UpgradeFails(c)
    BY <2>2 DEF UpgradeFails, processVars, stopVars
  <2> QED
    BY <2>1, <2>2
<1>2. RegistryInv'
  BY ClientFacts DEF RegistryInv, Upgrade, UpgradeFails, processVars, stopVars
<1>3. LoginInv'
  BY ClientFacts DEF LoginInv, Upgrade, UpgradeFails, processVars, stopVars
<1>4. ReachInv'
  BY ClientFacts DEF ReachInv, Upgrade, UpgradeFails, processVars, stopVars
<1>5. AgentInv'
  BY ClientFacts DEF AgentInv, Upgrade, UpgradeFails, processVars, stopVars
<1>6. SocketInv'
  BY ClientFacts DEF SocketInv, Upgrade, UpgradeFails, processVars, stopVars
<1>7. ReleaseInv'
  BY ClientFacts DEF ReleaseInv, Upgrade, UpgradeFails, processVars, stopVars
<1>8. HeldInv'
  <2>1. /\ UNCHANGED <<clients, stop, due, visiting, released, held, conn>>
        /\ serve[c] = "upgrade"
        /\ \A d \in Conns \ {c} : serve'[d] = serve[d] /\ sock'[d] = sock[d]
    BY DEF Upgrade, UpgradeFails, stopVars
  <2> QED
    BY <2>1, HeldServed DEF HeldOK, SockGone
<1>9. RowInv'
  BY RowKept DEF processVars, In
<1> QED
  BY <1>1, <1>2, <1>3, <1>4, <1>5, <1>6, <1>7, <1>8, <1>9

(* The socket replaces the one its client had, which is closed.            *)
LEMMA InstallStep ==
  ASSUME IInv, NEW c \in Conns, Install(c), UNCHANGED processVars
  PROVE  IInv'
<1> USE DEF IInv, TypeOK, Before, Past
<1>1. TypeOK'
  BY ClientFacts DEF Install, processVars, stopVars
<1>2. RegistryInv'
  BY ClientFacts DEF RegistryInv, Install, processVars, stopVars
<1>3. LoginInv'
  BY ClientFacts DEF LoginInv, Install, processVars, stopVars
<1>4. ReachInv'
  BY ClientFacts DEF ReachInv, Install, processVars, stopVars
<1>5. AgentInv'
  BY ClientFacts DEF AgentInv, Install, processVars, stopVars
<1>6. SocketInv'
  BY ClientFacts DEF SocketInv, Install, processVars, stopVars
<1>7. ReleaseInv'
  BY ClientFacts DEF ReleaseInv, Install, processVars, stopVars
<1>8. HeldInv'
  <2>1. /\ UNCHANGED <<clients, stop, due, visiting, released, held>>
        /\ serve[c] = "install" /\ found[c] \in Client
        /\ \A d \in Conns : /\ sock'[d] = IF d = conn[found[c]] THEN "closed" ELSE sock[d]
                            /\ serve'[d] = IF d = c THEN "read" ELSE serve[d]
        /\ \A o \in Client : o # found[c] => conn'[o] = conn[o]
    BY DEF Install, stopVars
  <2>2. ASSUME NEW h \in held, HeldOK(h), h.client \in Client, h.sock \in Conns \cup {NoConn}
        PROVE  /\ h.sock # NoConn => serve'[h.sock] \in {"read", "clear", "done"}
               /\ SockGone(h) => SockGone(h)'
               /\ conn'[h.client] = conn[h.client] \/ SockGone(h)'
    <3>1. h.sock # NoConn => h.sock \in Conns \ {c}
      BY <2>1, <2>2 DEF HeldOK
    <3>2. SockGone(h) => SockGone(h)'
      BY <2>1, <3>1 DEF SockGone
    <3>3. h.client = found[c] => SockGone(h)'
      BY <2>1, <2>2, <3>1, <3>2 DEF HeldOK, SockGone
    <3> QED
      BY <2>1, <2>2, <3>1, <3>2, <3>3 DEF HeldOK
  <2> QED
    BY <2>1, <2>2, HeldServed
<1>9. RowInv'
  BY RowKept DEF processVars, In
<1> QED
  BY <1>1, <1>2, <1>3, <1>4, <1>5, <1>6, <1>7, <1>8, <1>9

(* A socket is read no more.                                               *)
LEMMA EndReadStep ==
  ASSUME IInv, NEW c \in Conns, EndRead(c), UNCHANGED processVars
  PROVE  IInv'
<1> USE DEF IInv, TypeOK, Before, Past
<1>1. TypeOK'
  BY ClientFacts DEF EndRead, processVars, stopVars
<1>2. RegistryInv'
  BY ClientFacts DEF RegistryInv, EndRead, processVars, stopVars
<1>3. LoginInv'
  BY ClientFacts DEF LoginInv, EndRead, processVars, stopVars
<1>4. ReachInv'
  BY ClientFacts DEF ReachInv, EndRead, processVars, stopVars
<1>5. AgentInv'
  BY ClientFacts DEF AgentInv, EndRead, processVars, stopVars
<1>6. SocketInv'
  BY ClientFacts DEF SocketInv, EndRead, processVars, stopVars
<1>7. ReleaseInv'
  BY ClientFacts DEF ReleaseInv, EndRead, processVars, stopVars
<1>8. HeldInv'
  BY HeldServed DEF EndRead, HeldOK, SockGone, stopVars
<1>9. RowInv'
  BY RowKept DEF processVars, In
<1> QED
  BY <1>1, <1>2, <1>3, <1>4, <1>5, <1>6, <1>7, <1>8, <1>9

(* The client loses the socket, if it still has it.                        *)
LEMMA ClearStep ==
  ASSUME IInv, NEW c \in Conns, Clear(c), UNCHANGED processVars
  PROVE  IInv'
<1> USE DEF IInv, TypeOK, Before, Past
<1>1. TypeOK'
  BY ClientFacts DEF Clear, processVars, stopVars
<1>2. RegistryInv'
  BY ClientFacts DEF RegistryInv, Clear, processVars, stopVars
<1>3. LoginInv'
  BY ClientFacts DEF LoginInv, Clear, processVars, stopVars
<1>4. ReachInv'
  BY ClientFacts DEF ReachInv, Clear, processVars, stopVars
<1>5. AgentInv'
  BY ClientFacts DEF AgentInv, Clear, processVars, stopVars
<1>6. SocketInv'
  BY ClientFacts DEF SocketInv, Clear, processVars, stopVars
<1>7. ReleaseInv'
  BY ClientFacts DEF ReleaseInv, Clear, processVars, stopVars
<1>8. HeldInv'
  <2>1. /\ UNCHANGED <<clients, sock, stop, due, visiting, released, held>>
        /\ serve[c] = "clear"
        /\ \A d \in Conns : serve'[d] = IF d = c THEN "done" ELSE serve[d]
        /\ \A o \in Client : conn'[o] = conn[o] \/ conn[o] = c
    BY DEF Clear, stopVars
  <2>2. ASSUME NEW h \in held, HeldOK(h), h.client \in Client, h.sock \in Conns \cup {NoConn}
        PROVE  /\ h.sock # NoConn => serve'[h.sock] \in {"read", "clear", "done"}
               /\ SockGone(h) => SockGone(h)'
               /\ conn'[h.client] = conn[h.client] \/ SockGone(h)'
    <3>1. SockGone(h) => SockGone(h)'
      BY <2>1, <2>2 DEF SockGone
    <3>2. conn[h.client] = c => SockGone(h)'
      BY <2>1, <2>2, <3>1 DEF HeldOK, SockGone
    <3> QED
      BY <2>1, <2>2, <3>1, <3>2 DEF HeldOK
  <2> QED
    BY <2>1, <2>2, HeldServed
<1>9. RowInv'
  BY RowKept DEF processVars, In
<1> QED
  BY <1>1, <1>2, <1>3, <1>4, <1>5, <1>6, <1>7, <1>8, <1>9

(* The peer drops a socket.                                                *)
LEMMA PeerGoneStep ==
  ASSUME IInv, NEW c \in Conns, PeerGone(c), UNCHANGED processVars
  PROVE  IInv'
<1> USE DEF IInv, TypeOK, Before, Past
<1>1. TypeOK'
  BY ClientFacts DEF PeerGone, processVars, stopVars
<1>2. RegistryInv'
  BY ClientFacts DEF RegistryInv, PeerGone, processVars, stopVars
<1>3. LoginInv'
  BY ClientFacts DEF LoginInv, PeerGone, processVars, stopVars
<1>4. ReachInv'
  BY ClientFacts DEF ReachInv, PeerGone, processVars, stopVars
<1>5. AgentInv'
  BY ClientFacts DEF AgentInv, PeerGone, processVars, stopVars
<1>6. SocketInv'
  BY ClientFacts DEF SocketInv, PeerGone, processVars, stopVars
<1>7. ReleaseInv'
  BY ClientFacts DEF ReleaseInv, PeerGone, processVars, stopVars
<1>8. HeldInv'
  BY HeldServed DEF PeerGone, HeldOK, SockGone, stopVars
<1>9. RowInv'
  BY RowKept DEF processVars, In
<1> QED
  BY <1>1, <1>2, <1>3, <1>4, <1>5, <1>6, <1>7, <1>8, <1>9

(* Stop takes away a client of the registry.                               *)
LEMMA StopReleasesStep ==
  ASSUME IInv, NEW t \in Tokens, StopReleases(t), UNCHANGED processVars
  PROVE  IInv'
<1> USE DEF IInv, TypeOK, Before, Past
<1>1. TypeOK'
  BY ClientFacts DEF StopReleases, Registered, processVars
<1>2. RegistryInv'
  BY ClientFacts DEF RegistryInv, StopReleases, Registered, processVars
<1>3. LoginInv'
  BY ClientFacts DEF LoginInv, StopReleases, Registered, processVars
<1>4. ReachInv'
  BY ClientFacts DEF ReachInv, ReleaseInv, StopReleases, Registered, processVars
<1>5. AgentInv'
  BY ClientFacts DEF AgentInv, StopReleases, Registered, processVars
<1>6. SocketInv'
  BY ClientFacts DEF SocketInv, StopReleases, Registered, processVars
<1>7. ReleaseInv'
  BY ClientFacts DEF ReleaseInv, RegistryInv, StopReleases, Registered, processVars
<1>8. HeldInv'
  <2>1. Onward
    BY DEF processVars, Onward
  <2>2. CASE visiting = NoClient
    <3>1. /\ clients[t] \in Client /\ visiting' = clients[t]
          /\ sock' = [c \in Conns |-> IF c = conn[clients[t]] THEN "closed" ELSE sock[c]]
          /\ conn' = [conn EXCEPT ![clients[t]] = NoConn]
          /\ released' = released \cup {clients[t]}
          /\ UNCHANGED <<clients, serve, stop, due, held>>
      BY <2>2 DEF StopReleases, Registered
    <3>2. \A u \in Tokens : clients[t] = LoginClient(u) => wait[u] \notin Past
      BY ClientFacts DEF RegistryInv
    <3> QED
      BY <2>1, <3>1, <3>2, HeldReleased
  <2>3. CASE visiting # NoClient
    BY <2>3, HeldOnStop
  <2> QED
    BY <2>2, <2>3
<1>9. RowInv'
  BY RowKept DEF processVars, In
<1> QED
  BY <1>1, <1>2, <1>3, <1>4, <1>5, <1>6, <1>7, <1>8, <1>9

(* The range is over when it has come to all that stayed.                  *)
LEMMA StopShutsDownStep ==
  ASSUME IInv, StopShutsDown, UNCHANGED processVars
  PROVE  IInv'
<1> USE DEF IInv, TypeOK, Before, Past
<1>1. TypeOK'
  BY ClientFacts DEF StopShutsDown, processVars
<1>2. RegistryInv'
  BY ClientFacts DEF RegistryInv, StopShutsDown, processVars
<1>3. LoginInv'
  BY ClientFacts DEF LoginInv, StopShutsDown, processVars
<1>4. ReachInv'
  BY ClientFacts DEF ReachInv, StopShutsDown, processVars
<1>5. AgentInv'
  BY ClientFacts DEF AgentInv, StopShutsDown, processVars
<1>6. SocketInv'
  BY ClientFacts DEF SocketInv, StopShutsDown, processVars
<1>7. ReleaseInv'
  BY ClientFacts DEF ReleaseInv, StopShutsDown, processVars
<1>8. HeldInv'
  BY HeldFacts, ClientFacts DEF HeldInv, HeldOK, SockGone, StopShutsDown, processVars
<1>9. RowInv'
  BY RowKept DEF processVars, In
<1> QED
  BY <1>1, <1>2, <1>3, <1>4, <1>5, <1>6, <1>7, <1>8, <1>9

(* Stop begins.                                                            *)
LEMMA StopStep ==
  ASSUME IInv, Stop
  PROVE  IInv'
<1> USE DEF IInv, TypeOK, Before, Past
<1>1. TypeOK'
  BY ClientFacts DEF Stop, StopBegins, Registered
<1>2. RegistryInv'
  BY ClientFacts DEF RegistryInv, Stop, StopBegins, Registered
<1>3. LoginInv'
  BY ClientFacts DEF LoginInv, Stop, StopBegins, Registered
<1>4. ReachInv'
  BY ClientFacts DEF ReachInv, Stop, StopBegins, Registered
<1>5. AgentInv'
  BY ClientFacts DEF AgentInv, Stop, StopBegins, Registered
<1>6. SocketInv'
  BY ClientFacts DEF SocketInv, Stop, StopBegins, Registered
<1>7. ReleaseInv'
  BY ClientFacts DEF ReleaseInv, Stop, StopBegins, Registered
<1>8. HeldInv'
  <2>1. /\ visiting = NoClient /\ stop' = "range" /\ due' = Registered
        /\ held' = {[client |-> o, sock |-> conn[o]] :
                      o \in {clients[t] : t \in Registered} \ released}
        /\ UNCHANGED <<clients, conn, sock, serve, visiting, released, wait, cancel>>
    BY DEF Stop, StopBegins, ReleaseInv
  <2> SUFFICES ASSUME NEW u \in Registered, clients[u] \notin released,
                      NEW h, h = [client |-> clients[u], sock |-> conn[clients[u]]]
               PROVE  HeldOK(h)'
    BY <2>1 DEF HeldInv
  <2>2. /\ h.client = clients[u] /\ h.sock = conn[clients[u]]
        /\ u \in Tokens /\ clients[u] \in Client /\ clients[u].token = u
    BY ClientFacts DEF Registered, RegistryInv
  <2> QED
    BY <2>1, <2>2, ClientFacts DEF HeldOK, RegistryInv, SocketInv
<1>9. RowInv'
  BY RowKept DEF Stop, In
<1> QED
  BY <1>1, <1>2, <1>3, <1>4, <1>5, <1>6, <1>7, <1>8, <1>9

(* The process dies: nothing is registered, and what is saved is loaded.   *)
LEMMA CrashStep ==
  ASSUME IInv, Crash
  PROVE  IInv'
<1> USE DEF IInv, TypeOK, Before, Past
<1>1. TypeOK'
  BY ClientFacts DEF Crash, LoseService
<1>2. RegistryInv'
  BY ClientFacts DEF RegistryInv, Crash, LoseService
<1>3. LoginInv'
  BY ClientFacts DEF LoginInv, Crash, LoseService
<1>4. ReachInv'
  BY ClientFacts DEF ReachInv, Crash, LoseService
<1>5. AgentInv'
  BY ClientFacts DEF AgentInv, LoginInv, Crash, LoseService
<1>6. SocketInv'
  BY ClientFacts DEF SocketInv, Crash, LoseService
<1>7. ReleaseInv'
  BY ClientFacts DEF ReleaseInv, LoginInv, Crash, LoseService
<1>8. HeldInv'
  BY HeldFacts, ClientFacts DEF HeldInv, HeldOK, SockGone, Crash, LoseService
<1>9. RowInv'
  <2>1. /\ \A t \in Tokens : wait'[t] \in {"reload", "unstarted", "lost"}
        /\ UNCHANGED <<account, saved>>
    BY DEF Crash
  <2> QED
    BY <2>1 DEF RowInv, In
<1> QED
  BY <1>1, <1>2, <1>3, <1>4, <1>5, <1>6, <1>7, <1>8, <1>9

-----------------------------------------------------------------------------
(* The theorems *)

(* The initial states satisfy IInv.                                        *)
LEMMA InitInv == Init => IInv
<1> SUFFICES ASSUME Init PROVE IInv
  OBVIOUS
<1> USE DEF Init, ServiceInit
<1>1. TypeOK
  BY DEF TypeOK
<1>2. \A t \in Tokens : /\ LoginClient(t) # NoClient /\ UserClient(t) # NoClient
                        /\ UserClient(t) \in Client
  BY ClientFacts
<1>3. RegistryInv /\ LoginInv /\ ReachInv /\ AgentInv
  BY <1>2 DEF RegistryInv, LoginInv, ReachInv, AgentInv
<1>4. SocketInv /\ ReleaseInv /\ HeldInv /\ RowInv
  BY <1>2 DEF SocketInv, ReleaseInv, HeldInv, RowInv, In
<1> QED
  BY <1>1, <1>3, <1>4 DEF IInv

(* IInv is inductive.                                                      *)
LEMMA NextInv == IInv /\ [Next]_vars => IInv'
<1> SUFFICES ASSUME IInv, [Next]_vars PROVE IInv'
  OBVIOUS
<1>1. ASSUME NEW t \in Tokens,
             Start(t) \/ Poll(t) \/ LoginStep(t) \/ WaitCancelled(t) \/ Cancel(t) \/ Logout(t)
      PROVE  IInv'
  BY <1>1, StartStep, PollStep, WaitReleasesStep, LoadUserLoginStep, SaveLoginStep,
     NewLoginFailsStep, ConnectStep, ReloadStep, WaitCancelledStep, CancelStep, LogoutStep
  DEF LoginStep
<1>2. CASE ServiceStep
  BY <1>2, LookupStep, HandshakeStep, InstallStep, EndReadStep, ClearStep, PeerGoneStep,
     StopReleasesStep, StopShutsDownStep DEF ServiceStep, ServeStep
<1>3. CASE Stop \/ Crash
  BY <1>3, StopStep, CrashStep
<1>4. CASE UNCHANGED vars
  <2>1. /\ UNCHANGED <<clients, id, conn, sock, serve, found, selfID>>
        /\ UNCHANGED <<stop, due, visiting, released, held>>
        /\ UNCHANGED <<wait, cancel, logout, account, handler, saved, crashes>>
    BY <1>4 DEF vars, processVars, serviceVars, stopVars
  <2>2. TypeOK'
    BY <2>1 DEF IInv, TypeOK
  <2>3. (RegistryInv /\ LoginInv /\ ReachInv /\ AgentInv)'
    BY <2>1 DEF IInv, RegistryInv, LoginInv, ReachInv, AgentInv
  <2>4. (SocketInv /\ ReleaseInv /\ HeldInv)'
    BY <2>1 DEF IInv, SocketInv, ReleaseInv, HeldInv, HeldOK, SockGone
  <2>5. RowInv'
    BY <2>1, RowKept DEF In
  <2> QED
    BY <2>2, <2>3, <2>4, <2>5 DEF IInv
<1> QED
  BY <1>1, <1>2, <1>3, <1>4 DEF Next

(* IInv holds in every reachable state.                                    *)
LEMMA Invariance == Spec => []IInv
  BY InitInv, NextInv, PTL DEF Spec

(* TypeOK: every variable has its type, and a socket that was let in has a *)
(* client.                                                                 *)
THEOREM TypeCorrect == Spec => []TypeOK
<1>1. IInv => TypeOK
  BY DEF IInv
<1> QED
  BY <1>1, Invariance, PTL

(* CompleteLoginIsReachable: the token of a login that was reported        *)
(* complete is in the registry under the client that has its event         *)
(* handler, after a crash too, and it is in the row of its account until   *)
(* another login of the account takes the row over or is logged out.       *)
THEOREM CompleteIsReachable == Spec => []CompleteLoginIsReachable
<1>1. IInv => CompleteLoginIsReachable
  <2> DEFINE others(t) == {u \in SameAccount(t) \ {t} : wait[u] \in {"connect", "complete"}}
  <2> SUFFICES ASSUME IInv, NEW t \in Tokens, wait[t] = "complete", logout[t] = "no",
                      cancel[t] = "no", stop = "no"
               PROVE  /\ clients[t] = UserClient(t)
                      /\ handler[t]
                      /\ id[UserClient(t)] = account[t]
                      /\ t \in saved \/ others(t) # {}
                      /\ \/ saved \cap SameAccount(t) # {}
                         \/ \E u \in others(t) : logout[u] # "no"
    BY Zenon DEF CompleteLoginIsReachable
  <2>1. clients[t] = UserClient(t) /\ handler[t] /\ id[UserClient(t)] = account[t]
    BY DEF IInv, LoginInv, ReachInv, AgentInv
  <2>2. t \in saved \/ others(t) # {}
    <3>1. t \in saved \/ Replaced(t)
      BY DEF IInv, RowInv, In
    <3> QED
      BY <3>1 DEF Replaced, In, SameAccount
  <2>3. saved \cap SameAccount(t) # {} \/ \E u \in others(t) : logout[u] # "no"
    <3>1. RowOrLogout(t)
      BY DEF IInv, RowInv, In
    <3>2. PICK u \in Tokens : /\ account[u] = account[t]
                              /\ u \in saved \/ (wait[u] \in In /\ logout[u] # "no")
      BY <3>1 DEF RowOrLogout
    <3>3. CASE u \in saved
      <4>1. u \in SameAccount(t)
        BY <3>2 DEF SameAccount
      <4> QED
        BY <3>3, <4>1
    <3>4. CASE wait[u] \in In /\ logout[u] # "no"
      <4>1. u \in others(t)
        BY <3>2, <3>4 DEF In, SameAccount
      <4> QED
        BY <3>4, <4>1
    <3> QED
      BY <3>2, <3>3, <3>4
  <2> HIDE DEF others
  <2> QED
    BY <2>1, <2>2, <2>3
<1> QED
  BY <1>1, Invariance, PTL

(* A login that is saved, and that nothing takes away, is registered, or   *)
(* the restarted bridge is about to load it: what SavedLoginComesBack says *)
(* but for the fairness of Reload.                                         *)
THEOREM SavedIsRegisteredOrLoaded ==
  Spec => [](\A t \in Tokens :
               t \in saved /\ logout[t] = "no" /\ cancel[t] = "no" /\ stop = "no" =>
                 clients[t] = UserClient(t) \/ wait[t] = "reload")
<1>1. IInv => \A t \in Tokens :
                t \in saved /\ logout[t] = "no" /\ cancel[t] = "no" /\ stop = "no" =>
                  clients[t] = UserClient(t) \/ wait[t] = "reload"
  BY DEF IInv, LoginInv, ReachInv
<1> QED
  BY <1>1, Invariance, PTL

(* AgentIsTheLogin: the agent whose socket a user's client has serves the  *)
(* account of the login, however many agents were given the token.         *)
THEOREM AgentIsTheLogins == Spec => []AgentIsTheLogin
<1>1. IInv => AgentIsTheLogin
  <2> SUFFICES ASSUME IInv, NEW t \in Tokens, conn[UserClient(t)] # NoConn
               PROVE  selfID[conn[UserClient(t)]] = account[t]
    BY DEF AgentIsTheLogin
  <2>1. conn[UserClient(t)] \in Conns /\ found[conn[UserClient(t)]] = UserClient(t)
    BY ClientFacts DEF IInv, TypeOK, SocketInv
  <2> QED
    BY <2>1 DEF IInv, AgentInv
<1> QED
  BY <1>1, Invariance, PTL

(* ReleasedIsGone: what was released lets no agent in any more, also what  *)
(* Stop found while logins, logouts and sockets go on around it.           *)
THEOREM WhatIsReleasedIsGone == Spec => []ReleasedIsGone
<1>1. IInv => ReleasedIsGone
  <2> SUFFICES ASSUME IInv, NEW t \in Tokens
               PROVE  /\ wait[t] \in {"newLogin", "save", "connect", "complete", "failed",
                                      "cancelled"} => clients[t] # LoginClient(t)
                      /\ logout[t] \in {"delete", "done"} => clients[t] # UserClient(t)
                      /\ stop = "stopped" /\ cancel[t] = "no" =>
                           \A h \in held : h.client.token = t =>
                             /\ clients[t] # h.client
                             /\ h.sock # NoConn /\ serve[h.sock] = "read"
                                  => sock[h.sock] \in {"gone", "closed"}
    BY DEF ReleasedIsGone
  <2>1. /\ wait[t] \in {"newLogin", "save", "connect", "complete", "failed", "cancelled"}
             => clients[t] # LoginClient(t)
        /\ logout[t] \in {"delete", "done"} => clients[t] # UserClient(t)
    BY DEF IInv, RegistryInv, Before
  <2>2. ASSUME stop = "stopped", cancel[t] = "no", NEW h \in held, h.client.token = t
        PROVE  clients[t] # h.client /\ SockGone(h)
    BY <2>2 DEF IInv, HeldInv, HeldOK
  <2> QED
    BY <2>1, <2>2 DEF SockGone
<1> QED
  BY <1>1, Invariance, PTL
=============================================================================
