---------------------------- MODULE ProxyManager ----------------------------
(***************************************************************************)
(* ProxyManager (proxymanager.cpp): the multimap from a client id to the   *)
(* weak_ptr of the Proxies that announced it.  A Proxy announces its id at *)
(* most once, so the multimap is a set of <<id, connection>> pairs.        *)
(***************************************************************************)
EXTENDS ConnectionManager, Integers

CONSTANT Id            \* the integers a client may announce

ASSUME IdAssumption == Id \subseteq Int

VARIABLE idToConn      \* _idToConn

PmInit == CmInit /\ idToConn = {}

\* Mutant: clear() instead of erase(key).
EraseEverything(map, i) == {}

\* unordered_multimap::erase(key): every entry of the key goes.
EraseId(map, i) == {e \in map : e[1] # i}

\* Mutant: the whole multimap instead of equal_range(id).
WithAnyId(map, i) == {c \in Conn : \E e \in map : e[2] = c}

\* The Proxies in equal_range(i).
WithId(map, i) == {c \in Conn : <<i, c>> \in map}

AddProxy(p) == CmAddConnection(p) /\ UNCHANGED idToConn

\* Mutant: the callback runs before _id is assigned.
OnIdUnset(map, i, p) == map \cup {<<-1, p>>}

\* onIdRecv, as a function on the multimap: it runs inside handlers that go
\* on to change the map again.
OnIdRecv(map, i, p) == map \cup {<<i, p>>}

\* Mutant: the close callback leaves the multimap alone.
DropKeepsEntry(map, i, p) == idToConn' = map /\ CmDropConnections({p})

\* dropConnection, the Proxy's close callback; map is the multimap when the
\* callback runs and i is pp->id().
DropConnection(map, i, p) ==
  /\ idToConn' = IF i >= 0 THEN EraseId(map, i) ELSE map
  /\ CmDropConnections({p})

DropById(i) ==
  /\ idToConn' = EraseId(idToConn, i)
  /\ CmDropConnections(WithId(idToConn, i))

DropAll == CmDropAll /\ idToConn' = {}
=============================================================================
