------------------------- MODULE ConnectionManager -------------------------
(***************************************************************************)
(* ConnectionManager (connectionmanager.cpp): the set of shared_ptr that   *)
(* owns every Proxy, and the flag that dropAll clears for good.  The set   *)
(* holds the only strong reference that outlives a callback, so a Proxy is *)
(* destroyed exactly when it leaves `processors'.                          *)
(***************************************************************************)
CONSTANT Conn          \* accepted client connections, one Proxy object each

VARIABLES processors,  \* _processors
          running      \* _running

CmInit == processors = {} /\ running = TRUE

\* Mutant: addConnection without the test of _running.
AddWithoutTest(p) == processors' = processors \cup {p} /\ UNCHANGED running

\* addConnection: a Proxy offered after dropAll is not stored, so its last
\* reference dies with the caller.
CmAddConnection(p) ==
  /\ processors' = IF running THEN processors \cup {p} ELSE processors
  /\ UNCHANGED running

\* Mutant: dropConnection that forgets the erase.
DropKeeps(P) == UNCHANGED <<processors, running>>

\* dropConnection, called for each member of P.  Locking an expired weak_ptr
\* yields null and erases nothing, which is what removing a non-member does.
CmDropConnections(P) ==
  /\ processors' = IF running THEN processors \ P ELSE processors
  /\ UNCHANGED running

CmDropAll == running' = FALSE /\ processors' = {}
=============================================================================
