----------------------------- MODULE Teardown ------------------------------
(***************************************************************************)
(* The end of a session, statement by statement: a callback of libevent    *)
(* calls close(), the close callbacks call the managers, and one of them   *)
(* destroys the Proxy and the Forwarder whose methods are still on the     *)
(* call stack, with the mutex of ConnectionManager held                    *)
(* (connectionprocessor.cpp, proxy.cpp, proxymanager.cpp,                  *)
(* connectionmanager.cpp).                                                 *)
(*                                                                         *)
(* An object is <<"proxy", c>> or <<"fwd", c>>.  A frame of the stack has  *)
(* a function, the object it runs on and the statements it has left, each  *)
(* named for what it touches or calls.                                     *)
(***************************************************************************)
EXTENDS Integers, Sequences

CONSTANT Conn

VARIABLES stack,       \* the call stack, its top first
          processors,  \* _processors: the strong references that last
          alive,       \* objects that exist
          mutex,       \* _mutex of ConnectionManager is held
          running,     \* _running
          used         \* a statement touched an object that is no more

vars == <<stack, processors, alive, mutex, running, used>>

ProxyOf(o) == <<"proxy", o[2]>>
FwdOf(o)   == <<"fwd", o[2]>>

Init == /\ stack = <<>> /\ processors = {} /\ alive = {}
        /\ mutex = FALSE /\ running = TRUE /\ used = FALSE

-----------------------------------------------------------------------------
(* The statements of each function.                                        *)

onEvent      == <<"this", "close">>
dataRecieved == <<"this", "close">>

\* Mutant: _bev is freed after the callback.
CloseLate    == <<"this", "closeCb", "this">>

\* close(): nothing after the callback.
closeBody    == <<"this", "this", "closeCb">>

onFwdClose   == <<"this", "fwd", "closeProxy">>

\* ProxyManager::dropConnection: its argument is inside the callback that the Proxy
\* holds; the second use makes the weak_ptr for ConnectionManager.
pmDrop       == <<"this", "this", "cmDrop">>

\* ConnectionManager::dropConnection.  The log line is the last use; scp goes out of
\* scope before the lock_guard does.
cmDrop       == <<"lock", "proxy", "erase", "release", "unlock">>

cmDropAll    == <<"lock", "clear", "unlock">>

\* Mutant: the destructor closes.
DtorCloses   == <<"this", "closeCb", "end">>

\* ~ConnectionProcessor, and ~Proxy before it.
dtor         == <<"this", "end">>

\* Mutant: the Forwarder is not released.
DtorForgets  == <<"this">> \o dtor

dtorProxy    == <<"this", "resetFwd">> \o dtor

Frame(body, o) == [body |-> body, obj |-> o]

-----------------------------------------------------------------------------
(* Execution.                                                              *)

Top == stack[1]

\* The rest of the stack after the statement at the top.
Left == <<[Top EXCEPT !.body = Tail(@)]>> \o Tail(stack)

At(s) == stack # <<>> /\ Top.body # <<>> /\ Head(Top.body) = s

Push(body, o) == stack' = <<Frame(body, o)>> \o Left

Touch(s, o) == /\ At(s)
               /\ used' = (used \/ o \notin alive)
               /\ stack' = Left
               /\ UNCHANGED <<processors, alive, mutex, running>>

This  == At("this") /\ Touch("this", Top.obj)
Fwd   == At("fwd") /\ Touch("fwd", FwdOf(Top.obj))
Proxy == At("proxy") /\ Touch("proxy", ProxyOf(Top.obj))

\* Calls.
Calls == /\ \/ At("close") /\ Push(closeBody, Top.obj)
            \/ At("closeProxy") /\ Push(closeBody, ProxyOf(Top.obj))
            \/ At("cmDrop") /\ Push(cmDrop, Top.obj)
            \/ At("closeCb") /\ Top.obj[1] = "fwd" /\ Push(onFwdClose, ProxyOf(Top.obj))
            \/ At("closeCb") /\ Top.obj[1] = "proxy" /\ Push(pmDrop, Top.obj)
            \/ At("resetFwd") /\ FwdOf(Top.obj) \in alive /\ Push(dtor, FwdOf(Top.obj))
            \/ At("resetFwd") /\ FwdOf(Top.obj) \notin alive /\ stack' = Left
         /\ UNCHANGED <<processors, alive, mutex, running, used>>

Lock == /\ At("lock") /\ ~mutex
        /\ mutex' = TRUE /\ stack' = Left
        /\ UNCHANGED <<processors, alive, running, used>>

Unlock == /\ At("unlock") /\ mutex' = FALSE /\ stack' = Left
          /\ UNCHANGED <<processors, alive, running, used>>

\* erase(scp): scp still holds a reference.
Erase == /\ At("erase")
         /\ processors' = IF running THEN processors \ {Top.obj[2]} ELSE processors
         /\ stack' = Left
         /\ UNCHANGED <<alive, mutex, running, used>>

\* The end of scp: the last reference destroys the Proxy.
Release == /\ At("release")
           /\ IF Top.obj[2] \in processors \/ ProxyOf(Top.obj) \notin alive THEN stack' = Left
              ELSE Push(dtorProxy, ProxyOf(Top.obj))
           /\ UNCHANGED <<processors, alive, mutex, running, used>>

End == /\ At("end") /\ alive' = alive \ {Top.obj} /\ stack' = Left
       /\ UNCHANGED <<processors, mutex, running, used>>

\* _processors.clear(), one element after another.
Clear == /\ At("clear") /\ running' = FALSE
         /\ IF processors = {} THEN stack' = Left /\ UNCHANGED processors
            ELSE \E c \in processors :
                   /\ processors' = processors \ {c}
                   /\ stack' = <<Frame(dtorProxy, <<"proxy", c>>)>> \o stack
         /\ UNCHANGED <<alive, mutex, used>>

Return == /\ stack # <<>> /\ Top.body = <<>>
          /\ stack' = Tail(stack)
          /\ UNCHANGED <<processors, alive, mutex, running, used>>

-----------------------------------------------------------------------------
(* What the event loop calls.                                              *)

Idle == stack = <<>>

Accept(c) == /\ Idle /\ running /\ <<"proxy", c>> \notin alive
             /\ processors' = processors \cup {c} /\ alive' = alive \cup {<<"proxy", c>>}
             /\ UNCHANGED <<stack, mutex, running, used>>

\* The first message is read: a Forwarder is made, or the session is closed.
Message(c) == /\ Idle /\ <<"proxy", c>> \in alive /\ <<"fwd", c>> \notin alive
              /\ \/ alive' = alive \cup {<<"fwd", c>>} /\ UNCHANGED stack
                 \/ stack' = <<Frame(dataRecieved, <<"proxy", c>>)>> /\ UNCHANGED alive
              /\ UNCHANGED <<processors, mutex, running, used>>

\* The client or the server is gone.
Gone(o) == /\ Idle /\ o \in alive
           /\ stack' = <<Frame(onEvent, o)>>
           /\ UNCHANGED <<processors, alive, mutex, running, used>>

\* CLOSE and CLOSE_ALL.  dropById calls dropConnection for the connections of a
\* client, one after another.
Close(c) == /\ Idle /\ c \in processors
            /\ stack' = <<Frame(cmDrop, <<"proxy", c>>)>>
            /\ UNCHANGED <<processors, alive, mutex, running, used>>

CloseAll == /\ Idle /\ running
            /\ stack' = <<Frame(cmDropAll, <<"none">>)>>
            /\ UNCHANGED <<processors, alive, mutex, running, used>>

Step == This \/ Fwd \/ Proxy \/ Calls \/ Lock \/ Unlock \/ Erase \/ Release \/ End \/ Clear \/ Return

Next == \/ Step
        \/ \E c \in Conn : \/ Accept(c) \/ Message(c) \/ Close(c)
                           \/ Gone(<<"proxy", c>>) \/ Gone(<<"fwd", c>>)
        \/ CloseAll

Spec == Init /\ [][Next]_vars

-----------------------------------------------------------------------------
Objects == {"proxy", "fwd"} \X Conn

\* The type of the state.
TypeOK == /\ processors \subseteq Conn /\ alive \subseteq Objects
          /\ {mutex, running, used} \subseteq BOOLEAN
          /\ mutex => stack # <<>>

\* No statement touches an object after its destructor, though Proxy and Forwarder
\* are destroyed inside their own close() (connectionprocessor.cpp:118-129,
\* connectionmanager.cpp:37-41).
NothingAfterTheEnd == ~used

\* Destroying a Proxy with the mutex held does not come back to the mutex
\* (connectionmanager.cpp:34-41, connectionprocessor.cpp:131-139).
NoSelfDeadlock == ~(At("lock") /\ mutex)

\* The state has its type, and between events the Proxies that exist are the ones that
\* are registered, and no Forwarder is without its Proxy: none leaks, none is lost
\* (connectionmanager.cpp:31-54).
NoneLeaks ==
  /\ TypeOK
  /\ stack = <<>> => /\ \A c \in Conn : <<"proxy", c>> \in alive <=> c \in processors
                    /\ \A c \in Conn : <<"fwd", c>> \in alive => c \in processors
=============================================================================
