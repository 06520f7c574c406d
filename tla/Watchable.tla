----------------------------- MODULE Watchable -----------------------------
(***************************************************************************)
(* Watchable and Monitor (watchable.h, monitor.h): a monitor on the stack  *)
(* of a method tells it whether a callback destroyed the object the method *)
(* runs on.  Each object keeps the list of monitors that watch it, each    *)
(* monitor a pointer to the object.  ~Watchable is not in the repository;  *)
(* it invalidates the monitors of the list.                                *)
(***************************************************************************)
EXTENDS Integers

CONSTANTS Object, Mon, Null

VARIABLES alive,      \* the objects that exist
          made,       \* the monitors that exist
          monitors,   \* _monitors, by object: how often each monitor is in the list
          watchable,  \* _watchable, by monitor
          bad         \* an object or a monitor was used after its end

vars == <<alive, made, monitors, watchable, bad>>

Nobody == [m \in Mon |-> 0]

Init == /\ alive = {} /\ made = {}
        /\ monitors = [o \in Object |-> Nobody]
        /\ watchable = [m \in Mon |-> Null]
        /\ bad = FALSE

-----------------------------------------------------------------------------
\* push_back, and std::remove with erase, which drop every occurrence.  The order of
\* the list makes no difference to anyone.
add(ms, o, m)    == IF o = Null THEN ms ELSE [ms EXCEPT ![o][m] = @ + 1]
remove(ms, o, m) == IF o = Null THEN ms ELSE [ms EXCEPT ![o][m] = 0]

Touches(o) == bad' = (bad \/ (o # Null /\ o \notin alive))

\* The constructor of a Monitor.
Construct(m, o) == /\ m \notin made /\ o \in alive
                   /\ made' = made \cup {m}
                   /\ watchable' = [watchable EXCEPT ![m] = o]
                   /\ monitors' = add(monitors, o, m)
                   /\ UNCHANGED <<alive, bad>>

\* Mutant: a copy does not register.
CopyOnly(m, n) == /\ m \notin made /\ n \in made
                  /\ made' = made \cup {m}
                  /\ watchable' = [watchable EXCEPT ![m] = watchable[n]]
                  /\ UNCHANGED <<alive, monitors, bad>>

\* The copy constructor.
Copy(m, n) == /\ m \notin made /\ n \in made
              /\ made' = made \cup {m}
              /\ watchable' = [watchable EXCEPT ![m] = watchable[n]]
              /\ monitors' = add(monitors, watchable[n], m)
              /\ Touches(watchable[n])
              /\ UNCHANGED alive

\* operator=, of a monitor to itself too.
Assign(m, n) == /\ m \in made /\ n \in made
                /\ watchable' = [watchable EXCEPT ![m] = watchable[n]]
                /\ monitors' = add(remove(monitors, watchable[m], m), watchable[n], m)
                /\ bad' = (bad \/ \E o \in {watchable[m], watchable[n]} : o # Null /\ o \notin alive)
                /\ UNCHANGED <<alive, made>>

\* ~Monitor.
Destruct(m) == /\ m \in made
               /\ made' = made \ {m}
               /\ watchable' = [watchable EXCEPT ![m] = Null]
               /\ monitors' = remove(monitors, watchable[m], m)
               /\ Touches(watchable[m])
               /\ UNCHANGED alive

\* Mutant: the pointer is kept.
InvalidateNot(m) == watchable[m]

invalidate(m) == Null

valid(m) == watchable[m] # Null

Create(o) == /\ o \notin alive
             /\ alive' = alive \cup {o}
             /\ monitors' = [monitors EXCEPT ![o] = Nobody]
             /\ UNCHANGED <<made, watchable, bad>>

\* ~Watchable.
Destroy(o) == LET told == {m \in Mon : monitors[o][m] > 0}
              IN  /\ o \in alive
                  /\ alive' = alive \ {o}
                  /\ monitors' = [monitors EXCEPT ![o] = Nobody]
                  /\ watchable' = [m \in Mon |-> IF m \in told THEN invalidate(m)
                                                 ELSE watchable[m]]
                  /\ bad' = (bad \/ \E m \in told : m \notin made)
                  /\ UNCHANGED made

Next == \/ \E m \in Mon : \/ \E o \in Object : Construct(m, o)
                          \/ \E n \in Mon : Copy(m, n) \/ Assign(m, n)
                          \/ Destruct(m)
        \/ \E o \in Object : Create(o) \/ Destroy(o)

Spec == Init /\ [][Next]_vars

-----------------------------------------------------------------------------
\* The type of the state.
TypeOK == /\ alive \subseteq Object /\ made \subseteq Mon
          /\ monitors \in [Object -> [Mon -> Nat]]
          /\ watchable \in [Mon -> Object \cup {Null}] /\ bad \in BOOLEAN

\* The list of an object has exactly the monitors that point to it, each one once,
\* through copies, assignments and destruction in any order
\* (watchable.h:47-64, monitor.h:54-95).
ListsAreExact == \A o \in Object, m \in Mon :
  monitors[o][m] = IF m \in made /\ watchable[m] = o THEN 1 ELSE 0

\* valid() is right: a monitor says so exactly as long as the object it was given
\* exists, and neither side is used after its end (monitor.h:101-122).
ValidIsAlive == /\ ~bad
                /\ \A m \in made : valid(m) => watchable[m] \in alive
=============================================================================
