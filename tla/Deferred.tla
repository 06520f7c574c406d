------------------------------ MODULE Deferred ------------------------------
(***************************************************************************)
(* The result objects of AMQP-CPP (deferred.h and the classes derived from *)
(* it): which callback runs when an instruction is answered, fails or is   *)
(* forgotten.  A callback is known by the number of its registration, 0 is *)
(* an empty std::function; `told' is what the program was called with.     *)
(***************************************************************************)
EXTENDS Naturals, Sequences

\* The classes; "special" is the callback that a class adds for success.
Classes == {"Deferred", "Queue", "Delete", "Cancel", "Confirm", "Consumer", "Get"}
Slots   == {"success", "special", "error", "finalize"}

Make(class, failed) ==
  [class |-> class, failed |-> failed, cb |-> [s \in Slots |-> 0], told |-> <<>>]

Result == [class : Classes \cup {"none"}, failed : BOOLEAN,
           cb : [Slots -> Nat], told : Seq(Slots \X Nat)]

\* The calls of the callbacks in these slots.
ToldAs(d, slots) == {k \in 1..Len(d.told) : d.told[k][1] \in slots}

Store(d, slot, n) == [d EXCEPT !.cb[slot] = n]
Call(d, slot) == IF d.cb[slot] = 0 THEN d
                 ELSE [d EXCEPT !.told = Append(@, <<slot, d.cb[slot]>>)]

-----------------------------------------------------------------------------
(* Registration.                                                           *)

onSuccess(d, n) == Store(d, "success", n)

\* Mutant: the callback is only stored.
ErrorStores(d, n) == Store(d, "error", n)

onError(d, n) == LET e == Store(d, "error", n)
                 IN  IF d.failed THEN Call(e, "error") ELSE e

onFinalize(d, n) == LET e == Store(d, "finalize", n)
                    IN  IF d.failed THEN Call(e, "finalize") ELSE e

\* onSuccess with the callback type of the class; the other overload is the
\* one of Deferred.
\* What DeferredGet stores runs when the message is complete: the frames of the message
\* follow the answer, and are part of its step here (DeferredReceiver has them).
queueOnSuccess(d, n)    == Store(d, "special", n)
deleteOnSuccess(d, n)   == Store(d, "special", n)
cancelOnSuccess(d, n)   == Store(d, "special", n)
consumerOnSuccess(d, n) == Store(d, "special", n)
getOnSuccess(d, n)      == Store(d, "special", n)
confirmOnSuccess(d, n)  == onSuccess(d, n)

\* DeferredGet hides the method of its base.
getOnError(d, n) == Store(d, "error", n)

Register(d, method, n) ==
  CASE method = "onSuccess"  -> onSuccess(d, n)
    [] method = "onFinalize" -> onFinalize(d, n)
    [] method = "onError" /\ d.class = "Get" -> getOnError(d, n)
    [] method = "onError"    -> onError(d, n)
    [] d.class = "Queue"     -> queueOnSuccess(d, n)
    [] d.class = "Delete"    -> deleteOnSuccess(d, n)
    [] d.class = "Cancel"    -> cancelOnSuccess(d, n)
    [] d.class = "Consumer"  -> consumerOnSuccess(d, n)
    [] d.class = "Get"       -> getOnSuccess(d, n)
    [] OTHER                 -> confirmOnSuccess(d, n)

-----------------------------------------------------------------------------
(* Reports.                                                                *)

reportSuccess(d) == Call(d, "success")

\* Mutant: both callbacks run.
ReportBoth(d) == Call(reportSuccess(d), "special")

reportQueue(d)  == IF d.cb["special"] = 0 THEN reportSuccess(d) ELSE Call(d, "special")
reportDelete(d) == IF d.cb["special"] = 0 THEN reportSuccess(d) ELSE Call(d, "special")

\* DeferredCancel, DeferredConsumer and DeferredGet.
reportTagged(d) == IF d.cb["special"] = 0 THEN reportSuccess(d) ELSE Call(d, "special")

Answered(d) == CASE d.class = "Queue"  -> reportQueue(d)
                 [] d.class = "Delete" -> reportDelete(d)
                 [] d.class \in {"Cancel", "Consumer", "Get"} -> reportTagged(d)
                 [] OTHER -> reportSuccess(d)

reportError(d) == Call([d EXCEPT !.failed = TRUE], "error")

\* ~Deferred
Forgotten(d) == Call(d, "finalize")
=============================================================================
