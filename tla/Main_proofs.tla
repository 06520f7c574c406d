----------------------------- MODULE Main_proofs -----------------------------
(***************************************************************************)
(* The invariants of Main hold for any number of signals.                  *)
(***************************************************************************)
EXTENDS Main, TLAPS

\* A run that was FALSE when it was tested never gets to dispatch.
DispatchInv == pc = "dispatch" /\ ~run => "dispatch" \in came

IInv == TypeOK /\ DispatchInv /\ LostOnlyInGap

\* A step of main that does not touch base, run, the flag or the signals, and
\* does not pass the test of run, keeps the invariant.
LEMMA MoveKeeps ==
  ASSUME IInv, UNCHANGED <<base, run, brk, signals, came>>,
         NEW from, NEW to, Goto(from, to),
         to \in Startup \cup Loop \cup Shutdown \cup Ended, to # "begin",
         base \in BaseAt(to), to \in Loop => from \in Loop
  PROVE  IInv'
  BY DEF IInv, TypeOK, DispatchInv, LostOnlyInGap, Goto, BaseAt, Startup, Loop,
         Shutdown, Ended, Places

\* Every step of main and every signal keeps the invariant.
LEMMA Inductive == ASSUME IInv, [Next]_vars PROVE IInv'
<1> USE DEF Startup, Loop, Shutdown, Ended, Places
<1>1. CASE NewBase
  BY <1>1 DEF NewBase, Goto, IInv, TypeOK, BaseAt, DispatchInv, LostOnlyInGap
<1>2. CASE Configure
  BY <1>2, MoveKeeps DEF Configure, IInv, TypeOK, BaseAt, Goto
<1>3. CASE Listen
  BY <1>3, MoveKeeps DEF Listen, IInv, TypeOK, BaseAt, Goto
<1>4. CASE StartChannel
  BY <1>4, MoveKeeps DEF StartChannel, IInv, TypeOK, BaseAt, Goto
<1>5. CASE TestRun
  BY <1>5 DEF TestRun, Goto, IInv, TypeOK, BaseAt, DispatchInv, LostOnlyInGap
<1>6. CASE EnterLoop
  BY <1>6 DEF EnterLoop, Goto, IInv, TypeOK, BaseAt, DispatchInv, LostOnlyInGap
<1>7. CASE CheckBreak
  BY <1>7 DEF CheckBreak, Goto, IInv, TypeOK, BaseAt, DispatchInv, LostOnlyInGap
<1>8. CASE Poll
  BY <1>8, MoveKeeps DEF Poll, IInv, TypeOK, BaseAt, Goto
<1>9. CASE Event
  BY <1>9, MoveKeeps DEF Event, IInv, TypeOK, BaseAt, Goto
<1>10. CASE Callbacks
  BY <1>10, MoveKeeps DEF Callbacks, IInv, TypeOK, BaseAt, Goto
<1>11. CASE AcceptError
  BY <1>11 DEF AcceptError, Goto, IInv, TypeOK, BaseAt, DispatchInv, LostOnlyInGap
<1>12. CASE CloseAll
  BY <1>12, MoveKeeps DEF CloseAll, IInv, TypeOK, BaseAt, Goto
<1>13. CASE StopChannel
  BY <1>13, MoveKeeps DEF StopChannel, IInv, TypeOK, BaseAt, Goto
<1>14. CASE FreeBase
  BY <1>14 DEF FreeBase, Goto, IInv, TypeOK, BaseAt, DispatchInv, LostOnlyInGap
<1>15. CASE Return
  BY <1>15, MoveKeeps DEF Return, IInv, TypeOK, BaseAt, Goto
<1>16. CASE SigHandler
  <2>1. signals' \in 0..MaxSignals
    BY <1>16, SignalsAssumption DEF SigHandler, IInv, TypeOK
  <2>2. /\ run' \in BOOLEAN /\ run' = FALSE
        /\ brk' \in BOOLEAN /\ (base = "live" => brk')
    BY <1>16, Zenon DEF SigHandler
  <2>3. /\ pc' \in Places /\ came' \subseteq Places
        /\ came \subseteq came' /\ pc \in came'
    BY <1>16 DEF SigHandler, IInv, TypeOK
  <2>4. base' \in BaseAt(pc')
    BY <1>16 DEF SigHandler, IInv, TypeOK, BaseAt
  <2>5. DispatchInv'
    BY <1>16, <2>3 DEF SigHandler, DispatchInv
  <2>6. pc' \in Loop => base = "live"
    BY <1>16 DEF SigHandler, IInv, TypeOK, BaseAt
  <2>7. LostOnlyInGap'
    BY <2>2, <2>6 DEF LostOnlyInGap
  <2> QED
    BY <2>1, <2>2, <2>3, <2>4, <2>5, <2>7 DEF IInv, TypeOK
<1>17. CASE UNCHANGED vars
  BY <1>17 DEF vars, IInv, TypeOK, DispatchInv, LostOnlyInGap
<1> QED
  BY <1>1, <1>2, <1>3, <1>4, <1>5, <1>6, <1>7, <1>8, <1>9, <1>10, <1>11, <1>12,
     <1>13, <1>14, <1>15, <1>16, <1>17 DEF Next, Progress

\* The invariant holds of every behaviour, however many signals arrive.
LEMMA Invariance == Spec => []IInv
<1>1. Init => IInv
  <2> SUFFICES ASSUME Init PROVE IInv
    OBVIOUS
  <2>1. pc \in Places /\ base \in BaseAt(pc) /\ signals \in 0..MaxSignals
    BY SignalsAssumption DEF Init, BaseAt, Startup, Places
  <2>2. run \in BOOLEAN /\ brk \in BOOLEAN /\ came \subseteq Places
    BY Zenon DEF Init
  <2>3. DispatchInv /\ LostOnlyInGap
    BY DEF Init, DispatchInv, LostOnlyInGap, Loop
  <2> QED
    BY <2>1, <2>2, <2>3 DEF IInv, TypeOK
<1>2. IInv /\ [Next]_vars => IInv'
  BY Inductive
<1> QED
  BY <1>1, <1>2, PTL DEF Spec

\* The state has its type; the event base is there from its creation until it
\* is freed, whatever fails on the way (main.cpp:66-69, 133).
THEOREM TypeCorrect == Spec => []TypeOK
<1>1. IInv => TypeOK
  BY DEF IInv
<1> QED
  BY <1>1, Invariance, PTL

\* The loop goes on after a signal without a break pending only if the signal
\* arrived after the test of run (main.cpp:34-41, 123-133).
THEOREM LostOnlyInGapHolds == Spec => []LostOnlyInGap
<1>1. IInv => LostOnlyInGap
  BY DEF IInv
<1> QED
  BY <1>1, Invariance, PTL
=============================================================================
