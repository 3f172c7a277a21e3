----------------------------- MODULE ExecProofs -----------------------------
(***************************************************************************)
(* Proofs about RunInContainer, for every bound on queued frames.  The     *)
(* handler and its stdin goroutine share one websocket; what is proved is  *)
(* that the goroutine never writes to it on behalf of a handler that has   *)
(* returned.                                                               *)
(***************************************************************************)
EXTENDS Exec, TLAPS

MainPcs == {"setup", "dial", "auth", "top", "reading", "copying", "returned"}
InPcs == {"none", "top", "reading", "writing", "exited"}

TypeOK ==
    /\ mainPc \in MainPcs
    /\ inPc \in InPcs
    /\ hasIn \in BOOLEAN /\ hasOut \in BOOLEAN
    /\ dialed \in BOOLEAN /\ connClosed \in BOOLEAN
    /\ frames \in 0..MaxFrames
    /\ remoteClosed \in BOOLEAN
    /\ stdinData \in BOOLEAN /\ stdinEOF \in BOOLEAN /\ ctxDone \in BOOLEAN

\* The goroutine is started only by AuthOk: before it, there is none.
NotStartedBeforeAuth ==
    mainPc \in {"setup", "dial", "auth"} => inPc = "none"

\* OrphanGoroutineSeesClose is not inductive alone: Setup, Dial and
\* AuthFail return without closing c, which is harmless only because no
\* goroutine runs yet.
IInv == TypeOK /\ NotStartedBeforeAuth /\ OrphanGoroutineSeesClose

LEMMA InitIInv == Init => IInv
<1> SUFFICES ASSUME Init PROVE IInv
  OBVIOUS
<1>1. mainPc \in MainPcs /\ inPc \in InPcs /\ frames \in 0..MaxFrames
  BY ExecAssumption DEF Init, MainPcs, InPcs
<1>2. /\ hasIn \in BOOLEAN /\ hasOut \in BOOLEAN /\ dialed \in BOOLEAN
      /\ connClosed \in BOOLEAN /\ remoteClosed \in BOOLEAN
      /\ stdinData \in BOOLEAN /\ stdinEOF \in BOOLEAN /\ ctxDone \in BOOLEAN
  BY Zenon DEF Init
<1>3. NotStartedBeforeAuth /\ OrphanGoroutineSeesClose
  BY DEF Init, NotStartedBeforeAuth, OrphanGoroutineSeesClose
<1>. QED
  BY <1>1, <1>2, <1>3 DEF IInv, TypeOK

LEMMA NextIInv == IInv /\ [Next]_vars => IInv'
<1> SUFFICES ASSUME IInv, [Next]_vars PROVE IInv'
  OBVIOUS
<1>. USE ExecAssumption DEF IInv, TypeOK, MainPcs, InPcs, NotStartedBeforeAuth,
         OrphanGoroutineSeesClose, env
<1>1. CASE Setup
  BY <1>1 DEF Setup
<1>2. CASE Dial
  BY <1>2 DEF Dial
<1>3. CASE AuthFail
  BY <1>3 DEF AuthFail
<1>4. CASE AuthOk
  BY <1>4 DEF AuthOk
<1>5. CASE MainTop
  BY <1>5 DEF MainTop
<1>6. CASE MainFrame
  BY <1>6 DEF MainFrame
<1>7. CASE MainReadErr
  BY <1>7 DEF MainReadErr
<1>8. CASE MainCopy
  BY <1>8 DEF MainCopy
<1>9. CASE InTop
  BY <1>9 DEF InTop
<1>10. CASE InRead
  BY <1>10 DEF InRead
<1>11. CASE InWrite
  BY <1>11 DEF InWrite
<1>12. CASE RemoteSend
  BY <1>12 DEF RemoteSend
<1>13. CASE RemoteClose
  BY <1>13 DEF RemoteClose
<1>14. CASE CallerInput
  BY <1>14 DEF CallerInput
<1>15. CASE CallerEOF
  BY <1>15 DEF CallerEOF
<1>16. CASE Cancel
  BY <1>16 DEF Cancel
<1>17. CASE UNCHANGED vars
  BY <1>17 DEF vars
<1>. QED
  BY <1>1, <1>2, <1>3, <1>4, <1>5, <1>6, <1>7, <1>8, <1>9, <1>10, <1>11,
     <1>12, <1>13, <1>14, <1>15, <1>16, <1>17 DEF Next, Handler, Goroutine

\* For every bound on queued frames and every interleaving of the handler,
\* the stdin goroutine, the remote terminal and the caller, a stdin
\* goroutine that outlives RunInContainer holds a closed websocket: every
\* return after the goroutine's start runs the deferred c.Close().
THEOREM GoroutineSeesClose == Spec => []OrphanGoroutineSeesClose
<1>1. Spec => []IInv
  BY InitIInv, NextIInv, PTL DEF Spec
<1>. QED
  BY <1>1, PTL DEF IInv

\* Under the same invariant, a successful c.WriteMessage of the stdin
\* goroutine never happens after RunInContainer has returned.
THEOREM NoLateWrite == Spec => NoWriteAfterReturn
<1>1. Spec => []IInv
  BY InitIInv, NextIInv, PTL DEF Spec
<1>2. IInv /\ [Next]_vars =>
         [inPc = "writing" /\ inPc' = "top" => mainPc # "returned"]_vars
  <2> SUFFICES ASSUME IInv, [Next]_vars, inPc = "writing", inPc' = "top"
               PROVE  mainPc # "returned"
    OBVIOUS
  <2>0. mainPc = "auth" => inPc = "none"
    BY DEF IInv, NotStartedBeforeAuth
  <2>1. InWrite
    BY <2>0 DEF Next, Handler, Goroutine, Setup, Dial, AuthFail, AuthOk, MainTop,
       MainFrame, MainReadErr, MainCopy, InTop, InRead, RemoteSend,
       RemoteClose, CallerInput, CallerEOF, Cancel, vars
  <2>2. ~connClosed
    BY <2>1 DEF InWrite
  <2>. QED
    BY <2>2 DEF IInv, OrphanGoroutineSeesClose
<1>. QED
  BY <1>1, <1>2, PTL DEF Spec, NoWriteAfterReturn

=============================================================================
