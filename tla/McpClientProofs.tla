-------------------------- MODULE McpClientProofs --------------------------
(***************************************************************************)
(* Proofs about McpClient, for every set of calls and every number of      *)
(* sessions: the safety properties, by the inductive invariant of          *)
(* McpClientInvariants, and the refinement of AtMostOnce.  One lemma per   *)
(* part of the invariant, one step per action.                             *)
(***************************************************************************)
EXTENDS McpClientInvariants, TLAPS

\* Types.
LEMMA TypesKept ==
  TypeOK /\ LeaseShape /\ [Next]_vars => TypeOK'
<1> SUFFICES ASSUME TypeOK /\ LeaseShape, [Next]_vars PROVE TypeOK'
  OBVIOUS
<1> USE McpAssumption DEF TypeOK, LeaseShape, Pcs, Results, Replies, Sessions, At, local, server
<1>1. ASSUME NEW c \in Calls, Begin(c) PROVE TypeOK'
  BY <1>1 DEF Begin, Goto
<1>2. ASSUME NEW c \in Calls, AcquireLock(c) PROVE TypeOK'
  BY <1>2 DEF AcquireLock, Goto
<1>3. ASSUME NEW c \in Calls, LeaveQueue(c) PROVE TypeOK'
  BY <1>3 DEF LeaveQueue, Return
<1>4. ASSUME NEW c \in Calls, UseSession(c) PROVE TypeOK'
  BY <1>4 DEF UseSession, Goto
<1>5. ASSUME NEW c \in Calls, StartHandshake(c) PROVE TypeOK'
  BY <1>5 DEF StartHandshake, Goto
<1>6. ASSUME NEW c \in Calls, LeaveHeld(c) PROVE TypeOK'
  BY <1>6 DEF LeaveHeld, ReturnKeeping, Return, Keep
<1>7. ASSUME NEW c \in Calls, HandshakeFails(c) PROVE TypeOK'
  BY <1>7 DEF HandshakeFails, ReturnKeeping, Return, Keep
<1>8. ASSUME NEW c \in Calls, Verify(c) PROVE TypeOK'
  BY <1>8 DEF Verify, ReturnKeeping, ReturnDiscarding, Return, Keep, Discard, Goto
<1>9. ASSUME NEW c \in Calls, Dispatch(c) PROVE TypeOK'
  BY <1>9 DEF Dispatch, ReturnDiscarding, Return, Discard
<1>10. ASSUME NEW c \in Calls, Receive(c) PROVE TypeOK'
  BY <1>10 DEF Receive, ReturnKeeping, ReturnDiscarding, Return, Keep, Discard
<1>11. ASSUME NEW c \in Calls, GiveUp(c) PROVE TypeOK'
  BY <1>11 DEF GiveUp, ReturnDiscarding, Return, Discard
<1>12. ASSUME NEW c \in Calls, HandshakeCompletes(c) PROVE TypeOK'
  BY <1>12 DEF HandshakeCompletes, Goto
<1>13. ASSUME NEW c \in Calls, Cancel(c) PROVE TypeOK'
  BY <1>13 DEF Cancel, ReturnKeeping, ReturnDiscarding, Return, Keep, Discard
<1>14. ASSUME Signal PROVE TypeOK'
  BY <1>14 DEF Signal
<1>15. ASSUME Take PROVE TypeOK'
  BY <1>15 DEF Take, Discard
<1>16. ASSUME ShutdownReturns PROVE TypeOK'
  BY <1>16 DEF ShutdownReturns
<1>17. ASSUME NEW s \in Sessions, CloseEnds(s) PROVE TypeOK'
  BY <1>17 DEF CloseEnds
<1>18. ASSUME NEW c \in Calls, ServerExecutes(c) PROVE TypeOK'
  BY <1>18 DEF ServerExecutes
<1>19. ASSUME NEW c \in Calls, ServerAnswers(c) PROVE TypeOK'
  BY <1>19 DEF ServerAnswers
<1>20. ASSUME NEW c \in Calls, ServerRejects(c) PROVE TypeOK'
  BY <1>20 DEF ServerRejects
<1>21. ASSUME NEW c \in Calls, ConnectionLost(c) PROVE TypeOK'
  BY <1>21 DEF ConnectionLost
<1>22. CASE UNCHANGED vars
  BY <1>22 DEF vars, local, server
<1> QED BY <1>1, <1>2, <1>3, <1>4, <1>5, <1>6, <1>7, <1>8, <1>9, <1>10, <1>11, <1>12,
     <1>13, <1>14, <1>15, <1>16, <1>17, <1>18, <1>19, <1>20, <1>21, <1>22 DEF Next, Step

\* The mutex and the lease agree.
LEMMA LeasesKept ==
  TypeOK /\ LeaseShape /\ [Next]_vars => LeaseShape'
<1> SUFFICES ASSUME TypeOK /\ LeaseShape, [Next]_vars PROVE LeaseShape'
  OBVIOUS
<1> USE McpAssumption DEF TypeOK, LeaseShape, Holding, Pcs, Results, Sessions, At, local, server
<1>1. ASSUME NEW c \in Calls, Begin(c) PROVE LeaseShape'
  BY <1>1 DEF Begin, Goto
<1>2. ASSUME NEW c \in Calls, AcquireLock(c) PROVE LeaseShape'
  BY <1>2 DEF AcquireLock, Goto
<1>3. ASSUME NEW c \in Calls, LeaveQueue(c) PROVE LeaseShape'
  BY <1>3 DEF LeaveQueue, Return
<1>4. ASSUME NEW c \in Calls, UseSession(c) PROVE LeaseShape'
  BY <1>4 DEF UseSession, Goto
<1>5. ASSUME NEW c \in Calls, StartHandshake(c) PROVE LeaseShape'
  BY <1>5 DEF StartHandshake, Goto
<1>6. ASSUME NEW c \in Calls, LeaveHeld(c) PROVE LeaseShape'
  BY <1>6 DEF LeaveHeld, ReturnKeeping, Return, Keep
<1>7. ASSUME NEW c \in Calls, HandshakeFails(c) PROVE LeaseShape'
  BY <1>7 DEF HandshakeFails, ReturnKeeping, Return, Keep
<1>8. ASSUME NEW c \in Calls, Verify(c) PROVE LeaseShape'
  BY <1>8 DEF Verify, ReturnKeeping, ReturnDiscarding, Return, Keep, Discard, Goto
<1>9. ASSUME NEW c \in Calls, Dispatch(c) PROVE LeaseShape'
  BY <1>9 DEF Dispatch, ReturnDiscarding, Return, Discard
<1>10. ASSUME NEW c \in Calls, Receive(c) PROVE LeaseShape'
  BY <1>10 DEF Receive, ReturnKeeping, ReturnDiscarding, Return, Keep, Discard
<1>11. ASSUME NEW c \in Calls, GiveUp(c) PROVE LeaseShape'
  BY <1>11 DEF GiveUp, ReturnDiscarding, Return, Discard
<1>12. ASSUME NEW c \in Calls, HandshakeCompletes(c) PROVE LeaseShape'
  BY <1>12 DEF HandshakeCompletes, Goto
<1>13. ASSUME NEW c \in Calls, Cancel(c) PROVE LeaseShape'
  BY <1>13 DEF Cancel, ReturnKeeping, ReturnDiscarding, Return, Keep, Discard
<1>14. ASSUME Signal PROVE LeaseShape'
  BY <1>14 DEF Signal
<1>15. ASSUME Take PROVE LeaseShape'
  BY <1>15 DEF Take, Discard
<1>16. ASSUME ShutdownReturns PROVE LeaseShape'
  BY <1>16 DEF ShutdownReturns
<1>17. ASSUME NEW s \in Sessions, CloseEnds(s) PROVE LeaseShape'
  BY <1>17 DEF CloseEnds
<1>18. ASSUME NEW c \in Calls, ServerExecutes(c) PROVE LeaseShape'
  BY <1>18 DEF ServerExecutes
<1>19. ASSUME NEW c \in Calls, ServerAnswers(c) PROVE LeaseShape'
  BY <1>19 DEF ServerAnswers
<1>20. ASSUME NEW c \in Calls, ServerRejects(c) PROVE LeaseShape'
  BY <1>20 DEF ServerRejects
<1>21. ASSUME NEW c \in Calls, ConnectionLost(c) PROVE LeaseShape'
  BY <1>21 DEF ConnectionLost
<1>22. CASE UNCHANGED vars
  BY <1>22 DEF vars, local, server
<1> QED BY <1>1, <1>2, <1>3, <1>4, <1>5, <1>6, <1>7, <1>8, <1>9, <1>10, <1>11, <1>12,
     <1>13, <1>14, <1>15, <1>16, <1>17, <1>18, <1>19, <1>20, <1>21, <1>22 DEF Next, Step

\* Requests, answers and outcomes agree.
LEMMA RequestsKept ==
  TypeOK /\ LeaseShape /\ RequestShape /\ [Next]_vars => RequestShape'
<1> SUFFICES ASSUME TypeOK /\ LeaseShape /\ RequestShape, [Next]_vars PROVE RequestShape'
  OBVIOUS
<1> USE McpAssumption DEF TypeOK, LeaseShape, RequestShape, Holding, Pcs, Results, Replies, Sessions, At, local, server
<1>1. ASSUME NEW c \in Calls, Begin(c) PROVE RequestShape'
  BY <1>1 DEF Begin, Goto
<1>2. ASSUME NEW c \in Calls, AcquireLock(c) PROVE RequestShape'
  BY <1>2 DEF AcquireLock, Goto
<1>3. ASSUME NEW c \in Calls, LeaveQueue(c) PROVE RequestShape'
  BY <1>3 DEF LeaveQueue, Return
<1>4. ASSUME NEW c \in Calls, UseSession(c) PROVE RequestShape'
  BY <1>4 DEF UseSession, Goto
<1>5. ASSUME NEW c \in Calls, StartHandshake(c) PROVE RequestShape'
  BY <1>5 DEF StartHandshake, Goto
<1>6. ASSUME NEW c \in Calls, LeaveHeld(c) PROVE RequestShape'
  BY <1>6 DEF LeaveHeld, ReturnKeeping, Return, Keep
<1>7. ASSUME NEW c \in Calls, HandshakeFails(c) PROVE RequestShape'
  BY <1>7 DEF HandshakeFails, ReturnKeeping, Return, Keep
<1>8. ASSUME NEW c \in Calls, Verify(c) PROVE RequestShape'
  BY <1>8 DEF Verify, ReturnKeeping, ReturnDiscarding, Return, Keep, Discard, Goto
<1>9. ASSUME NEW c \in Calls, Dispatch(c) PROVE RequestShape'
  BY <1>9 DEF Dispatch, ReturnDiscarding, Return, Discard
<1>10. ASSUME NEW c \in Calls, Receive(c) PROVE RequestShape'
  BY <1>10 DEF Receive, ReturnKeeping, ReturnDiscarding, Return, Keep, Discard
<1>11. ASSUME NEW c \in Calls, GiveUp(c) PROVE RequestShape'
  BY <1>11 DEF GiveUp, ReturnDiscarding, Return, Discard
<1>12. ASSUME NEW c \in Calls, HandshakeCompletes(c) PROVE RequestShape'
  BY <1>12 DEF HandshakeCompletes, Goto
<1>13. ASSUME NEW c \in Calls, Cancel(c) PROVE RequestShape'
  BY <1>13 DEF Cancel, ReturnKeeping, ReturnDiscarding, Return, Keep, Discard
<1>14. ASSUME Signal PROVE RequestShape'
  BY <1>14 DEF Signal
<1>15. ASSUME Take PROVE RequestShape'
  BY <1>15 DEF Take, Discard
<1>16. ASSUME ShutdownReturns PROVE RequestShape'
  BY <1>16 DEF ShutdownReturns
<1>17. ASSUME NEW s \in Sessions, CloseEnds(s) PROVE RequestShape'
  BY <1>17 DEF CloseEnds
<1>18. ASSUME NEW c \in Calls, ServerExecutes(c) PROVE RequestShape'
  BY <1>18 DEF ServerExecutes
<1>19. ASSUME NEW c \in Calls, ServerAnswers(c) PROVE RequestShape'
  BY <1>19 DEF ServerAnswers
<1>20. ASSUME NEW c \in Calls, ServerRejects(c) PROVE RequestShape'
  BY <1>20 DEF ServerRejects
<1>21. ASSUME NEW c \in Calls, ConnectionLost(c) PROVE RequestShape'
  BY <1>21 DEF ConnectionLost
<1>22. CASE UNCHANGED vars
  BY <1>22 DEF vars, local, server
<1> QED BY <1>1, <1>2, <1>3, <1>4, <1>5, <1>6, <1>7, <1>8, <1>9, <1>10, <1>11, <1>12,
     <1>13, <1>14, <1>15, <1>16, <1>17, <1>18, <1>19, <1>20, <1>21, <1>22 DEF Next, Step

\* Session numbers.
LEMMA NumbersKept ==
  TypeOK /\ LeaseShape /\ SessionShape /\ [Next]_vars => SessionShape'
<1> SUFFICES ASSUME TypeOK /\ LeaseShape /\ SessionShape, [Next]_vars PROVE SessionShape'
  OBVIOUS
<1> USE McpAssumption DEF TypeOK, LeaseShape, SessionShape, Sessions, At, local, server
<1>1. ASSUME NEW c \in Calls, Begin(c) PROVE SessionShape'
  BY <1>1 DEF Begin, Goto
<1>2. ASSUME NEW c \in Calls, AcquireLock(c) PROVE SessionShape'
  BY <1>2 DEF AcquireLock, Goto
<1>3. ASSUME NEW c \in Calls, LeaveQueue(c) PROVE SessionShape'
  BY <1>3 DEF LeaveQueue, Return
<1>4. ASSUME NEW c \in Calls, UseSession(c) PROVE SessionShape'
  BY <1>4 DEF UseSession, Goto
<1>5. ASSUME NEW c \in Calls, StartHandshake(c) PROVE SessionShape'
  BY <1>5 DEF StartHandshake, Goto
<1>6. ASSUME NEW c \in Calls, LeaveHeld(c) PROVE SessionShape'
  BY <1>6 DEF LeaveHeld, ReturnKeeping, Return, Keep
<1>7. ASSUME NEW c \in Calls, HandshakeFails(c) PROVE SessionShape'
  BY <1>7 DEF HandshakeFails, ReturnKeeping, Return, Keep
<1>8. ASSUME NEW c \in Calls, Verify(c) PROVE SessionShape'
  BY <1>8 DEF Verify, ReturnKeeping, ReturnDiscarding, Return, Keep, Discard, Goto
<1>9. ASSUME NEW c \in Calls, Dispatch(c) PROVE SessionShape'
  BY <1>9 DEF Dispatch, ReturnDiscarding, Return, Discard
<1>10. ASSUME NEW c \in Calls, Receive(c) PROVE SessionShape'
  BY <1>10 DEF Receive, ReturnKeeping, ReturnDiscarding, Return, Keep, Discard
<1>11. ASSUME NEW c \in Calls, GiveUp(c) PROVE SessionShape'
  BY <1>11 DEF GiveUp, ReturnDiscarding, Return, Discard
<1>12. ASSUME NEW c \in Calls, HandshakeCompletes(c) PROVE SessionShape'
  BY <1>12 DEF HandshakeCompletes, Goto
<1>13. ASSUME NEW c \in Calls, Cancel(c) PROVE SessionShape'
  BY <1>13 DEF Cancel, ReturnKeeping, ReturnDiscarding, Return, Keep, Discard
<1>14. ASSUME Signal PROVE SessionShape'
  BY <1>14 DEF Signal
<1>15. ASSUME Take PROVE SessionShape'
  BY <1>15 DEF Take, Discard
<1>16. ASSUME ShutdownReturns PROVE SessionShape'
  BY <1>16 DEF ShutdownReturns
<1>17. ASSUME NEW s \in Sessions, CloseEnds(s) PROVE SessionShape'
  BY <1>17 DEF CloseEnds
<1>18. ASSUME NEW c \in Calls, ServerExecutes(c) PROVE SessionShape'
  BY <1>18 DEF ServerExecutes
<1>19. ASSUME NEW c \in Calls, ServerAnswers(c) PROVE SessionShape'
  BY <1>19 DEF ServerAnswers
<1>20. ASSUME NEW c \in Calls, ServerRejects(c) PROVE SessionShape'
  BY <1>20 DEF ServerRejects
<1>21. ASSUME NEW c \in Calls, ConnectionLost(c) PROVE SessionShape'
  BY <1>21 DEF ConnectionLost
<1>22. CASE UNCHANGED vars
  BY <1>22 DEF vars, local, server
<1> QED BY <1>1, <1>2, <1>3, <1>4, <1>5, <1>6, <1>7, <1>8, <1>9, <1>10, <1>11, <1>12,
     <1>13, <1>14, <1>15, <1>16, <1>17, <1>18, <1>19, <1>20, <1>21, <1>22 DEF Next, Step

\* The slot stays clean: a new session is newer than any request.
LEMMA SlotKept ==
  IndInv /\ [Next]_vars => SlotIsClean'
<1> SUFFICES ASSUME IndInv, [Next]_vars PROVE SlotIsClean'
  OBVIOUS
<1> USE McpAssumption DEF IndInv, TypeOK, LeaseShape, RequestShape, SessionShape, SlotIsClean, Holding, Pcs, Sessions, At, local, server
<1>1. ASSUME NEW c \in Calls, Begin(c) PROVE SlotIsClean'
  BY <1>1 DEF Begin, Goto
<1>2. ASSUME NEW c \in Calls, AcquireLock(c) PROVE SlotIsClean'
  BY <1>2 DEF AcquireLock, Goto
<1>3. ASSUME NEW c \in Calls, LeaveQueue(c) PROVE SlotIsClean'
  BY <1>3 DEF LeaveQueue, Return
<1>4. ASSUME NEW c \in Calls, UseSession(c) PROVE SlotIsClean'
  BY <1>4 DEF UseSession, Goto
<1>5. ASSUME NEW c \in Calls, StartHandshake(c) PROVE SlotIsClean'
  BY <1>5 DEF StartHandshake, Goto
<1>6. ASSUME NEW c \in Calls, LeaveHeld(c) PROVE SlotIsClean'
  BY <1>6 DEF LeaveHeld, ReturnKeeping, Return, Keep
<1>7. ASSUME NEW c \in Calls, HandshakeFails(c) PROVE SlotIsClean'
  BY <1>7 DEF HandshakeFails, ReturnKeeping, Return, Keep
<1>8. ASSUME NEW c \in Calls, Verify(c) PROVE SlotIsClean'
  BY <1>8 DEF Verify, ReturnKeeping, ReturnDiscarding, Return, Keep, Discard, Goto
<1>9. ASSUME NEW c \in Calls, Dispatch(c) PROVE SlotIsClean'
  BY <1>9 DEF Dispatch, ReturnDiscarding, Return, Discard
<1>10. ASSUME NEW c \in Calls, Receive(c) PROVE SlotIsClean'
  BY <1>10 DEF Receive, ReturnKeeping, ReturnDiscarding, Return, Keep, Discard
<1>11. ASSUME NEW c \in Calls, GiveUp(c) PROVE SlotIsClean'
  BY <1>11 DEF GiveUp, ReturnDiscarding, Return, Discard
<1>12. ASSUME NEW c \in Calls, HandshakeCompletes(c) PROVE SlotIsClean'
  BY <1>12 DEF HandshakeCompletes, Goto
<1>13. ASSUME NEW c \in Calls, Cancel(c) PROVE SlotIsClean'
  BY <1>13 DEF Cancel, ReturnKeeping, ReturnDiscarding, Return, Keep, Discard
<1>14. ASSUME Signal PROVE SlotIsClean'
  BY <1>14 DEF Signal
<1>15. ASSUME Take PROVE SlotIsClean'
  BY <1>15 DEF Take, Discard
<1>16. ASSUME ShutdownReturns PROVE SlotIsClean'
  BY <1>16 DEF ShutdownReturns
<1>17. ASSUME NEW s \in Sessions, CloseEnds(s) PROVE SlotIsClean'
  BY <1>17 DEF CloseEnds
<1>18. ASSUME NEW c \in Calls, ServerExecutes(c) PROVE SlotIsClean'
  BY <1>18 DEF ServerExecutes
<1>19. ASSUME NEW c \in Calls, ServerAnswers(c) PROVE SlotIsClean'
  BY <1>19 DEF ServerAnswers
<1>20. ASSUME NEW c \in Calls, ServerRejects(c) PROVE SlotIsClean'
  BY <1>20 DEF ServerRejects
<1>21. ASSUME NEW c \in Calls, ConnectionLost(c) PROVE SlotIsClean'
  BY <1>21 DEF ConnectionLost
<1>22. CASE UNCHANGED vars
  BY <1>22 DEF vars, local, server
<1> QED BY <1>1, <1>2, <1>3, <1>4, <1>5, <1>6, <1>7, <1>8, <1>9, <1>10, <1>11, <1>12,
     <1>13, <1>14, <1>15, <1>16, <1>17, <1>18, <1>19, <1>20, <1>21, <1>22 DEF Next, Step

\* Closure is for good.
LEMMA ClosureKept ==
  TypeOK /\ LeaseShape /\ NothingAfterShutdown /\ [Next]_vars => NothingAfterShutdown'
<1> SUFFICES ASSUME TypeOK /\ LeaseShape /\ NothingAfterShutdown, [Next]_vars PROVE NothingAfterShutdown'
  OBVIOUS
<1> USE McpAssumption DEF TypeOK, LeaseShape, NothingAfterShutdown, Holding, Sessions, At, IsClosed, local, server
<1>1. ASSUME NEW c \in Calls, Begin(c) PROVE NothingAfterShutdown'
  BY <1>1 DEF Begin, Goto
<1>2. ASSUME NEW c \in Calls, AcquireLock(c) PROVE NothingAfterShutdown'
  BY <1>2 DEF AcquireLock, Goto
<1>3. ASSUME NEW c \in Calls, LeaveQueue(c) PROVE NothingAfterShutdown'
  BY <1>3 DEF LeaveQueue, Return
<1>4. ASSUME NEW c \in Calls, UseSession(c) PROVE NothingAfterShutdown'
  BY <1>4 DEF UseSession, Goto
<1>5. ASSUME NEW c \in Calls, StartHandshake(c) PROVE NothingAfterShutdown'
  BY <1>5 DEF StartHandshake, Goto
<1>6. ASSUME NEW c \in Calls, LeaveHeld(c) PROVE NothingAfterShutdown'
  BY <1>6 DEF LeaveHeld, ReturnKeeping, Return, Keep
<1>7. ASSUME NEW c \in Calls, HandshakeFails(c) PROVE NothingAfterShutdown'
  BY <1>7 DEF HandshakeFails, ReturnKeeping, Return, Keep
<1>8. ASSUME NEW c \in Calls, Verify(c) PROVE NothingAfterShutdown'
  BY <1>8 DEF Verify, ReturnKeeping, ReturnDiscarding, Return, Keep, Discard, Goto
<1>9. ASSUME NEW c \in Calls, Dispatch(c) PROVE NothingAfterShutdown'
  BY <1>9 DEF Dispatch, ReturnDiscarding, Return, Discard
<1>10. ASSUME NEW c \in Calls, Receive(c) PROVE NothingAfterShutdown'
  BY <1>10 DEF Receive, ReturnKeeping, ReturnDiscarding, Return, Keep, Discard
<1>11. ASSUME NEW c \in Calls, GiveUp(c) PROVE NothingAfterShutdown'
  BY <1>11 DEF GiveUp, ReturnDiscarding, Return, Discard
<1>12. ASSUME NEW c \in Calls, HandshakeCompletes(c) PROVE NothingAfterShutdown'
  BY <1>12 DEF HandshakeCompletes, Goto
<1>13. ASSUME NEW c \in Calls, Cancel(c) PROVE NothingAfterShutdown'
  BY <1>13 DEF Cancel, ReturnKeeping, ReturnDiscarding, Return, Keep, Discard
<1>14. ASSUME Signal PROVE NothingAfterShutdown'
  BY <1>14 DEF Signal
<1>15. ASSUME Take PROVE NothingAfterShutdown'
  BY <1>15 DEF Take, Discard
<1>16. ASSUME ShutdownReturns PROVE NothingAfterShutdown'
  BY <1>16 DEF ShutdownReturns
<1>17. ASSUME NEW s \in Sessions, CloseEnds(s) PROVE NothingAfterShutdown'
  BY <1>17 DEF CloseEnds
<1>18. ASSUME NEW c \in Calls, ServerExecutes(c) PROVE NothingAfterShutdown'
  BY <1>18 DEF ServerExecutes
<1>19. ASSUME NEW c \in Calls, ServerAnswers(c) PROVE NothingAfterShutdown'
  BY <1>19 DEF ServerAnswers
<1>20. ASSUME NEW c \in Calls, ServerRejects(c) PROVE NothingAfterShutdown'
  BY <1>20 DEF ServerRejects
<1>21. ASSUME NEW c \in Calls, ConnectionLost(c) PROVE NothingAfterShutdown'
  BY <1>21 DEF ConnectionLost
<1>22. CASE UNCHANGED vars
  BY <1>22 DEF vars, local, server
<1> QED BY <1>1, <1>2, <1>3, <1>4, <1>5, <1>6, <1>7, <1>8, <1>9, <1>10, <1>11, <1>12,
     <1>13, <1>14, <1>15, <1>16, <1>17, <1>18, <1>19, <1>20, <1>21, <1>22 DEF Next, Step

\* No session is lost.
LEMMA SessionsKept ==
  TypeOK /\ LeaseShape /\ SessionShape /\ SessionsAccounted /\ [Next]_vars => SessionsAccounted'
<1> SUFFICES ASSUME TypeOK /\ LeaseShape /\ SessionShape /\ SessionsAccounted, [Next]_vars PROVE SessionsAccounted'
  OBVIOUS
<1> USE McpAssumption DEF TypeOK, LeaseShape, SessionShape, SessionsAccounted, Sessions, At, local, server
<1>1. ASSUME NEW c \in Calls, Begin(c) PROVE SessionsAccounted'
  BY <1>1 DEF Begin, Goto
<1>2. ASSUME NEW c \in Calls, AcquireLock(c) PROVE SessionsAccounted'
  BY <1>2 DEF AcquireLock, Goto
<1>3. ASSUME NEW c \in Calls, LeaveQueue(c) PROVE SessionsAccounted'
  BY <1>3 DEF LeaveQueue, Return
<1>4. ASSUME NEW c \in Calls, UseSession(c) PROVE SessionsAccounted'
  BY <1>4 DEF UseSession, Goto
<1>5. ASSUME NEW c \in Calls, StartHandshake(c) PROVE SessionsAccounted'
  BY <1>5 DEF StartHandshake, Goto
<1>6. ASSUME NEW c \in Calls, LeaveHeld(c) PROVE SessionsAccounted'
  BY <1>6 DEF LeaveHeld, ReturnKeeping, Return, Keep
<1>7. ASSUME NEW c \in Calls, HandshakeFails(c) PROVE SessionsAccounted'
  BY <1>7 DEF HandshakeFails, ReturnKeeping, Return, Keep
<1>8. ASSUME NEW c \in Calls, Verify(c) PROVE SessionsAccounted'
  BY <1>8 DEF Verify, ReturnKeeping, ReturnDiscarding, Return, Keep, Discard, Goto
<1>9. ASSUME NEW c \in Calls, Dispatch(c) PROVE SessionsAccounted'
  BY <1>9 DEF Dispatch, ReturnDiscarding, Return, Discard
<1>10. ASSUME NEW c \in Calls, Receive(c) PROVE SessionsAccounted'
  BY <1>10 DEF Receive, ReturnKeeping, ReturnDiscarding, Return, Keep, Discard
<1>11. ASSUME NEW c \in Calls, GiveUp(c) PROVE SessionsAccounted'
  BY <1>11 DEF GiveUp, ReturnDiscarding, Return, Discard
<1>12. ASSUME NEW c \in Calls, HandshakeCompletes(c) PROVE SessionsAccounted'
  BY <1>12 DEF HandshakeCompletes, Goto
<1>13. ASSUME NEW c \in Calls, Cancel(c) PROVE SessionsAccounted'
  BY <1>13 DEF Cancel, ReturnKeeping, ReturnDiscarding, Return, Keep, Discard
<1>14. ASSUME Signal PROVE SessionsAccounted'
  BY <1>14 DEF Signal
<1>15. ASSUME Take PROVE SessionsAccounted'
  BY <1>15 DEF Take, Discard
<1>16. ASSUME ShutdownReturns PROVE SessionsAccounted'
  BY <1>16 DEF ShutdownReturns
<1>17. ASSUME NEW s \in Sessions, CloseEnds(s) PROVE SessionsAccounted'
  BY <1>17 DEF CloseEnds
<1>18. ASSUME NEW c \in Calls, ServerExecutes(c) PROVE SessionsAccounted'
  BY <1>18 DEF ServerExecutes
<1>19. ASSUME NEW c \in Calls, ServerAnswers(c) PROVE SessionsAccounted'
  BY <1>19 DEF ServerAnswers
<1>20. ASSUME NEW c \in Calls, ServerRejects(c) PROVE SessionsAccounted'
  BY <1>20 DEF ServerRejects
<1>21. ASSUME NEW c \in Calls, ConnectionLost(c) PROVE SessionsAccounted'
  BY <1>21 DEF ConnectionLost
<1>22. CASE UNCHANGED vars
  BY <1>22 DEF vars, local, server
<1> QED BY <1>1, <1>2, <1>3, <1>4, <1>5, <1>6, <1>7, <1>8, <1>9, <1>10, <1>11, <1>12,
     <1>13, <1>14, <1>15, <1>16, <1>17, <1>18, <1>19, <1>20, <1>21, <1>22 DEF Next, Step

\* The parts of the invariant are jointly inductive.
THEOREM Inductive == Spec => []IndInv
<1>1. Init => IndInv
  BY McpAssumption DEF Init, IndInv, TypeOK, LeaseShape, RequestShape, SessionShape,
     SlotIsClean, NothingAfterShutdown, SessionsAccounted, Sessions, Pcs, Results,
     Replies, Holding, At
<1>2. IndInv /\ [Next]_vars => IndInv'
  BY TypesKept, LeasesKept, RequestsKept, NumbersKept, SlotKept, ClosureKept, SessionsKept
     DEF IndInv
<1> QED BY <1>1, <1>2, PTL DEF Spec

\* Every variable keeps its type, for any number of calls and sessions.
THEOREM TypeCorrect == Spec => []TypeOK
BY Inductive, PTL DEF IndInv

\* The session in the slot has no request of an earlier call on it.
THEOREM DoubtfulSessionsRetired == Spec => []SlotIsClean
BY Inductive, PTL DEF IndInv

\* Nothing is opened, leased or sent once shutdown() has taken the session.
THEOREM ClosedForGood == Spec => []NothingAfterShutdown
BY Inductive, PTL DEF IndInv

\* Every session opened is in the slot, being closed or closed.
THEOREM NoSessionLost == Spec => []SessionsAccounted
BY Inductive, PTL DEF IndInv

\* A call that returns tells its caller what the abstract call may tell.
LEMMA Tells ==
  ASSUME TypeOK, LeaseShape, NEW c \in Calls, NEW o \in Promise!Outcomes,
         call[c].pc # "returned", Return(c, o), UNCHANGED <<shut, server>>,
         o = "ok" => executed[c] = 1,
         o = "rejected" => call[c].session # 0,
         o = "refused" => call[c].session = 0
  PROVE  Promise!Tell(c, o)
<1>1. call[c].result = "none"
  BY DEF TypeOK, LeaseShape, At
<1>2. \A d \in Calls : call'[d].result = IF d = c THEN o ELSE call[d].result
  BY DEF TypeOK, Return
<1>3. \A d \in Calls : call'[d].session = call[d].session
  BY DEF TypeOK, Return
<1>4. (shut.pc \in {"closing", "done"})' = (shut.pc \in {"closing", "done"})
  OBVIOUS
<1> QED BY <1>1, <1>2, <1>3, <1>4 DEF Promise!Tell, server, TypeOK

\* The handle implements AtMostOnce: every step of it sends, executes, tells or
\* closes, or is invisible to callers and server.
THEOREM Refines == Spec => CallsAtMostOnce
<1> USE DEF At, local, server
<1>1. Init => Promise!Init
  BY DEF Init, Promise!Init
<1>2. IndInv /\ [Next]_vars => [Promise!Next]_Promise!vars
  <2> SUFFICES ASSUME IndInv, [Next]_vars PROVE [Promise!Next]_Promise!vars
    OBVIOUS
  <2> USE DEF IndInv, TypeOK, LeaseShape, RequestShape, Promise!Next, Promise!vars
  <2>1. ASSUME NEW c \in Calls, Begin(c) PROVE [Promise!Next]_Promise!vars
    BY <2>1 DEF Begin, Goto
  <2>2. ASSUME NEW c \in Calls, AcquireLock(c) PROVE [Promise!Next]_Promise!vars
    BY <2>2 DEF AcquireLock, Goto
  <2>3. ASSUME NEW c \in Calls, LeaveQueue(c) PROVE [Promise!Next]_Promise!vars
    BY <2>3, Tells DEF LeaveQueue, Promise!Outcomes
  <2>4. ASSUME NEW c \in Calls, UseSession(c) PROVE [Promise!Next]_Promise!vars
    BY <2>4 DEF UseSession, Goto
  <2>5. ASSUME NEW c \in Calls, StartHandshake(c) PROVE [Promise!Next]_Promise!vars
    BY <2>5 DEF StartHandshake, Goto
  <2>6. ASSUME NEW c \in Calls, LeaveHeld(c) PROVE [Promise!Next]_Promise!vars
    BY <2>6, Tells DEF LeaveHeld, ReturnKeeping, Promise!Outcomes
  <2>7. ASSUME NEW c \in Calls, HandshakeFails(c) PROVE [Promise!Next]_Promise!vars
    BY <2>7, Tells DEF HandshakeFails, ReturnKeeping, Promise!Outcomes
  <2>8. ASSUME NEW c \in Calls, Verify(c) PROVE [Promise!Next]_Promise!vars
    <3>1. CASE Goto(c, "ready") /\ UNCHANGED <<shut, server>>
      BY <3>1 DEF Goto
    <3>2. CASE Return(c, "refused") /\ UNCHANGED <<shut, server>>
      BY <2>8, <3>2, Tells DEF Verify, Promise!Outcomes
    <3> QED BY <2>8, <3>1, <3>2 DEF Verify, ReturnKeeping, ReturnDiscarding
  <2>9. ASSUME NEW c \in Calls, Dispatch(c) PROVE [Promise!Next]_Promise!vars
    <3>1. CASE IsClosed
      BY <2>9, <3>1, Tells DEF Dispatch, ReturnDiscarding, Promise!Outcomes
    <3>2. CASE ~IsClosed
      <4>1. \A d \in Calls : call'[d].result = call[d].result
        BY <2>9, <3>2 DEF Dispatch
      <4>2. \A d \in Calls :
              call'[d].session = IF d = c THEN conn ELSE call[d].session
        BY <2>9, <3>2 DEF Dispatch
      <4>3. conn # 0 /\ call[c].session = 0 /\ call[c].result = "none"
        BY <2>9 DEF Dispatch
      <4>4. \A d \in Calls : call[d].session # 0 => call[d].result # "none"
        BY <2>9 DEF Dispatch, Holding
      <4>5. Promise!Send(c)
        BY <2>9, <3>2, <4>1, <4>2, <4>3, <4>4 DEF Dispatch, IsClosed, Promise!Send
      <4> QED BY <4>5
    <3> QED BY <3>1, <3>2
  <2>10. ASSUME NEW c \in Calls, Receive(c) PROVE [Promise!Next]_Promise!vars
    <3>1. CASE reply[c] = "answer" /\ ReturnKeeping(c, "ok")
      BY <2>10, <3>1, Tells DEF Receive, ReturnKeeping, Promise!Outcomes
    <3>2. CASE reply[c] = "rejection" /\ ReturnKeeping(c, "rejected")
      BY <2>10, <3>2, Tells DEF Receive, ReturnKeeping, Promise!Outcomes
    <3>3. CASE reply[c] = "lost" /\ ReturnDiscarding(c, "unknown")
      BY <2>10, <3>3, Tells DEF Receive, ReturnDiscarding, Promise!Outcomes
    <3> QED BY <2>10, <3>1, <3>2, <3>3 DEF Receive
  <2>11. ASSUME NEW c \in Calls, GiveUp(c) PROVE [Promise!Next]_Promise!vars
    BY <2>11, Tells DEF GiveUp, ReturnDiscarding, Promise!Outcomes
  <2>12. ASSUME NEW c \in Calls, HandshakeCompletes(c) PROVE [Promise!Next]_Promise!vars
    BY <2>12 DEF HandshakeCompletes, Goto
  <2>13. ASSUME NEW c \in Calls, Cancel(c) PROVE [Promise!Next]_Promise!vars
    BY <2>13, Tells DEF Cancel, ReturnKeeping, ReturnDiscarding, Promise!Outcomes
  <2>14. ASSUME Signal PROVE [Promise!Next]_Promise!vars
    BY <2>14 DEF Signal, IsClosed
  <2>15. ASSUME Take PROVE [Promise!Next]_Promise!vars
    BY <2>15, McpAssumption DEF Take, Discard, Promise!Close, Holding
  <2>16. ASSUME ShutdownReturns PROVE [Promise!Next]_Promise!vars
    BY <2>16 DEF ShutdownReturns
  <2>17. ASSUME NEW s \in Sessions, CloseEnds(s) PROVE [Promise!Next]_Promise!vars
    BY <2>17 DEF CloseEnds
  <2>18. ASSUME NEW c \in Calls, ServerExecutes(c) PROVE [Promise!Next]_Promise!vars
    <3>1. executed[c] = 0 /\ call[c].session # 0
      BY <2>18 DEF ServerExecutes
    <3>2. executed' = [executed EXCEPT ![c] = 1]
      BY <2>18, <3>1 DEF ServerExecutes
    <3>3. Promise!Execute(c)
      BY <2>18, <3>1, <3>2 DEF ServerExecutes, Promise!Execute
    <3> QED BY <3>3
  <2>19. ASSUME NEW c \in Calls, ServerAnswers(c) PROVE [Promise!Next]_Promise!vars
    BY <2>19 DEF ServerAnswers
  <2>20. ASSUME NEW c \in Calls, ServerRejects(c) PROVE [Promise!Next]_Promise!vars
    BY <2>20 DEF ServerRejects
  <2>21. ASSUME NEW c \in Calls, ConnectionLost(c) PROVE [Promise!Next]_Promise!vars
    BY <2>21 DEF ConnectionLost
  <2>22. CASE UNCHANGED vars
    BY <2>22 DEF vars
  <2> QED BY <2>1, <2>2, <2>3, <2>4, <2>5, <2>6, <2>7, <2>8, <2>9, <2>10, <2>11,
     <2>12, <2>13, <2>14, <2>15, <2>16, <2>17, <2>18, <2>19, <2>20, <2>21, <2>22 DEF
     Next, Step
<1> QED BY <1>1, <1>2, Inductive, PTL DEF Spec, CallsAtMostOnce, Promise!Spec
=============================================================================
