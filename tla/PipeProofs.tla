----------------------------- MODULE PipeProofs -----------------------------
(***************************************************************************)
(* Proofs about Pipe, for any number of readers and writers, slices of any *)
(* length up to MaxLen and any MaxLen.                                     *)
(***************************************************************************)
EXTENDS Pipe, TLAPS

USE DEF Lens, Errors

\* The initial pipe satisfies the inductive invariant.
LEMMA InitIInv == Init => IInv
<1> SUFFICES ASSUME Init PROVE IInv
  OBVIOUS
<1>1. Flags
  BY Zenon DEF Init, Flags, RD!Init, WD!Init
<1>2. TypeOK
  BY <1>1, BoundAssumption DEF Init, TypeOK, RD!Init, WD!Init
<1>3. DeliveredInOrder /\ ReportedIsDelivered /\ Progress /\ WithinSlice
  BY BoundAssumption DEF Init, DeliveredInOrder, ReportedIsDelivered, Progress, WithinSlice
<1>4. AnswerIsOwed /\ WritesAreSerial
  BY NoneAssumption DEF Init, AnswerIsOwed, WritesAreSerial
<1> QED
  BY <1>2, <1>3, <1>4 DEF IInv

\* How many bytes a Read copies: no more than its own slice, no more than what is
\* left of the writer's.
LEMMA CopiedBound ==
  ASSUME TypeOK, WithinSlice, NEW r \in Readers, NEW w \in Writers
  PROVE  copied(r, w) \in Lens /\ off[w] + copied(r, w) <= wlen[w]
                              /\ off[w] + copied(r, w) \in Lens
  BY BoundAssumption DEF TypeOK, WithinSlice, copied

\* done and the states of the deadlines stay Boolean.
LEMMA NextFlags == Flags /\ [Next]_vars => Flags'
<1> SUFFICES ASSUME Flags, [Next]_vars PROVE Flags'
  OBVIOUS
<1> USE DEF Flags, vars, closeState, deadlines, readDeadline, writeDeadline
<1>1. ASSUME NEW r \in Readers, ReadRefused(r) \/ ReadAbort(r) \/ \E n \in Lens : ReadEnter(r, n)
      PROVE Flags'
  BY <1>1, Zenon DEF ReadRefused, ReadAbort, ReadExpired, ReadEnter
<1>2. ASSUME NEW w \in Writers, WriteRefused(w) \/ WriteLock(w) \/ WriteAbort(w)
                                \/ \E n \in Lens : WriteEnter(w, n)
      PROVE Flags'
  BY <1>2, Zenon DEF WriteRefused, WriteLock, LockFree, WriteAbort, WriteEnter
<1>3. ASSUME NEW r \in Readers, NEW w \in Writers, Transfer(r, w) \/ Acknowledge(r, w)
      PROVE Flags'
  BY <1>3, Zenon DEF Transfer, Acknowledge, rest
<1>4. ASSUME closeRead \/ closeWrite PROVE Flags'
  BY <1>4, Zenon DEF closeRead, closeWrite
<1>5. ASSUME SetReadDeadline \/ SetWriteDeadline \/ DeadlineFires PROVE Flags'
  BY <1>5, Zenon DEF SetReadDeadline, SetWriteDeadline, DeadlineFires,
      RD!Set, RD!SetNone, RD!SetFuture, RD!SetPast, RD!Reopen, RD!Fire,
      WD!Set, WD!SetNone, WD!SetFuture, WD!SetPast, WD!Reopen, WD!Fire
<1>6. CASE UNCHANGED vars
  BY <1>6, Zenon
<1> QED
  BY <1>1, <1>2, <1>3, <1>4, <1>5, <1>6, Zenon DEF Next

\* The type of everything else is preserved.
LEMMA NextType == IInv /\ [Next]_vars => TypeOK'
<1> SUFFICES ASSUME IInv, [Next]_vars PROVE TypeOK'
  OBVIOUS
<1> USE BoundAssumption, NextFlags DEF TypeOK, vars, closeState, deadlines,
      readDeadline, writeDeadline, readSide, writeSide
<1>0. Flags' /\ TypeOK /\ WithinSlice
  BY Zenon DEF IInv
<1>1. ASSUME NEW r \in Readers, NEW n \in Lens, ReadEnter(r, n) PROVE TypeOK'
  BY <1>0, <1>1 DEF ReadEnter
<1>2. ASSUME NEW r \in Readers, ReadRefused(r) PROVE TypeOK'
  BY <1>0, <1>2 DEF ReadRefused, readCloseError
<1>3. ASSUME NEW r \in Readers, ReadAbort(r) PROVE TypeOK'
  BY <1>0, <1>3 DEF ReadAbort, ReadExpired, readCloseError
<1>4. ASSUME NEW w \in Writers, NEW n \in Lens, WriteEnter(w, n) PROVE TypeOK'
  BY <1>0, <1>4 DEF WriteEnter
<1>5. ASSUME NEW w \in Writers, WriteRefused(w) PROVE TypeOK'
  BY <1>0, <1>5 DEF WriteRefused, writeCloseError
<1>6. ASSUME NEW w \in Writers, WriteLock(w) PROVE TypeOK'
  BY <1>0, <1>6 DEF WriteLock, LockFree
<1>7. ASSUME NEW w \in Writers, WriteAbort(w) PROVE TypeOK'
  BY <1>0, <1>7 DEF WriteAbort, writeCloseError
<1>8. ASSUME NEW r \in Readers, NEW w \in Writers, Transfer(r, w) PROVE TypeOK'
  BY <1>0, <1>8, CopiedBound DEF Transfer
<1>9. ASSUME NEW r \in Readers, NEW w \in Writers, Acknowledge(r, w) PROVE TypeOK'
  <2>1. off[w] + nr[r] \in Lens
    BY <1>9, <1>0 DEF IInv, AnswerIsOwed, WritesAreSerial, Progress, Acknowledge, rest
  <2> QED
    BY <1>0, <1>9, <2>1 DEF Acknowledge, rest
<1>10. ASSUME closeRead \/ closeWrite PROVE TypeOK'
  BY <1>0, <1>10 DEF closeRead, closeWrite, Store
<1>11. ASSUME SetReadDeadline PROVE TypeOK'
  BY <1>0, <1>11 DEF SetReadDeadline, RD!Set, RD!SetNone, RD!SetFuture, RD!SetPast, RD!Reopen
<1>12. ASSUME SetWriteDeadline PROVE TypeOK'
  BY <1>0, <1>12 DEF SetWriteDeadline, WD!Set, WD!SetNone, WD!SetFuture, WD!SetPast, WD!Reopen
<1>13. ASSUME DeadlineFires PROVE TypeOK'
  BY <1>0, <1>13 DEF DeadlineFires, RD!Fire, WD!Fire
<1>14. CASE UNCHANGED vars
  BY <1>0, <1>14
<1> QED
  BY <1>1, <1>2, <1>3, <1>4, <1>5, <1>6, <1>7, <1>8, <1>9, <1>10, <1>11, <1>12,
     <1>13, <1>14 DEF Next

-----------------------------------------------------------------------------
\* Every step keeps the hand-over protocol: the mutex, who owes an answer to whom,
\* and how much each side believes has been taken.
LEMMA NextHandover ==
  IInv /\ [Next]_vars =>
     /\ DeliveredInOrder' /\ ReportedIsDelivered' /\ AnswerIsOwed'
     /\ WritesAreSerial' /\ Progress' /\ WithinSlice'
<1> DEFINE Handover == /\ DeliveredInOrder /\ ReportedIsDelivered /\ AnswerIsOwed
                       /\ WritesAreSerial /\ Progress /\ WithinSlice
<1> SUFFICES ASSUME IInv, [Next]_vars PROVE Handover'
  OBVIOUS
<1> USE BoundAssumption, NoneAssumption
    DEF IInv, TypeOK, DeliveredInOrder, ReportedIsDelivered, AnswerIsOwed, WritesAreSerial,
        Progress, WithinSlice, vars, readSide, writeSide
<1>1. ASSUME NEW r \in Readers, NEW n \in Lens, ReadEnter(r, n) PROVE Handover'
  BY <1>1 DEF ReadEnter
<1>2. ASSUME NEW r \in Readers, ReadRefused(r) PROVE Handover'
  BY <1>2 DEF ReadRefused
<1>3. ASSUME NEW r \in Readers, ReadAbort(r) PROVE Handover'
  BY <1>3 DEF ReadAbort, ReadExpired
<1>4. ASSUME NEW w \in Writers, NEW n \in Lens, WriteEnter(w, n) PROVE Handover'
  BY <1>4 DEF WriteEnter
<1>5. ASSUME NEW w \in Writers, WriteRefused(w) PROVE Handover'
  BY <1>5 DEF WriteRefused
<1>6. ASSUME NEW w \in Writers, WriteLock(w) PROVE Handover'
  BY <1>6 DEF WriteLock, LockFree
<1>7. ASSUME NEW w \in Writers, WriteAbort(w) PROVE Handover'
  BY <1>7 DEF WriteAbort
<1>8. ASSUME NEW r \in Readers, NEW w \in Writers, Transfer(r, w) PROVE Handover'
  <2>1. /\ copied(r, w) \in Lens
        /\ off[w] + copied(r, w) <= wlen[w]
        /\ off[w] = taken[w]
    BY <1>8, CopiedBound DEF Transfer
  <2>2. \A s \in Readers : rpc[s] # "ack"
    BY <1>8 DEF Transfer
  <2>3. \A v \in Writers : wpc[v] # "ack"
    BY <2>2
  <2>4. ~InsideAnother(w)
    BY <1>8 DEF Transfer, InsideAnother
  <2>5. DeliveredInOrder' /\ WithinSlice' /\ ReportedIsDelivered'
    BY <1>8, <2>1, <2>3, <2>4 DEF Transfer
  <2>6. AnswerIsOwed' /\ WritesAreSerial'
    BY <1>8, <2>2, <2>3 DEF Transfer
  <2>7. Progress'
    BY <1>8, <2>1, <2>2 DEF Transfer
  <2> QED
    BY <2>5, <2>6, <2>7
<1>9. ASSUME NEW r \in Readers, NEW w \in Writers, Acknowledge(r, w) PROVE Handover'
  <2>1. from[r] = w /\ wrMu = w
    BY <1>9 DEF Acknowledge, rest
  <2>2. off[w] + nr[r] = taken[w]
    BY <1>9, <2>1 DEF Acknowledge, rest
  <2>3. \A s \in Readers : rpc'[s] # "ack"
    BY <1>9 DEF Acknowledge, rest
  <2>4. \A v \in Writers : v # w => wpc[v] \notin {"offer", "ack"} /\ wpc'[v] = wpc[v]
    BY <1>9, <2>1 DEF Acknowledge, rest
  <2>5. DeliveredInOrder' /\ WithinSlice' /\ ReportedIsDelivered'
    BY <1>9, <2>2, <2>4 DEF Acknowledge, rest
  <2>6. AnswerIsOwed' /\ WritesAreSerial'
    BY <1>9, <2>1, <2>3, <2>4 DEF Acknowledge, rest
  <2>7. Progress'
    BY <2>3
  <2> QED
    BY <2>5, <2>6, <2>7
<1>10. ASSUME closeRead \/ closeWrite PROVE Handover'
  BY <1>10 DEF closeRead, closeWrite
<1>11. ASSUME SetReadDeadline \/ SetWriteDeadline \/ DeadlineFires PROVE Handover'
  BY <1>11 DEF SetReadDeadline, SetWriteDeadline, DeadlineFires
<1>12. CASE UNCHANGED vars
  BY <1>12
<1> HIDE DEF Handover
<1> QED
  BY <1>1, <1>2, <1>3, <1>4, <1>5, <1>6, <1>7, <1>8, <1>9, <1>10, <1>11, <1>12, Zenon DEF Next

\* IInv is an invariant of the pipe.
THEOREM InvariantHolds == Spec => []IInv
<1>1. IInv /\ [Next]_vars => IInv'
  BY NextType, NextHandover DEF IInv
<1> QED
  BY InitIInv, <1>1, PTL DEF Spec

\* The types of the pipe's state, for every number of goroutines.
THEOREM TypeCorrect == Spec => []TypeOK
<1>1. IInv => TypeOK
  BY DEF IInv
<1> QED
  BY InvariantHolds, <1>1, PTL

\* No byte of a Write is delivered twice or skipped, for every number of goroutines and
\* every slice length.
THEOREM BytesAreDeliveredOnce == Spec => []DeliveredInOrder
<1>1. IInv => DeliveredInOrder
  BY DEF IInv
<1> QED
  BY InvariantHolds, <1>1, PTL

\* What a Write reports is what readers were given.
THEOREM WritesReportDeliveries == Spec => []ReportedIsDelivered
<1>1. IInv => ReportedIsDelivered
  BY DEF IInv
<1> QED
  BY InvariantHolds, <1>1, PTL

\* The waits on rdCh, which nothing can interrupt, always have a partner.
THEOREM AnswersAreOwed == Spec => []AnswerIsOwed
<1>1. IInv => AnswerIsOwed
  BY DEF IInv
<1> QED
  BY InvariantHolds, <1>1, PTL
=============================================================================
