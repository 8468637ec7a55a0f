--------------------------- MODULE TransportProofs ---------------------------
(***************************************************************************)
(* Theorems about Transport, for every value of its constants.             *)
(*                                                                         *)
(* The safety properties are not inductive as they stand.  IInv adds what  *)
(* the threads have established at each program counter: who owns a mutex  *)
(* and what was found under it (Locking), which threads are over once main *)
(* is past each join (Ending), and that nothing numbered beyond what the   *)
(* client wrote exists before the end of the stream (Numbering).           *)
(***************************************************************************)
EXTENDS Transport, SequenceFacts

Locking ==
    /\ rxOwner = "main" <=> pc.main \in {"test", "block", "take"}
    /\ txOwner = "writer" <=> pc.writer = "write"
    /\ pc.writer = "write" => outbox # <<>>
    /\ pc.main \in {"send", "rewatch"} => toSend # 0
    /\ pc.main = "block" => inbox = <<>>
    /\ pc.main = "take" => inbox # <<>> \/ IsClosed

Ending ==
    /\ stopReq => pc.main \in {"joinWriter", "joinReader", "end"}
    /\ pc.reader \in {"close", "closeNotify", "done"} => eof \/ stopReq
    /\ pc.main \in {"stop", "joinWriter", "joinReader", "end"}
         => pc.watcher \in {"off", "done"}
    /\ pc.main \in {"joinReader", "end"} => pc.writer = "done"
    /\ pc.main = "end" => pc.reader = "done"

Numbering ==
    /\ eof => ~streamOpen /\ wire = <<>> /\ pc.reader # "peek"
    /\ ~eof => /\ last <= written
               /\ \A i \in 1 .. Len(inbox) : inbox[i].num <= written
               /\ pc.reader = "push" => hand.num <= written

IInv ==
    /\ TypeOK /\ Locking /\ NoSleepOnMessage
    /\ Ending /\ CloseHasCause
    /\ NothingLost /\ Numbering /\ InOrder
    /\ RepliesInOrder

-----------------------------------------------------------------------------
(* A message get() returns is one of the inbox.                              *)
LEMMA DeliverTypes ==
    ASSUME TypeOK, inbox # <<>>, Deliver
    PROVE  /\ inbox' \in Seq(Message) /\ current' \in Message
           /\ delivered' \in Nat /\ last' \in Nat
<1>1. inbox \in Seq(Message) /\ delivered \in Nat
  BY DEF TypeOK
<1>2. Head(inbox) \in Message /\ Tail(inbox) \in Seq(Message)
  BY <1>1, TailFacts
<1>3. Head(inbox).num \in Nat
  BY <1>2 DEF Message
<1>4. QED
  BY <1>1, <1>2, <1>3 DEF Deliver

(* Every step keeps the variables in their types.                           *)
LEMMA TypeStep == IInv /\ [Next]_vars => TypeOK'
<1> SUFFICES ASSUME IInv, [Next]_vars
             PROVE  TypeOK'
  OBVIOUS
<1> USE ServerAssumption DEF IInv, data, conn, input, output,
         medium, taken, tx, session
<1>1. ASSUME NEW k \in ClientKinds, ClientWrite(k)
       PROVE  TypeOK'
  <2>1. pc' \in PCs
    BY <1>1 DEF TypeOK, PCs, Serving, Goto, NotifyGoto, ClientWrite
  <2>2. [num |-> written + 1, kind |-> k] \in Message
    BY ClientAssumption DEF TypeOK, Message
  <2>3. QED
    BY <1>1, <2>1, <2>2 DEF TypeOK, ClientWrite
<1>2. CASE ClientRead
  <2>1. pc' \in PCs
    BY <1>2 DEF TypeOK, PCs, Serving, Goto, NotifyGoto, ClientRead
  <2>2. QED
    BY <1>2, <2>1 DEF TypeOK, ClientRead
<1>3. CASE ClientDisconnect
  <2>1. pc' \in PCs
    BY <1>3 DEF TypeOK, PCs, Serving, Goto, NotifyGoto, ClientDisconnect
  <2>2. /\ streamOpen' \in BOOLEAN
        /\ UNCHANGED <<pidAlive, input, output, medium, inbox, hand, taken, tx,
                       rxOwner, txOwner, session>>
    BY <1>3 DEF ClientDisconnect
  <2>3. QED
    BY <2>1, <2>2 DEF TypeOK
<1>4. CASE ClientDie
  <2>1. pc' \in PCs
    BY <1>4 DEF TypeOK, PCs, Serving, Goto, NotifyGoto, ClientDie
  <2>2. /\ streamOpen' \in BOOLEAN /\ pidAlive' \in BOOLEAN
        /\ UNCHANGED <<input, output, medium, inbox, hand, taken, tx, rxOwner,
                       txOwner, session>>
    BY <1>4 DEF TypeOK, ClientDie
  <2>3. QED
    BY <2>1, <2>2 DEF TypeOK
<1>5. CASE ReaderPoll
  <2>1. pc' \in PCs
    BY <1>5 DEF TypeOK, PCs, Serving, Goto, NotifyGoto, ReaderPoll
  <2>2. QED
    BY <1>5, <2>1 DEF TypeOK, ReaderPoll
<1>6. CASE ReaderFrame
  <2>1. pc' \in PCs
    BY <1>6 DEF TypeOK, PCs, Serving, Goto, NotifyGoto, ReaderFrame
  <2>2. QED
    BY <1>6, <2>1 DEF TypeOK, ReaderFrame
<1>7. ASSUME NEW n \in 1 .. Len(wire), ReaderFlush(n)
       PROVE  TypeOK'
  <2>1. pc' \in PCs
    BY <1>7 DEF TypeOK, PCs, Serving, Goto, NotifyGoto, ReaderFlush, AfterFlush
  <2>2. QED
    BY <1>7, <2>1 DEF TypeOK, ReaderFlush, AfterFlush
<1>8. CASE ReaderEof
  <2>1. pc' \in PCs
    BY <1>8 DEF TypeOK, PCs, Serving, Goto, NotifyGoto, ReaderEof, EofExit
  <2>2. EofExit \in Message
    BY DEF TypeOK, EofExit, Message, Kinds
  <2>3. QED
    BY <1>8, <2>1, <2>2 DEF TypeOK, ReaderEof
<1>9. CASE ReaderStopped
  <2>1. pc' \in PCs
    BY <1>9 DEF TypeOK, PCs, Serving, Goto, NotifyGoto, ReaderStopped
  <2>2. QED
    BY <1>9, <2>1 DEF TypeOK, ReaderStopped
<1>10. CASE ReaderPush
  <2>1. pc' \in PCs
    BY <1>10 DEF TypeOK, PCs, Serving, Goto, NotifyGoto, ReaderPush, CanPush, None
  <2>2. None \in Message
    BY DEF None, Message, Kinds
  <2>3. QED
    BY <1>10, <2>1, <2>2 DEF TypeOK, ReaderPush
<1>11. CASE ReaderNotify
  <2>1. pc' \in PCs
    BY <1>11 DEF TypeOK, PCs, Serving, Goto, NotifyGoto, ReaderNotify
  <2>2. QED
    BY <1>11, <2>1 DEF TypeOK, ReaderNotify
<1>12. CASE ReaderClose
  <2>1. pc' \in PCs
    BY <1>12 DEF TypeOK, PCs, Serving, Goto, NotifyGoto, ReaderClose
  <2>2. QED
    BY <1>12, <2>1 DEF TypeOK, ReaderClose
<1>13. CASE ReaderCloseNotify
  <2>1. pc' \in PCs
    BY <1>13 DEF TypeOK, PCs, Serving, Goto, NotifyGoto, ReaderCloseNotify
  <2>2. QED
    BY <1>13, <2>1 DEF TypeOK, ReaderCloseNotify
<1>14. CASE WriterLock
  <2>1. pc' \in PCs
    BY <1>14 DEF TypeOK, PCs, Serving, Goto, NotifyGoto, WriterLock, HasOutput
  <2>2. QED
    BY <1>14, <2>1 DEF TypeOK, WriterLock, HasOutput
<1>15. CASE WriterWrite
  <2>1. pc' \in PCs
    BY <1>15 DEF TypeOK, PCs, Serving, Goto, NotifyGoto, WriterWrite, Discards
  <2>2. Head(outbox) \in Nat /\ Tail(outbox) \in Seq(Nat)
    BY <1>15, TailFacts DEF TypeOK, Locking, Goto, WriterWrite
  <2>3. Append(pipe, Head(outbox)) \in Seq(Nat)
    BY <2>2, AppendFacts DEF TypeOK
  <2>4. /\ pipe' \in Seq(Nat) /\ outbox' \in Seq(Nat) /\ txOwner' = "none"
        /\ UNCHANGED <<conn, input, received, medium, inbox, hand, taken, sent,
                       toSend, rxOwner, session>>
    BY <1>15, <2>2, <2>3 DEF TypeOK, WriterWrite
  <2>5. QED
    BY <2>1, <2>4 DEF TypeOK
<1>16. CASE WriterStopped
  <2>1. pc' \in PCs
    BY <1>16 DEF TypeOK, PCs, Serving, Goto, NotifyGoto, WriterStopped
  <2>2. QED
    BY <1>16, <2>1 DEF TypeOK, WriterStopped
<1>17. CASE RunLoop
  <2>1. pc' \in PCs
    BY <1>17 DEF TypeOK, PCs, Serving, Goto, NotifyGoto, RunLoop
  <2>2. QED
    BY <1>17, <2>1 DEF TypeOK, RunLoop
<1>18. CASE GetEnter
  <2>1. pc' \in PCs
    BY <1>18 DEF TypeOK, PCs, Serving, Goto, NotifyGoto, GetEnter
  <2>2. QED
    BY <1>18, <2>1 DEF TypeOK, GetEnter
<1>19. CASE GetPop
  <2>1. pc' \in PCs
    BY <1>19 DEF TypeOK, PCs, Serving, Goto, NotifyGoto, GetPop, Deliver
  <2>2. \/ inbox # <<>> /\ Deliver
        \/ UNCHANGED <<inbox, current, delivered, last>>
    BY <1>19 DEF GetPop
  <2>3. inbox' \in Seq(Message) /\ current' \in Message
          /\ delivered' \in Nat /\ last' \in Nat
    BY <2>2, DeliverTypes DEF TypeOK
  <2>4. QED
    BY <1>19, <2>1, <2>3 DEF TypeOK, GetPop
<1>20. CASE GetLock
  <2>1. pc' \in PCs
    BY <1>20 DEF TypeOK, PCs, Serving, Goto, NotifyGoto, GetLock
  <2>2. QED
    BY <1>20, <2>1 DEF TypeOK, GetLock
<1>21. CASE GetTest
  <2>1. pc' \in PCs
    BY <1>21 DEF TypeOK, PCs, Serving, Goto, NotifyGoto, GetTest, WaitOver
  <2>2. QED
    BY <1>21, <2>1 DEF TypeOK, GetTest, WaitOver
<1>22. CASE GetBlock
  <2>1. pc' \in PCs
    BY <1>22 DEF TypeOK, PCs, Serving, Goto, NotifyGoto, GetBlock
  <2>2. QED
    BY <1>22, <2>1 DEF TypeOK, GetBlock
<1>23. CASE SpuriousWake
  <2>1. pc' \in PCs
    BY <1>23 DEF TypeOK, PCs, Serving, Goto, NotifyGoto, SpuriousWake
  <2>2. QED
    BY <1>23, <2>1 DEF TypeOK, SpuriousWake
<1>24. CASE GetTake
  <2>1. pc' \in PCs
    BY <1>24 DEF TypeOK, PCs, Serving, Goto, NotifyGoto, GetTake, Deliver, Throws
  <2>2. \/ inbox # <<>> /\ Deliver
        \/ UNCHANGED <<inbox, current, delivered, last>>
    BY <1>24 DEF Locking, Goto, Throws, GetTake
  <2>3. inbox' \in Seq(Message) /\ current' \in Message
          /\ delivered' \in Nat /\ last' \in Nat
    BY <2>2, DeliverTypes DEF TypeOK
  <2>4. QED
    BY <1>24, <2>1, <2>3 DEF TypeOK, GetTake
<1>25. CASE HandleRefused
  <2>1. pc' \in PCs
    BY <1>25 DEF TypeOK, PCs, Serving, Goto, NotifyGoto, HandleRefused, Refusals
  <2>2. QED
    BY <1>25, <2>1 DEF TypeOK, HandleRefused, Refusals
<1>25a. CASE HandleQuietly
  <2>1. pc' \in PCs
    BY <1>25a DEF TypeOK, PCs, Serving, Goto, NotifyGoto, HandleQuietly
  <2>2. QED
    BY <1>25a, <2>1 DEF TypeOK, HandleQuietly
<1>26. ASSUME NEW withPid \in BOOLEAN, HandleInitialize(withPid)
       PROVE  TypeOK'
  <2>1. pc' \in PCs
    <3>1. \/ pc' = [pc EXCEPT !.main = "rewatch"]
          \/ pc' = [pc EXCEPT !.main = "send", !.watcher = "watch"]
          \/ pc' = [pc EXCEPT !.main = "send", !.watcher = pc.watcher]
      BY <1>26 DEF HandleInitialize
    <3>2. QED
      BY <3>1 DEF TypeOK, PCs, Serving
  <2>2. /\ initialized' = TRUE /\ toSend' = 1
        /\ watchStop' \in BOOLEAN
        /\ UNCHANGED <<conn, input, output, medium, inbox, hand, taken, outbox,
                       sent, rxOwner, txOwner, stopping, stopped>>
    BY <1>26 DEF TypeOK, HandleInitialize
  <2>3. QED
    BY <2>1, <2>2 DEF TypeOK
<1>27. CASE HandleRewatch
  <2>1. pc' \in PCs
    BY <1>27 DEF TypeOK, PCs, Serving, Goto, NotifyGoto, HandleRewatch
  <2>2. /\ watchStop' \in BOOLEAN
        /\ UNCHANGED <<conn, input, output, medium, inbox, hand, taken, tx,
                       rxOwner, txOwner, initialized, stopping, stopped>>
    BY <1>27 DEF HandleRewatch
  <2>3. QED
    BY <2>1, <2>2 DEF TypeOK
<1>28. ASSUME NEW n \in 1 .. Burst, HandleRequest(n)
       PROVE  TypeOK'
  <2>1. pc' \in PCs
    BY <1>28 DEF TypeOK, PCs, Serving, Goto, NotifyGoto, HandleRequest
  <2>2. QED
    BY <1>28, <2>1 DEF TypeOK, HandleRequest
<1>28a. CASE HandleShutdown
  <2>1. pc' \in PCs
    BY <1>28a DEF TypeOK, PCs, Serving, Goto, NotifyGoto, HandleShutdown
  <2>2. QED
    BY <1>28a, <2>1 DEF TypeOK, HandleShutdown
<1>29. CASE HandleExit
  <2>1. pc' \in PCs
    BY <1>29 DEF TypeOK, PCs, Serving, Goto, NotifyGoto, HandleExit
  <2>2. QED
    BY <1>29, <2>1 DEF TypeOK, HandleExit
<1>30. CASE Send
  <2>1. pc' \in PCs
    BY <1>30 DEF TypeOK, PCs, Serving, Goto, NotifyGoto, Send
  <2>2. toSend - 1 \in Nat
    BY <1>30 DEF TypeOK, Locking, Goto, Send
  <2>3. QED
    BY <1>30, <2>1, <2>2 DEF TypeOK, Send
<1>31. CASE StopWatcher
  <2>1. pc' \in PCs
    BY <1>31 DEF TypeOK, PCs, Serving, Goto, NotifyGoto, StopWatcher
  <2>2. QED
    BY <1>31, <2>1 DEF TypeOK, StopWatcher
<1>32. CASE JoinWatcher
  <2>1. pc' \in PCs
    BY <1>32 DEF TypeOK, PCs, Serving, Goto, NotifyGoto, JoinWatcher
  <2>2. QED
    BY <1>32, <2>1 DEF TypeOK, JoinWatcher
<1>33. CASE RequestStop
  <2>1. pc' \in PCs
    BY <1>33 DEF TypeOK, PCs, Serving, Goto, NotifyGoto, RequestStop
  <2>2. QED
    BY <1>33, <2>1 DEF TypeOK, RequestStop
<1>34. CASE JoinWriter
  <2>1. pc' \in PCs
    BY <1>34 DEF TypeOK, PCs, Serving, Goto, NotifyGoto, JoinWriter
  <2>2. QED
    BY <1>34, <2>1 DEF TypeOK, JoinWriter
<1>35. CASE JoinReader
  <2>1. pc' \in PCs
    BY <1>35 DEF TypeOK, PCs, Serving, Goto, NotifyGoto, JoinReader
  <2>2. QED
    BY <1>35, <2>1 DEF TypeOK, JoinReader
<1>36. CASE WatcherPoll
  <2>1. pc' \in PCs
    BY <1>36 DEF TypeOK, PCs, Serving, Goto, NotifyGoto, WatcherPoll
  <2>2. QED
    BY <1>36, <2>1 DEF TypeOK, WatcherPoll
<1>37. CASE WatcherClose
  <2>1. pc' \in PCs
    BY <1>37 DEF TypeOK, PCs, Serving, Goto, NotifyGoto, WatcherClose
  <2>2. QED
    BY <1>37, <2>1 DEF TypeOK, WatcherClose
<1>38. CASE WatcherNotify
  <2>1. pc' \in PCs
    BY <1>38 DEF TypeOK, PCs, Serving, Goto, NotifyGoto, WatcherNotify
  <2>2. QED
    BY <1>38, <2>1 DEF TypeOK, WatcherNotify
<1>39. CASE Abort
  <2>1. pc' \in PCs
    BY <1>39 DEF TypeOK, PCs, Serving, Goto, NotifyGoto, Abort
  <2>2. QED
    BY <1>39, <2>1 DEF TypeOK, Abort
<1>40. CASE AbortNotify
  <2>1. pc' \in PCs
    BY <1>40 DEF TypeOK, PCs, Serving, Goto, NotifyGoto, AbortNotify
  <2>2. QED
    BY <1>40, <2>1 DEF TypeOK, AbortNotify
<1>41. CASE UNCHANGED vars
  BY <1>41 DEF TypeOK, vars
<1>42. QED
  BY <1>1, <1>2, <1>3, <1>4, <1>5, <1>6, <1>7, <1>8, <1>9, <1>10,
     <1>11, <1>12, <1>13, <1>14, <1>15, <1>16, <1>17, <1>18, <1>19, <1>20,
     <1>21, <1>22, <1>23, <1>24, <1>25, <1>25a, <1>26, <1>27, <1>28, <1>28a, <1>29, <1>30,
     <1>31, <1>32, <1>33, <1>34, <1>35, <1>36, <1>37, <1>38, <1>39, <1>40,
     <1>41
  DEF Next, Client, Reader, Writer, Main, Get, Handle, Destroy, Watcher, Ended

(* Every step keeps the mutexes with their owners.                          *)
LEMMA LockStep == IInv /\ [Next]_vars => Locking'
<1> SUFFICES ASSUME IInv, [Next]_vars
             PROVE  Locking'
  OBVIOUS
<1> USE ServerAssumption DEF IInv, Locking, IsClosed, Goto, NotifyGoto,
        data, conn, input, output, medium, taken, tx, session
<1>1. ASSUME NEW k \in ClientKinds, ClientWrite(k)
       PROVE  Locking'
  BY <1>1 DEF TypeOK, PCs, ClientWrite
<1>2. CASE ClientRead
  BY <1>2 DEF TypeOK, PCs, ClientRead
<1>3. CASE ClientDisconnect
  BY <1>3 DEF TypeOK, PCs, ClientDisconnect
<1>4. CASE ClientDie
  BY <1>4 DEF TypeOK, PCs, ClientDie
<1>5. CASE ReaderPoll
  BY <1>5 DEF TypeOK, PCs, ReaderPoll
<1>6. CASE ReaderFrame
  BY <1>6 DEF TypeOK, PCs, ReaderFrame
<1>7. ASSUME NEW n \in 1 .. Len(wire), ReaderFlush(n)
       PROVE  Locking'
  BY <1>7 DEF TypeOK, PCs, ReaderFlush, AfterFlush
<1>8. CASE ReaderEof
  BY <1>8 DEF TypeOK, PCs, ReaderEof, EofExit
<1>9. CASE ReaderStopped
  BY <1>9 DEF TypeOK, PCs, ReaderStopped
<1>10. CASE ReaderPush
  BY <1>10 DEF TypeOK, PCs, ReaderPush, CanPush, None
<1>11. CASE ReaderNotify
  BY <1>11 DEF TypeOK, PCs, ReaderNotify
<1>12. CASE ReaderClose
  BY <1>12 DEF TypeOK, PCs, ReaderClose
<1>13. CASE ReaderCloseNotify
  BY <1>13 DEF TypeOK, PCs, ReaderCloseNotify
<1>14. CASE WriterLock
  BY <1>14 DEF TypeOK, PCs, WriterLock, HasOutput
<1>15. CASE WriterWrite
  BY <1>15 DEF TypeOK, PCs, WriterWrite, Discards
<1>16. CASE WriterStopped
  BY <1>16 DEF TypeOK, PCs, WriterStopped
<1>17. CASE RunLoop
  BY <1>17 DEF TypeOK, PCs, RunLoop
<1>18. CASE GetEnter
  BY <1>18 DEF TypeOK, PCs, GetEnter
<1>19. CASE GetPop
  BY <1>19 DEF TypeOK, PCs, GetPop, Deliver
<1>20. CASE GetLock
  BY <1>20 DEF TypeOK, PCs, GetLock
<1>21. CASE GetTest
  BY <1>21 DEF TypeOK, PCs, GetTest, WaitOver
<1>22. CASE GetBlock
  BY <1>22 DEF TypeOK, PCs, GetBlock
<1>23. CASE SpuriousWake
  BY <1>23 DEF TypeOK, PCs, SpuriousWake
<1>24. CASE GetTake
  BY <1>24 DEF TypeOK, PCs, GetTake, Deliver, Throws
<1>25. CASE HandleRefused
  BY <1>25 DEF TypeOK, PCs, HandleRefused, Refusals
<1>25a. CASE HandleQuietly
  BY <1>25a DEF TypeOK, PCs, HandleQuietly
<1>26. ASSUME NEW withPid \in BOOLEAN, HandleInitialize(withPid)
       PROVE  Locking'
  <2>1. toSend' = 1 /\ pc'.main \in {"send", "rewatch"} /\ pc'.writer = pc.writer
    BY <1>26 DEF TypeOK, PCs, HandleInitialize
  <2>2. pc.main = "handle" /\ UNCHANGED <<rxOwner, txOwner, inbox, outbox, closed, aborted>>
    BY <1>26 DEF HandleInitialize
  <2>3. QED
    BY <2>1, <2>2
<1>27. CASE HandleRewatch
  BY <1>27 DEF TypeOK, PCs, HandleRewatch
<1>28. ASSUME NEW n \in 1 .. Burst, HandleRequest(n)
       PROVE  Locking'
  BY <1>28 DEF TypeOK, PCs, HandleRequest
<1>28a. CASE HandleShutdown
  BY <1>28a DEF TypeOK, PCs, HandleShutdown
<1>29. CASE HandleExit
  BY <1>29 DEF TypeOK, PCs, HandleExit
<1>30. CASE Send
  BY <1>30 DEF TypeOK, PCs, Send
<1>31. CASE StopWatcher
  BY <1>31 DEF TypeOK, PCs, StopWatcher
<1>32. CASE JoinWatcher
  BY <1>32 DEF TypeOK, PCs, JoinWatcher
<1>33. CASE RequestStop
  BY <1>33 DEF TypeOK, PCs, RequestStop
<1>34. CASE JoinWriter
  BY <1>34 DEF TypeOK, PCs, JoinWriter
<1>35. CASE JoinReader
  BY <1>35 DEF TypeOK, PCs, JoinReader
<1>36. CASE WatcherPoll
  BY <1>36 DEF TypeOK, PCs, WatcherPoll
<1>37. CASE WatcherClose
  BY <1>37 DEF TypeOK, PCs, WatcherClose
<1>38. CASE WatcherNotify
  BY <1>38 DEF TypeOK, PCs, WatcherNotify
<1>39. CASE Abort
  BY <1>39 DEF TypeOK, PCs, Abort
<1>40. CASE AbortNotify
  BY <1>40 DEF TypeOK, PCs, AbortNotify
<1>41. CASE UNCHANGED vars
  BY <1>41 DEF TypeOK, PCs, vars
<1>42. QED
  BY <1>1, <1>2, <1>3, <1>4, <1>5, <1>6, <1>7, <1>8, <1>9, <1>10,
     <1>11, <1>12, <1>13, <1>14, <1>15, <1>16, <1>17, <1>18, <1>19, <1>20,
     <1>21, <1>22, <1>23, <1>24, <1>25, <1>25a, <1>26, <1>27, <1>28, <1>28a, <1>29, <1>30,
     <1>31, <1>32, <1>33, <1>34, <1>35, <1>36, <1>37, <1>38, <1>39, <1>40,
     <1>41
  DEF Next, Client, Reader, Writer, Main, Get, Handle, Destroy, Watcher, Ended

(* No step puts main to sleep on a message or leaves it asleep on one.      *)
LEMMA SleepStep == IInv /\ [Next]_vars => NoSleepOnMessage'
<1> SUFFICES ASSUME IInv, [Next]_vars
             PROVE  NoSleepOnMessage'
  OBVIOUS
<1> USE DEF IInv, NoSleepOnMessage, Goto, NotifyGoto, data, conn, input,
        output, medium, taken, tx, session
<1>1. ASSUME NEW k \in ClientKinds, ClientWrite(k)
       PROVE  NoSleepOnMessage'
  BY <1>1 DEF TypeOK, PCs, Locking, ClientWrite
<1>2. CASE ClientRead
  BY <1>2 DEF TypeOK, PCs, Locking, ClientRead
<1>3. CASE ClientDisconnect
  BY <1>3 DEF TypeOK, PCs, Locking, ClientDisconnect
<1>4. CASE ClientDie
  BY <1>4 DEF TypeOK, PCs, Locking, ClientDie
<1>5. CASE ReaderPoll
  BY <1>5 DEF TypeOK, PCs, Locking, ReaderPoll
<1>6. CASE ReaderFrame
  BY <1>6 DEF TypeOK, PCs, Locking, ReaderFrame
<1>7. ASSUME NEW n \in 1 .. Len(wire), ReaderFlush(n)
       PROVE  NoSleepOnMessage'
  BY <1>7 DEF TypeOK, PCs, Locking, ReaderFlush, AfterFlush
<1>8. CASE ReaderEof
  BY <1>8 DEF TypeOK, PCs, Locking, ReaderEof, EofExit
<1>9. CASE ReaderStopped
  BY <1>9 DEF TypeOK, PCs, Locking, ReaderStopped
<1>10. CASE ReaderPush
  BY <1>10 DEF TypeOK, PCs, Locking, ReaderPush, CanPush, None
<1>11. CASE ReaderNotify
  BY <1>11 DEF TypeOK, PCs, Locking, ReaderNotify
<1>12. CASE ReaderClose
  BY <1>12 DEF TypeOK, PCs, Locking, ReaderClose
<1>13. CASE ReaderCloseNotify
  BY <1>13 DEF TypeOK, PCs, Locking, ReaderCloseNotify
<1>14. CASE WriterLock
  BY <1>14 DEF TypeOK, PCs, Locking, WriterLock, HasOutput
<1>15. CASE WriterWrite
  BY <1>15 DEF TypeOK, PCs, Locking, WriterWrite, Discards
<1>16. CASE WriterStopped
  BY <1>16 DEF TypeOK, PCs, Locking, WriterStopped
<1>17. CASE RunLoop
  BY <1>17 DEF TypeOK, PCs, Locking, RunLoop
<1>18. CASE GetEnter
  BY <1>18 DEF TypeOK, PCs, Locking, GetEnter
<1>19. CASE GetPop
  BY <1>19 DEF TypeOK, PCs, Locking, GetPop, Deliver
<1>20. CASE GetLock
  BY <1>20 DEF TypeOK, PCs, Locking, GetLock
<1>21. CASE GetTest
  BY <1>21 DEF TypeOK, PCs, Locking, GetTest, WaitOver
<1>22. CASE GetBlock
  BY <1>22 DEF TypeOK, PCs, Locking, GetBlock
<1>23. CASE SpuriousWake
  BY <1>23 DEF TypeOK, PCs, Locking, SpuriousWake
<1>24. CASE GetTake
  BY <1>24 DEF TypeOK, PCs, Locking, GetTake, Deliver, Throws
<1>25. CASE HandleRefused
  BY <1>25 DEF TypeOK, PCs, Locking, HandleRefused, Refusals
<1>25a. CASE HandleQuietly
  BY <1>25a DEF TypeOK, PCs, Locking, HandleQuietly
<1>26. ASSUME NEW withPid \in BOOLEAN, HandleInitialize(withPid)
       PROVE  NoSleepOnMessage'
  BY <1>26 DEF TypeOK, PCs, Locking, HandleInitialize
<1>27. CASE HandleRewatch
  BY <1>27 DEF TypeOK, PCs, Locking, HandleRewatch
<1>28. ASSUME NEW n \in 1 .. Burst, HandleRequest(n)
       PROVE  NoSleepOnMessage'
  BY <1>28 DEF TypeOK, PCs, Locking, HandleRequest
<1>28a. CASE HandleShutdown
  BY <1>28a DEF TypeOK, PCs, Locking, HandleShutdown
<1>29. CASE HandleExit
  BY <1>29 DEF TypeOK, PCs, Locking, HandleExit
<1>30. CASE Send
  BY <1>30 DEF TypeOK, PCs, Locking, Send
<1>31. CASE StopWatcher
  BY <1>31 DEF TypeOK, PCs, Locking, StopWatcher
<1>32. CASE JoinWatcher
  BY <1>32 DEF TypeOK, PCs, Locking, JoinWatcher
<1>33. CASE RequestStop
  BY <1>33 DEF TypeOK, PCs, Locking, RequestStop
<1>34. CASE JoinWriter
  BY <1>34 DEF TypeOK, PCs, Locking, JoinWriter
<1>35. CASE JoinReader
  BY <1>35 DEF TypeOK, PCs, Locking, JoinReader
<1>36. CASE WatcherPoll
  BY <1>36 DEF TypeOK, PCs, Locking, WatcherPoll
<1>37. CASE WatcherClose
  BY <1>37 DEF TypeOK, PCs, Locking, WatcherClose
<1>38. CASE WatcherNotify
  BY <1>38 DEF TypeOK, PCs, Locking, WatcherNotify
<1>39. CASE Abort
  BY <1>39 DEF TypeOK, PCs, Locking, Abort
<1>40. CASE AbortNotify
  BY <1>40 DEF TypeOK, PCs, Locking, AbortNotify
<1>41. CASE UNCHANGED vars
  BY <1>41 DEF TypeOK, PCs, Locking, vars
<1>42. QED
  BY <1>1, <1>2, <1>3, <1>4, <1>5, <1>6, <1>7, <1>8, <1>9, <1>10,
     <1>11, <1>12, <1>13, <1>14, <1>15, <1>16, <1>17, <1>18, <1>19, <1>20,
     <1>21, <1>22, <1>23, <1>24, <1>25, <1>25a, <1>26, <1>27, <1>28, <1>28a, <1>29, <1>30,
     <1>31, <1>32, <1>33, <1>34, <1>35, <1>36, <1>37, <1>38, <1>39, <1>40,
     <1>41
  DEF Next, Client, Reader, Writer, Main, Get, Handle, Destroy, Watcher, Ended

(* The notification of abort() moves nobody but its caller and main.        *)
LEMMA AbortNotifyFacts ==
    ASSUME pc \in PCs, AbortNotify
    PROVE  /\ pc'.reader = pc.reader /\ pc'.writer = pc.writer /\ pc'.watcher = pc.watcher
           /\ pc'.main = pc.main \/ (pc.main = "asleep" /\ pc'.main = "woken")
           /\ UNCHANGED <<stopReq, eof, closed>>
<1>1. pc'.reader = pc.reader /\ pc'.writer = pc.writer /\ pc'.watcher = pc.watcher
  BY ZenonT(30) DEF AbortNotify, NotifyGoto, PCs
<1>2. pc'.main = IF pc.main = "asleep" THEN "woken" ELSE pc.main
  BY ZenonT(30) DEF AbortNotify, NotifyGoto, PCs
<1>3. UNCHANGED <<stopReq, eof, closed>>
  BY DEF AbortNotify, data, medium
<1>4. pc'.main = pc.main \/ (pc.main = "asleep" /\ pc'.main = "woken")
  BY <1>2
<1>5. QED
  BY <1>1, <1>3, <1>4

(* Threads end in the order of the joins, and nothing else closes.          *)
LEMMA EndStep == IInv /\ [Next]_vars => (Ending /\ CloseHasCause)'
<1> SUFFICES ASSUME IInv, [Next]_vars
             PROVE  (Ending /\ CloseHasCause)'
  OBVIOUS
<1> USE DEF IInv, Ending, CloseHasCause, Serving, Goto, NotifyGoto, data,
        conn, input, output, medium, taken, tx, session
<1>1. ASSUME NEW k \in ClientKinds, ClientWrite(k)
       PROVE  (Ending /\ CloseHasCause)'
  BY <1>1 DEF TypeOK, PCs, ClientWrite
<1>2. CASE ClientRead
  BY <1>2 DEF TypeOK, PCs, ClientRead
<1>3. CASE ClientDisconnect
  BY <1>3 DEF TypeOK, PCs, ClientDisconnect
<1>4. CASE ClientDie
  BY <1>4 DEF TypeOK, PCs, ClientDie
<1>5. CASE ReaderPoll
  BY <1>5 DEF TypeOK, PCs, ReaderPoll
<1>6. CASE ReaderFrame
  BY <1>6 DEF TypeOK, PCs, ReaderFrame
<1>7. ASSUME NEW n \in 1 .. Len(wire), ReaderFlush(n)
       PROVE  (Ending /\ CloseHasCause)'
  BY <1>7 DEF TypeOK, PCs, ReaderFlush, AfterFlush
<1>8. CASE ReaderEof
  BY <1>8 DEF TypeOK, PCs, ReaderEof, EofExit
<1>9. CASE ReaderStopped
  BY <1>9 DEF TypeOK, PCs, ReaderStopped
<1>10. CASE ReaderPush
  BY <1>10 DEF TypeOK, PCs, ReaderPush, CanPush, None
<1>11. CASE ReaderNotify
  BY <1>11 DEF TypeOK, PCs, ReaderNotify
<1>12. CASE ReaderClose
  BY <1>12 DEF TypeOK, PCs, ReaderClose
<1>13. CASE ReaderCloseNotify
  BY <1>13 DEF TypeOK, PCs, ReaderCloseNotify
<1>14. CASE WriterLock
  BY <1>14 DEF TypeOK, PCs, WriterLock, HasOutput
<1>15. CASE WriterWrite
  BY <1>15 DEF TypeOK, PCs, WriterWrite, Discards
<1>16. CASE WriterStopped
  BY <1>16 DEF TypeOK, PCs, WriterStopped
<1>17. CASE RunLoop
  BY <1>17 DEF TypeOK, PCs, RunLoop
<1>18. CASE GetEnter
  BY <1>18 DEF TypeOK, PCs, GetEnter
<1>19. CASE GetPop
  BY <1>19 DEF TypeOK, PCs, GetPop, Deliver
<1>20. CASE GetLock
  BY <1>20 DEF TypeOK, PCs, GetLock
<1>21. CASE GetTest
  BY <1>21 DEF TypeOK, PCs, GetTest, WaitOver
<1>22. CASE GetBlock
  BY <1>22 DEF TypeOK, PCs, GetBlock
<1>23. CASE SpuriousWake
  BY <1>23 DEF TypeOK, PCs, SpuriousWake
<1>24. CASE GetTake
  BY <1>24 DEF TypeOK, PCs, GetTake, Deliver, Throws
<1>25. CASE HandleRefused
  BY <1>25 DEF TypeOK, PCs, HandleRefused, Refusals
<1>25a. CASE HandleQuietly
  BY <1>25a DEF TypeOK, PCs, HandleQuietly
<1>26. ASSUME NEW withPid \in BOOLEAN, HandleInitialize(withPid)
       PROVE  (Ending /\ CloseHasCause)'
  BY <1>26 DEF TypeOK, PCs, HandleInitialize
<1>27. CASE HandleRewatch
  BY <1>27 DEF TypeOK, PCs, HandleRewatch
<1>28. ASSUME NEW n \in 1 .. Burst, HandleRequest(n)
       PROVE  (Ending /\ CloseHasCause)'
  BY <1>28 DEF TypeOK, PCs, HandleRequest
<1>28a. CASE HandleShutdown
  BY <1>28a DEF TypeOK, PCs, HandleShutdown
<1>29. CASE HandleExit
  BY <1>29 DEF TypeOK, PCs, HandleExit
<1>30. CASE Send
  BY <1>30 DEF TypeOK, PCs, Send
<1>31. CASE StopWatcher
  BY <1>31 DEF TypeOK, PCs, StopWatcher
<1>32. CASE JoinWatcher
  BY <1>32 DEF TypeOK, PCs, JoinWatcher
<1>33. CASE RequestStop
  BY <1>33 DEF TypeOK, PCs, RequestStop
<1>34. CASE JoinWriter
  BY <1>34 DEF TypeOK, PCs, JoinWriter
<1>35. CASE JoinReader
  BY <1>35 DEF TypeOK, PCs, JoinReader
<1>36. CASE WatcherPoll
  BY <1>36 DEF TypeOK, PCs, WatcherPoll
<1>37. CASE WatcherClose
  BY <1>37 DEF TypeOK, PCs, WatcherClose
<1>38. CASE WatcherNotify
  BY <1>38 DEF TypeOK, PCs, WatcherNotify
<1>39. CASE Abort
  BY <1>39 DEF TypeOK, PCs, Abort
<1>40. CASE AbortNotify
  <2>1. /\ pc'.reader = pc.reader /\ pc'.writer = pc.writer /\ pc'.watcher = pc.watcher
        /\ pc'.main = pc.main \/ (pc.main = "asleep" /\ pc'.main = "woken")
        /\ UNCHANGED <<stopReq, eof, closed>>
    BY <1>40, AbortNotifyFacts DEF TypeOK
  <2>2. Ending'
    BY <2>1
  <2>3. CloseHasCause'
    BY <2>1
  <2>4. QED
    BY <2>2, <2>3
<1>41. CASE UNCHANGED vars
  BY <1>41 DEF TypeOK, PCs, vars
<1>42. QED
  BY <1>1, <1>2, <1>3, <1>4, <1>5, <1>6, <1>7, <1>8, <1>9, <1>10,
     <1>11, <1>12, <1>13, <1>14, <1>15, <1>16, <1>17, <1>18, <1>19, <1>20,
     <1>21, <1>22, <1>23, <1>24, <1>25, <1>25a, <1>26, <1>27, <1>28, <1>28a, <1>29, <1>30,
     <1>31, <1>32, <1>33, <1>34, <1>35, <1>36, <1>37, <1>38, <1>39, <1>40,
     <1>41
  DEF Next, Client, Reader, Writer, Main, Get, Handle, Destroy, Watcher, Ended

-----------------------------------------------------------------------------
(* The actions that move no message between the client and get().           *)
Bystander ==
    \/ ClientRead \/ ClientDisconnect \/ ClientDie
    \/ ReaderPoll \/ ReaderStopped \/ ReaderNotify \/ ReaderClose
    \/ ReaderCloseNotify
    \/ Writer
    \/ RunLoop \/ GetEnter \/ GetLock \/ GetTest \/ GetBlock \/ SpuriousWake
    \/ Handle \/ Destroy \/ Watcher \/ Abort \/ AbortNotify
    \/ UNCHANGED vars

(* A bystander leaves alone every message and every count of messages.      *)
LEMMA BystanderStep ==
    ASSUME TypeOK, Bystander
    PROVE  /\ UNCHANGED <<wire, written, dropped, inbox, hand, delivered, last, eof>>
           /\ pc'.reader = "push" <=> pc.reader = "push"
<1> DEFINE Goal ==
        /\ UNCHANGED <<wire, written, dropped, inbox, hand, delivered, last, eof>>
        /\ pc'.reader = "push" <=> pc.reader = "push"
<1> SUFFICES Goal
  OBVIOUS
<1> USE DEF TypeOK, PCs, Goto, NotifyGoto, data, conn, input, output, medium,
        taken, tx, session
<1>1. CASE ClientRead \/ ClientDisconnect \/ ClientDie \/ UNCHANGED vars
  BY <1>1 DEF ClientRead, ClientDisconnect, ClientDie, vars
<1>2. CASE ReaderPoll \/ ReaderStopped \/ ReaderNotify \/ ReaderClose \/ ReaderCloseNotify
  BY <1>2 DEF ReaderPoll, ReaderStopped, ReaderNotify, ReaderClose, ReaderCloseNotify
<1>3. CASE Writer
  BY <1>3 DEF Writer, WriterLock, WriterWrite, WriterStopped
<1>4. CASE RunLoop \/ GetEnter \/ GetLock \/ GetTest \/ GetBlock \/ SpuriousWake
  BY <1>4 DEF RunLoop, GetEnter, GetLock, GetTest, GetBlock, SpuriousWake
<1>5. CASE Handle
  BY <1>5 DEF Handle, HandleRefused, HandleQuietly, HandleInitialize, HandleRewatch,
              HandleRequest, HandleShutdown, HandleExit, Send
<1>6. CASE Destroy
  BY <1>6 DEF Destroy, StopWatcher, JoinWatcher, RequestStop, JoinWriter, JoinReader
<1>7. CASE Watcher \/ Abort \/ AbortNotify
  BY <1>7 DEF Watcher, WatcherPoll, WatcherClose, WatcherNotify, Abort, AbortNotify
<1>8. QED
  BY <1>1, <1>2, <1>3, <1>4, <1>5, <1>6, <1>7 DEF Bystander

(* A bystander starts no peek at the end of the stream and reopens nothing. *)
LEMMA BystanderPeek ==
    ASSUME TypeOK, Bystander
    PROVE  /\ pc'.reader = "peek" => pc.reader = "peek" \/ ~eof
           /\ streamOpen' = streamOpen \/ streamOpen' = FALSE
<1> DEFINE Goal ==
        /\ pc'.reader = "peek" => pc.reader = "peek" \/ ~eof
        /\ streamOpen' = streamOpen \/ streamOpen' = FALSE
<1> SUFFICES Goal
  OBVIOUS
<1> USE DEF TypeOK, PCs, Goto, NotifyGoto, data, conn, input, output, medium,
        taken, tx, session
<1>1. CASE ClientRead \/ ClientDisconnect \/ ClientDie \/ UNCHANGED vars
  BY <1>1 DEF ClientRead, ClientDisconnect, ClientDie, vars
<1>2. CASE ReaderPoll \/ ReaderStopped \/ ReaderNotify \/ ReaderClose \/ ReaderCloseNotify
  BY <1>2 DEF ReaderPoll, ReaderStopped, ReaderNotify, ReaderClose, ReaderCloseNotify
<1>3. CASE Writer
  BY <1>3 DEF Writer, WriterLock, WriterWrite, WriterStopped
<1>4. CASE RunLoop \/ GetEnter \/ GetLock \/ GetTest \/ GetBlock \/ SpuriousWake
  BY <1>4 DEF RunLoop, GetEnter, GetLock, GetTest, GetBlock, SpuriousWake
<1>5. CASE Handle
  BY <1>5 DEF Handle, HandleRefused, HandleQuietly, HandleInitialize, HandleRewatch,
              HandleRequest, HandleShutdown, HandleExit, Send
<1>6. CASE Destroy
  BY <1>6 DEF Destroy, StopWatcher, JoinWatcher, RequestStop, JoinWriter, JoinReader
<1>7. CASE Watcher \/ Abort \/ AbortNotify
  BY <1>7 DEF Watcher, WatcherPoll, WatcherClose, WatcherNotify, Abort, AbortNotify
<1>8. QED
  BY <1>1, <1>2, <1>3, <1>4, <1>5, <1>6, <1>7 DEF Bystander

(* What the actions that do move a message do with it.                      *)
Carrier ==
    \/ \E k \in ClientKinds : ClientWrite(k)
    \/ ReaderFrame \/ (\E n \in 1 .. Len(wire) : ReaderFlush(n)) \/ ReaderEof
    \/ ReaderPush \/ GetPop \/ GetTake

(* Every step is a carrier's or a bystander's.                              *)
LEMMA CarrierOrBystander == [Next]_vars => Carrier \/ Bystander
  BY DEF Next, Client, Reader, Main, Get, Ended, Carrier, Bystander

(* get() either returns the first message of the inbox or leaves it alone.  *)
LEMMA GetStep ==
    ASSUME TypeOK, Locking, GetPop \/ GetTake
    PROVE  /\ UNCHANGED <<wire, written, dropped, hand, eof, streamOpen>>
           /\ pc'.reader = pc.reader
           /\ \/ inbox # <<>> /\ Deliver
              \/ UNCHANGED <<inbox, delivered, last>>
<1> USE DEF TypeOK, PCs, Goto, conn, input, output, medium, taken, tx, session
<1>1. CASE GetPop
  BY <1>1 DEF GetPop
<1>2. CASE GetTake
  BY <1>2 DEF GetTake, Locking, Throws
<1>3. QED
  BY <1>1, <1>2

(* What the reader takes out of the stream.                                 *)
LEMMA FrameStep ==
    ASSUME TypeOK, ReaderFrame
    PROVE  /\ UNCHANGED <<written, dropped, inbox, delivered, last, eof, streamOpen>>
           /\ wire # <<>> /\ hand' = Head(wire) /\ wire' = Tail(wire)
           /\ pc.reader = "peek" /\ pc'.reader = "push"
  BY DEF TypeOK, PCs, Goto, conn, input, output, medium, taken, tx, session,
         ReaderFrame

(* What a flush takes out of it.                                            *)
LEMMA FlushStep ==
    ASSUME TypeOK, NEW n \in 1 .. Len(wire), ReaderFlush(n)
    PROVE  /\ UNCHANGED <<written, inbox, delivered, last, eof, streamOpen>>
           /\ wire' = SubSeq(wire, n + 1, Len(wire)) /\ dropped' = dropped + n
           /\ pc.reader = "peek" /\ pc'.reader = "poll"
  BY DEF TypeOK, PCs, Goto, conn, input, output, medium, taken, tx, session,
         ReaderFlush, AfterFlush

(* The end of the stream puts the `exit` in the reader's hand.               *)
LEMMA EofStep ==
    ASSUME TypeOK, ReaderEof
    PROVE  /\ UNCHANGED <<wire, written, dropped, inbox, delivered, last, streamOpen>>
           /\ wire = <<>> /\ ~streamOpen /\ eof' = TRUE /\ hand' = EofExit
           /\ pc.reader = "peek" /\ pc'.reader = "push"
  BY DEF TypeOK, PCs, Goto, conn, input, output, medium, taken, tx, session,
         ReaderEof

(* The push moves the reader's message to the inbox.                        *)
LEMMA PushStep ==
    ASSUME TypeOK, ReaderPush
    PROVE  /\ UNCHANGED <<wire, written, dropped, delivered, last, eof, streamOpen>>
           /\ inbox' = Append(inbox, hand)
           /\ pc.reader = "push" /\ pc'.reader = "notify"
  BY DEF TypeOK, PCs, Goto, conn, input, output, medium, taken, tx, session,
         ReaderPush

(* The client's write adds the next message to the stream.                  *)
LEMMA WriteStep ==
    ASSUME TypeOK, NEW k \in ClientKinds, ClientWrite(k)
    PROVE  /\ UNCHANGED <<pc, dropped, inbox, hand, delivered, last, eof, streamOpen>>
           /\ [num |-> written + 1, kind |-> k] \in Message
           /\ wire' = Append(wire, [num |-> written + 1, kind |-> k])
           /\ written' = written + 1 /\ streamOpen
<1>1. [num |-> written + 1, kind |-> k] \in Message
  BY ClientAssumption DEF TypeOK, Message
<1>2. QED
  BY <1>1 DEF conn, output, medium, taken, tx, session, ClientWrite

(* A message is counted where it leaves and where it arrives.               *)
LEMMA AccountStep == IInv /\ [Next]_vars => NothingLost'
<1> SUFFICES ASSUME IInv, [Next]_vars
             PROVE  NothingLost'
  OBVIOUS
<1>1. TypeOK /\ NothingLost /\ Locking /\ Numbering
  BY DEF IInv
<1>2. /\ delivered \in Nat /\ dropped \in Nat /\ written \in Nat /\ eof \in BOOLEAN
      /\ inbox \in Seq(Message) /\ wire \in Seq(Message) /\ hand \in Message
      /\ Len(inbox) \in Nat /\ Len(wire) \in Nat
  BY <1>1 DEF TypeOK
<1> USE DEF NothingLost, InHand, MadeUp
<1>3. ASSUME NEW k \in ClientKinds, ClientWrite(k)
      PROVE  NothingLost'
  <2> DEFINE m == [num |-> written + 1, kind |-> k]
  <2>1. /\ UNCHANGED <<pc, dropped, inbox, delivered, eof>>
        /\ written' = written + 1 /\ wire' = Append(wire, m) /\ m \in Message
    BY <1>1, <1>3, WriteStep
  <2>2. Len(wire') = Len(wire) + 1
    BY <1>2, <2>1, AppendFacts
  <2>3. QED
    BY <1>1, <1>2, <2>1, <2>2
<1>4. CASE ReaderFrame
  <2>1. /\ UNCHANGED <<written, dropped, inbox, delivered, eof>>
        /\ pc.reader = "peek" /\ pc'.reader = "push"
    BY <1>1, <1>4, FrameStep
  <2>2. Len(wire') = Len(wire) - 1
    BY <1>1, <1>2, <1>4, FrameStep, TailFacts
  <2>3. QED
    BY <1>1, <1>2, <2>1, <2>2
<1>5. ASSUME NEW n \in 1 .. Len(wire), ReaderFlush(n)
      PROVE  NothingLost'
  <2>1. /\ UNCHANGED <<written, inbox, delivered, eof>>
        /\ dropped' = dropped + n /\ n \in Nat
        /\ pc.reader = "peek" /\ pc'.reader = "poll"
    BY <1>1, <1>2, <1>5, FlushStep
  <2>2. Len(wire') = Len(wire) - n
    BY <1>1, <1>2, <1>5, FlushStep, SubSeqFacts
  <2>3. QED
    BY <1>1, <1>2, <2>1, <2>2
<1>6. CASE ReaderEof
  <2>1. ~eof
    BY <1>1, <1>6, EofStep DEF Numbering
  <2>2. QED
    BY <1>1, <1>2, <1>6, <2>1, EofStep
<1>7. CASE ReaderPush
  <2>1. Len(inbox') = Len(inbox) + 1
    BY <1>1, <1>2, <1>7, PushStep, AppendFacts
  <2>2. QED
    BY <1>1, <1>2, <1>7, <2>1, PushStep
<1>8. CASE GetPop \/ GetTake
  <2>1. CASE inbox # <<>> /\ Deliver
    <3>1. Len(inbox') = Len(inbox) - 1 /\ delivered' = delivered + 1
      BY <1>2, <2>1, TailFacts DEF Deliver
    <3>2. QED
      BY <1>1, <1>2, <1>8, <3>1, GetStep
  <2>2. CASE UNCHANGED <<inbox, delivered, last>>
    BY <1>1, <1>2, <1>8, <2>2, GetStep
  <2>3. QED
    BY <1>1, <1>8, <2>1, <2>2, GetStep
<1>9. CASE Bystander
  BY <1>1, <1>9, BystanderStep
<1>10. QED
  BY <1>3, <1>4, <1>5, <1>6, <1>7, <1>8, <1>9, CarrierOrBystander DEF Carrier

(* The numbers stay within what the client wrote until the stream ends.     *)
LEMMA NumberStep == IInv /\ [Next]_vars => Numbering'
<1> SUFFICES ASSUME IInv, [Next]_vars
             PROVE  Numbering'
  OBVIOUS
<1>1. TypeOK /\ Locking /\ Numbering /\ InOrder
  BY DEF IInv
<1>2. /\ written \in Nat /\ last \in Nat /\ hand.num \in Nat
      /\ inbox \in Seq(Message) /\ wire \in Seq(Message) /\ hand \in Message
      /\ Len(inbox) \in Nat /\ Len(wire) \in Nat
      /\ \A i \in 1 .. Len(inbox) : inbox[i].num \in Nat
  <2>1. \A m \in Message : m.num \in Nat
    BY DEF Message
  <2>2. QED
    BY <1>1, <2>1 DEF TypeOK
<1> USE DEF Numbering
<1>3. ASSUME NEW k \in ClientKinds, ClientWrite(k)
      PROVE  Numbering'
  <2>1. /\ UNCHANGED <<pc, inbox, hand, last, eof>>
        /\ ~eof /\ written' = written + 1
    BY <1>1, <1>3, WriteStep
  <2>2. last <= written' /\ (pc.reader = "push" => hand.num <= written')
    BY <1>1, <1>2, <2>1
  <2>3. \A i \in 1 .. Len(inbox) : inbox[i].num <= written'
    BY <1>1, <1>2, <2>1
  <2>4. QED
    BY <2>1, <2>2, <2>3
<1>4. CASE ReaderFrame
  <2>1. hand'.num <= written
    BY <1>1, <1>2, <1>4, FrameStep, TailFacts DEF InOrder
  <2>2. QED
    BY <1>1, <1>2, <1>4, <2>1, FrameStep
<1>5. ASSUME NEW n \in 1 .. Len(wire), ReaderFlush(n)
      PROVE  Numbering'
  <2>1. /\ UNCHANGED <<written, inbox, last, eof>> /\ ~eof
        /\ pc'.reader = "poll"
    BY <1>1, <1>5, FlushStep
  <2>2. QED
    BY <1>1, <2>1
<1>6. CASE ReaderEof
  BY <1>1, <1>6, EofStep
<1>7. CASE ReaderPush
  <2>1. /\ UNCHANGED <<wire, written, last, eof, streamOpen>>
        /\ pc.reader = "push" /\ pc'.reader = "notify"
    BY <1>1, <1>7, PushStep
  <2>2. /\ Len(inbox') = Len(inbox) + 1 /\ inbox'[Len(inbox) + 1] = hand
        /\ \A i \in 1 .. Len(inbox) : inbox'[i] = inbox[i]
    <3>1. inbox' = Append(inbox, hand)
      BY <1>1, <1>7, PushStep
    <3>2. QED
      BY <1>2, <3>1, AppendFacts
  <2>3. QED
    BY <1>1, <1>2, <2>1, <2>2
<1>8. CASE GetPop \/ GetTake
  <2>1. CASE inbox # <<>> /\ Deliver
    <3>1. /\ last' = inbox[1].num /\ Len(inbox') = Len(inbox) - 1 /\ 1 \in 1 .. Len(inbox)
          /\ \A i \in 1 .. Len(inbox') : inbox'[i] = inbox[i + 1]
      BY <1>2, <2>1, TailFacts DEF Deliver
    <3>2. UNCHANGED <<wire, written, hand, eof, streamOpen>> /\ pc'.reader = pc.reader
      BY <1>1, <1>8, GetStep
    <3>3. ASSUME ~eof, NEW i \in 1 .. Len(inbox')
          PROVE  inbox'[i].num <= written
      <4>1. i + 1 \in 1 .. Len(inbox) /\ inbox'[i] = inbox[i + 1]
        BY <1>2, <3>1, <3>3
      <4>2. QED
        BY <1>1, <3>3, <4>1
    <3>4. QED
      BY <1>1, <3>1, <3>2, <3>3
  <2>2. CASE UNCHANGED <<inbox, delivered, last>>
    BY <1>1, <1>2, <1>8, <2>2, GetStep
  <2>3. QED
    BY <1>1, <1>8, <2>1, <2>2, GetStep
<1>9. CASE Bystander
  <2>1. UNCHANGED <<wire, written, inbox, hand, last, eof>>
    BY <1>1, <1>9, BystanderStep
  <2>2. pc'.reader = "push" <=> pc.reader = "push"
    BY <1>1, <1>9, BystanderStep
  <2>3. eof => pc'.reader # "peek"
    BY <1>1, <1>9, BystanderPeek
  <2>4. eof => ~streamOpen'
    BY <1>1, <1>9, BystanderPeek
  <2>5. QED
    BY <1>1, <2>1, <2>2, <2>3, <2>4
<1>10. QED
  BY <1>3, <1>4, <1>5, <1>6, <1>7, <1>8, <1>9, CarrierOrBystander DEF Carrier

(* What an ascending queue keeps when its first n messages leave.           *)
LEMMA AscendingSuffix ==
    ASSUME NEW s \in Seq(Message), NEW t, NEW n \in Nat, Ascending(s),
           Len(t) \in Nat, Len(t) = Len(s) - n,
           \A i \in 1 .. Len(t) : t[i] = s[i + n]
    PROVE  Ascending(t)
<1> SUFFICES ASSUME NEW i \in 1 .. Len(t), NEW j \in 1 .. Len(t), i < j
             PROVE  t[i].num < t[j].num
  BY DEF Ascending
<1>1. i + n \in 1 .. Len(s) /\ j + n \in 1 .. Len(s) /\ i + n < j + n
  OBVIOUS
<1>2. s[i + n].num < s[j + n].num
  BY <1>1 DEF Ascending
<1>3. QED
  BY <1>2

(* The same when the first message leaves.                                  *)
LEMMA AscendingTail ==
    ASSUME NEW s \in Seq(Message), NEW t, Ascending(s), Len(s) # 0,
           Len(t) = Len(s) - 1, \A i \in 1 .. Len(t) : t[i] = s[i + 1]
    PROVE  Ascending(t)
<1> SUFFICES ASSUME NEW i \in 1 .. Len(t), NEW j \in 1 .. Len(t), i < j
             PROVE  t[i].num < t[j].num
  BY DEF Ascending
<1>1. i + 1 \in 1 .. Len(s) /\ j + 1 \in 1 .. Len(s) /\ i + 1 < j + 1
  OBVIOUS
<1>2. s[i + 1].num < s[j + 1].num
  BY <1>1 DEF Ascending
<1>3. QED
  BY <1>2

(* What it keeps when a message numbered after all of them arrives.         *)
LEMMA AscendingAppend ==
    ASSUME NEW s \in Seq(Message), NEW t, NEW x, Ascending(s),
           \A i \in 1 .. Len(s) : s[i].num < x,
           Len(t) = Len(s) + 1, t[Len(s) + 1].num = x,
           \A i \in 1 .. Len(s) : t[i] = s[i]
    PROVE  Ascending(t)
<1> SUFFICES ASSUME NEW i \in 1 .. Len(t), NEW j \in 1 .. Len(t), i < j
             PROVE  t[i].num < t[j].num
  BY DEF Ascending
<1>1. i \in 1 .. Len(s) /\ (j \in 1 .. Len(s) \/ j = Len(s) + 1)
  OBVIOUS
<1>2. CASE j \in 1 .. Len(s)
  BY <1>1, <1>2 DEF Ascending
<1>3. CASE j = Len(s) + 1
  BY <1>1, <1>3
<1>4. QED
  BY <1>1, <1>2, <1>3

(* get() returns the messages in the order in which they were written.      *)
LEMMA OrderStep == IInv /\ [Next]_vars => InOrder'
<1> SUFFICES ASSUME IInv, [Next]_vars
             PROVE  InOrder'
  OBVIOUS
<1>1. TypeOK /\ Locking /\ Numbering /\ InOrder
  BY DEF IInv
<1>2. /\ written \in Nat /\ last \in Nat /\ hand.num \in Nat
      /\ inbox \in Seq(Message) /\ wire \in Seq(Message) /\ hand \in Message
      /\ Len(inbox) \in Nat /\ Len(wire) \in Nat
      /\ \A i \in 1 .. Len(inbox) : inbox[i].num \in Nat
      /\ \A i \in 1 .. Len(wire) : wire[i].num \in Nat
  <2>1. \A m \in Message : m.num \in Nat
    BY DEF Message
  <2>2. QED
    BY <1>1, <2>1 DEF TypeOK
<1> USE DEF InOrder
<1>3. ASSUME NEW k \in ClientKinds, ClientWrite(k)
      PROVE  InOrder'
  <2> DEFINE m == [num |-> written + 1, kind |-> k]
  <2>1. /\ UNCHANGED <<pc, inbox, hand, last>> /\ ~eof
        /\ written' = written + 1 /\ wire' = Append(wire, m) /\ m \in Message
    BY <1>1, <1>3, WriteStep DEF Numbering
  <2>2. /\ Len(wire') = Len(wire) + 1 /\ wire'[Len(wire) + 1].num = written + 1
        /\ \A i \in 1 .. Len(wire) : wire'[i] = wire[i]
    BY <1>2, <2>1, AppendFacts
  <2>3. \A i \in 1 .. Len(wire') :
           i \in 1 .. Len(wire) \/ i = Len(wire) + 1
    BY <1>2, <2>2
  <2>4. /\ last <= written
        /\ pc.reader = "push" => hand.num <= written
        /\ \A i \in 1 .. Len(inbox) : inbox[i].num <= written
    BY <1>1, <2>1 DEF Numbering
  <2>5. Ascending(wire')
    <3>1. \A i \in 1 .. Len(wire) : wire[i].num < written + 1
      BY <1>1, <1>2
    <3>2. QED
      BY <1>1, <1>2, <2>2, <3>1, AscendingAppend
  <2>6. ASSUME NEW i \in 1 .. Len(wire')
        PROVE  /\ last < wire'[i].num /\ wire'[i].num <= written + 1
               /\ \A j \in 1 .. Len(inbox) : inbox[j].num < wire'[i].num
               /\ pc.reader = "push" => hand.num < wire'[i].num
    <3>1. CASE i \in 1 .. Len(wire)
      <4>1. wire'[i] = wire[i]
        BY <2>2, <3>1
      <4>2. QED
        BY <1>1, <1>2, <3>1, <4>1
    <3>2. CASE i = Len(wire) + 1
      <4>1. wire'[i].num = written + 1
        BY <2>2, <3>2
      <4>2. \A j \in 1 .. Len(inbox) : inbox[j].num < wire'[i].num
        BY <1>2, <2>4, <4>1
      <4>3. QED
        BY <1>2, <2>4, <4>1, <4>2
    <3>3. QED
      BY <2>3, <3>1, <3>2
  <2>7. QED
    BY <1>1, <2>1, <2>5, <2>6
<1>4. CASE ReaderFrame
  <2>1. /\ UNCHANGED <<written, inbox, last>>
        /\ hand' = wire[1] /\ 1 \in 1 .. Len(wire)
        /\ Len(wire') = Len(wire) - 1
        /\ \A i \in 1 .. Len(wire') : wire'[i] = wire[i + 1]
    <3>1. /\ UNCHANGED <<written, inbox, last>> /\ wire # <<>>
          /\ hand' = Head(wire) /\ wire' = Tail(wire)
      BY <1>1, <1>4, FrameStep
    <3>2. QED
      BY <1>2, <3>1, TailFacts
  <2>2. \A i \in 1 .. Len(wire') : i + 1 \in 1 .. Len(wire) /\ 1 < i + 1
    BY <1>2, <2>1
  <2>3. Ascending(wire')
    BY <1>1, <1>2, <2>1, AscendingTail
  <2>4. \A i \in 1 .. Len(wire') : hand'.num < wire'[i].num
    <3>1. \A i, j \in 1 .. Len(wire) : i < j => wire[i].num < wire[j].num
      BY <1>1 DEF Ascending
    <3>2. QED
      BY <2>1, <2>2, <3>1
  <2>5. QED
    BY <1>1, <1>2, <2>1, <2>2, <2>3, <2>4
<1>5. ASSUME NEW n \in 1 .. Len(wire), ReaderFlush(n)
      PROVE  InOrder'
  <2>1. /\ UNCHANGED <<written, inbox, last>> /\ pc'.reader = "poll"
        /\ wire' = SubSeq(wire, n + 1, Len(wire))
    BY <1>1, <1>5, FlushStep
  <2>2. /\ Len(wire') = Len(wire) - n /\ n \in Nat
        /\ \A i \in 1 .. Len(wire') : wire'[i] = wire[i + n]
    BY <1>2, <2>1, SubSeqFacts
  <2>3. \A i \in 1 .. Len(wire') : i + n \in 1 .. Len(wire)
    BY <1>2, <2>2
  <2>4. Ascending(wire')
    BY <1>1, <1>2, <2>2, AscendingSuffix, SMTT(20)
  <2>5. QED
    BY <1>1, <2>1, <2>2, <2>3, <2>4
<1>6. CASE ReaderEof
  <2>1. /\ UNCHANGED <<wire, written, inbox, last>> /\ wire = <<>>
        /\ hand'.num = written + 1
    BY <1>1, <1>6, EofStep DEF EofExit
  <2>2. last <= written /\ \A i \in 1 .. Len(inbox) : inbox[i].num <= written
    BY <1>1, <1>6, EofStep DEF Numbering
  <2>3. QED
    BY <1>1, <1>2, <2>1, <2>2
<1>7. CASE ReaderPush
  <2>1. /\ UNCHANGED <<wire, written, last>> /\ inbox' = Append(inbox, hand)
        /\ pc.reader = "push" /\ pc'.reader = "notify"
    BY <1>1, <1>7, PushStep
  <2>2. /\ Len(inbox') = Len(inbox) + 1 /\ inbox'[Len(inbox) + 1] = hand
        /\ \A i \in 1 .. Len(inbox) : inbox'[i] = inbox[i]
    BY <1>2, <2>1, AppendFacts
  <2>3. \A i \in 1 .. Len(inbox') :
           i \in 1 .. Len(inbox) \/ i = Len(inbox) + 1
    BY <1>2, <2>2
  <2>4. Ascending(inbox')
    BY <1>1, <1>2, <2>1, <2>2, AscendingAppend
  <2>5. QED
    BY <1>1, <1>2, <2>1, <2>2, <2>3, <2>4
<1>8. CASE GetPop \/ GetTake
  <2>1. UNCHANGED <<wire, written, hand>> /\ pc'.reader = pc.reader
    BY <1>1, <1>8, GetStep
  <2>2. CASE inbox # <<>> /\ Deliver
    <3>1. /\ last' = inbox[1].num /\ 1 \in 1 .. Len(inbox)
          /\ Len(inbox') = Len(inbox) - 1
          /\ \A i \in 1 .. Len(inbox') : inbox'[i] = inbox[i + 1]
      BY <1>2, <2>2, TailFacts DEF Deliver
    <3>2. \A i \in 1 .. Len(inbox') : i + 1 \in 1 .. Len(inbox) /\ 1 < i + 1
      BY <1>2, <3>1
    <3>3. Ascending(inbox')
      BY <1>1, <1>2, <3>1, AscendingTail, SMTT(20)
    <3>4. \A i \in 1 .. Len(inbox') : last' < inbox'[i].num
      <4>1. \A i, j \in 1 .. Len(inbox) : i < j => inbox[i].num < inbox[j].num
        BY <1>1 DEF Ascending
      <4>2. QED
        BY <3>1, <3>2, <4>1
    <3>5. QED
      BY <1>1, <1>2, <2>1, <3>1, <3>2, <3>3, <3>4
  <2>3. CASE UNCHANGED <<inbox, delivered, last>>
    BY <1>1, <2>1, <2>3
  <2>4. QED
    BY <1>1, <1>8, <2>2, <2>3, GetStep
<1>9. CASE Bystander
  <2>1. UNCHANGED <<wire, written, inbox, hand, last>>
    BY <1>1, <1>9, BystanderStep
  <2>2. pc'.reader = "push" <=> pc.reader = "push"
    BY <1>1, <1>9, BystanderStep
  <2>3. QED
    BY <1>1, <2>1, <2>2
<1>10. QED
  BY <1>3, <1>4, <1>5, <1>6, <1>7, <1>8, <1>9, CarrierOrBystander DEF Carrier

-----------------------------------------------------------------------------
(* The actions that hand no reply on.                                       *)
Silent ==
    \/ (\E k \in ClientKinds : ClientWrite(k)) \/ ClientDisconnect \/ ClientDie
    \/ Reader
    \/ WriterLock \/ WriterStopped
    \/ RunLoop \/ Get
    \/ HandleRefused \/ HandleQuietly
    \/ (\E withPid \in BOOLEAN : HandleInitialize(withPid)) \/ HandleRewatch
    \/ (\E n \in 1 .. Burst : HandleRequest(n)) \/ HandleShutdown \/ HandleExit
    \/ Destroy \/ SpuriousWake \/ Watcher \/ Abort \/ AbortNotify
    \/ UNCHANGED vars

(* Every step hands a reply on or is silent.                                *)
LEMMA ReplyCases == [Next]_vars => ClientRead \/ WriterWrite \/ Send \/ Silent
  BY DEF Next, Client, Writer, Main, Handle, Ended, Silent

(* A silent step leaves the replies alone and reopens no connection.        *)
LEMMA SilentStep ==
    ASSUME Silent
    PROVE  /\ UNCHANGED <<pipe, outbox, sent, received>>
           /\ streamOpen' = streamOpen \/ streamOpen' = FALSE
<1> DEFINE Goal == /\ UNCHANGED <<pipe, outbox, sent, received>>
                   /\ streamOpen' = streamOpen \/ streamOpen' = FALSE
<1> SUFFICES Goal
  OBVIOUS
<1> USE DEF Goto, NotifyGoto, data, conn, input, output, medium, taken, tx, session
<1>1. CASE (\E k \in ClientKinds : ClientWrite(k)) \/ ClientDisconnect
           \/ ClientDie \/ UNCHANGED vars
  BY <1>1 DEF ClientWrite, ClientDisconnect, ClientDie, vars
<1>2. CASE Reader
  BY <1>2 DEF Reader, ReaderPoll, ReaderFrame, ReaderFlush, ReaderEof,
              ReaderStopped, ReaderPush, ReaderNotify, ReaderClose,
              ReaderCloseNotify
<1>3. CASE WriterLock \/ WriterStopped \/ RunLoop \/ SpuriousWake
  BY <1>3 DEF WriterLock, WriterStopped, RunLoop, SpuriousWake
<1>4. CASE Get
  BY <1>4 DEF Get, GetEnter, GetPop, GetLock, GetTest, GetBlock, GetTake
<1>5. CASE \/ HandleRefused \/ HandleQuietly
           \/ \E withPid \in BOOLEAN : HandleInitialize(withPid)
           \/ HandleRewatch \/ HandleShutdown \/ HandleExit
           \/ \E n \in 1 .. Burst : HandleRequest(n)
  BY <1>5 DEF HandleRefused, HandleQuietly, HandleInitialize, HandleRewatch,
              HandleShutdown, HandleExit, HandleRequest
<1>6. CASE Destroy
  BY <1>6 DEF Destroy, StopWatcher, JoinWatcher, RequestStop, JoinWriter, JoinReader
<1>7. CASE Watcher \/ Abort \/ AbortNotify
  BY <1>7 DEF Watcher, WatcherPoll, WatcherClose, WatcherNotify, Abort, AbortNotify
<1>8. QED
  BY <1>1, <1>2, <1>3, <1>4, <1>5, <1>6, <1>7 DEF Silent

(* The client reads the replies in the order in which they were sent.       *)
LEMMA ReplyStep == IInv /\ [Next]_vars => RepliesInOrder'
<1> SUFFICES ASSUME IInv, [Next]_vars, streamOpen'
             PROVE  /\ received' + Len(pipe') + Len(outbox') = sent'
                    /\ \A i \in 1 .. Len(pipe') : pipe'[i] = received' + i
                    /\ \A i \in 1 .. Len(outbox') :
                          outbox'[i] = received' + Len(pipe') + i
  BY DEF RepliesInOrder
<1>1. TypeOK /\ Locking /\ RepliesInOrder
  BY DEF IInv
<1>2. /\ pipe \in Seq(Nat) /\ outbox \in Seq(Nat) /\ sent \in Nat /\ received \in Nat
      /\ Len(pipe) \in Nat /\ Len(outbox) \in Nat
  BY <1>1 DEF TypeOK
<1>3. ASSUME streamOpen
      PROVE  /\ received + Len(pipe) + Len(outbox) = sent
             /\ \A i \in 1 .. Len(pipe) : pipe[i] = received + i
             /\ \A i \in 1 .. Len(outbox) : outbox[i] = received + Len(pipe) + i
  BY <1>1, <1>3 DEF RepliesInOrder
<1>4. CASE ClientRead
  <2>1. /\ streamOpen /\ pipe # <<>> /\ pipe' = Tail(pipe)
        /\ received' = Head(pipe) /\ UNCHANGED <<outbox, sent>>
    BY <1>4 DEF ClientRead, tx
  <2>2. /\ Len(pipe') = Len(pipe) - 1 /\ received' = pipe[1] /\ 1 \in 1 .. Len(pipe)
        /\ \A i \in 1 .. Len(pipe') : pipe'[i] = pipe[i + 1]
    BY <1>2, <2>1, TailFacts
  <2>3. received' = received + 1
    BY <1>3, <2>1, <2>2
  <2>4. \A i \in 1 .. Len(pipe') : i + 1 \in 1 .. Len(pipe)
    BY <1>2, <2>2
  <2>5. received' + Len(pipe') + Len(outbox') = sent'
    BY <1>2, <1>3, <2>1, <2>2, <2>3
  <2>6. ASSUME NEW i \in 1 .. Len(pipe')
        PROVE  pipe'[i] = received' + i
    <3>1. pipe'[i] = received + (i + 1)
      BY <1>3, <2>1, <2>2, <2>4
    <3>2. QED
      BY <1>2, <2>3, <3>1
  <2>7. ASSUME NEW i \in 1 .. Len(outbox')
        PROVE  outbox'[i] = received' + Len(pipe') + i
    <3>1. outbox'[i] = received + Len(pipe) + i
      BY <1>3, <2>1
    <3>2. QED
      BY <1>2, <2>2, <2>3, <3>1
  <2>8. QED
    BY <2>5, <2>6, <2>7
<1>5. CASE WriterWrite
  <2>1. /\ streamOpen /\ outbox # <<>> /\ outbox' = Tail(outbox)
        /\ pipe' = Append(pipe, Head(outbox)) /\ UNCHANGED <<sent, received>>
    BY <1>1, <1>5 DEF WriterWrite, Discards, Goto, Locking, conn
  <2>2. /\ Len(outbox') = Len(outbox) - 1 /\ Head(outbox) = outbox[1]
        /\ 1 \in 1 .. Len(outbox) /\ Head(outbox) \in Nat
        /\ \A i \in 1 .. Len(outbox') : outbox'[i] = outbox[i + 1]
    BY <1>2, <2>1, TailFacts
  <2>3. /\ Len(pipe') = Len(pipe) + 1 /\ pipe'[Len(pipe) + 1] = outbox[1]
        /\ \A i \in 1 .. Len(pipe) : pipe'[i] = pipe[i]
    BY <1>2, <2>1, <2>2, AppendFacts
  <2>4. outbox[1] = received + Len(pipe) + 1
    BY <1>3, <2>1, <2>2
  <2>5. /\ \A i \in 1 .. Len(outbox') : i + 1 \in 1 .. Len(outbox)
        /\ \A i \in 1 .. Len(pipe') : i \in 1 .. Len(pipe) \/ i = Len(pipe) + 1
    BY <1>2, <2>2, <2>3
  <2>6. ASSUME NEW i \in 1 .. Len(pipe')
        PROVE  pipe'[i] = received' + i
    <3>1. CASE i \in 1 .. Len(pipe)
      BY <1>3, <2>1, <2>3, <3>1
    <3>2. CASE i = Len(pipe) + 1
      <4>1. pipe'[i] = received + Len(pipe) + 1
        BY <2>3, <2>4, <3>2
      <4>2. QED
        BY <1>2, <2>1, <3>2, <4>1
    <3>3. QED
      BY <2>5, <3>1, <3>2
  <2>7. \A i \in 1 .. Len(outbox') : outbox'[i] = received' + Len(pipe') + i
    BY <1>2, <1>3, <2>1, <2>2, <2>3, <2>5
  <2>8. received' + Len(pipe') + Len(outbox') = sent'
    <3>1. /\ received + Len(pipe) + Len(outbox) = sent
          /\ sent' = sent /\ received' = received
      BY <1>3, <2>1
    <3>2. Len(outbox') = Len(outbox) - 1 /\ Len(pipe') = Len(pipe) + 1
      BY <2>2, <2>3
    <3>3. QED
      BY <1>2, <3>1, <3>2
  <2>9. QED
    BY <2>6, <2>7, <2>8
<1>6. CASE Send
  <2>1. /\ streamOpen /\ outbox' = Append(outbox, sent + 1) /\ sent' = sent + 1
        /\ UNCHANGED <<pipe, received>>
    BY <1>6 DEF Send, conn, output
  <2>2. /\ Len(outbox') = Len(outbox) + 1 /\ outbox'[Len(outbox) + 1] = sent + 1
        /\ \A i \in 1 .. Len(outbox) : outbox'[i] = outbox[i]
    BY <1>2, <2>1, AppendFacts
  <2>3. \A i \in 1 .. Len(outbox') : i \in 1 .. Len(outbox) \/ i = Len(outbox) + 1
    BY <1>2, <2>2
  <2>4. ASSUME NEW i \in 1 .. Len(outbox')
        PROVE  outbox'[i] = received' + Len(pipe') + i
    <3>1. CASE i \in 1 .. Len(outbox)
      BY <1>3, <2>1, <2>2, <3>1
    <3>2. CASE i = Len(outbox) + 1
      <4>1. outbox'[i] = received + Len(pipe) + Len(outbox) + 1
        BY <1>3, <2>1, <2>2, <3>2
      <4>2. QED
        BY <1>2, <2>1, <3>2, <4>1
    <3>3. QED
      BY <2>3, <3>1, <3>2
  <2>5. QED
    BY <1>2, <1>3, <2>1, <2>2, <2>4
<1>7. CASE Silent
  <2>1. UNCHANGED <<pipe, outbox, sent, received>> /\ streamOpen
    BY <1>7, SilentStep
  <2>2. QED
    BY <1>3, <2>1
<1>8. QED
  BY <1>4, <1>5, <1>6, <1>7, ReplyCases

(* The initial states satisfy the invariant.                                *)
LEMMA InitIInv == Init => IInv
<1> SUFFICES ASSUME Init
             PROVE  IInv
  OBVIOUS
<1>1. pc \in PCs
  BY DEF Init, PCs, Serving
<1>2. None \in Message
  BY DEF None, Message, Kinds
<1>3. TypeOK
  <2>1. wire \in Seq(Message) /\ inbox \in Seq(Message)
    BY DEF Init
  <2>2. pipe \in Seq(Nat) /\ outbox \in Seq(Nat)
    BY DEF Init
  <2>3. hand \in Message /\ current \in Message
    BY <1>2 DEF Init
  <2>4. QED
    BY <1>1, <2>1, <2>2, <2>3 DEF Init, TypeOK
<1>4. Locking /\ NoSleepOnMessage
  BY DEF Init, Locking, NoSleepOnMessage
<1>5. Ending /\ CloseHasCause
  BY DEF Init, Ending, CloseHasCause
<1>6. NothingLost
  BY DEF Init, NothingLost, InHand, MadeUp
<1>7. Numbering
  BY DEF Init, Numbering
<1>8. InOrder
  BY DEF Init, InOrder, Ascending
<1>9. RepliesInOrder
  BY DEF Init, RepliesInOrder
<1>10. QED
  BY <1>3, <1>4, <1>5, <1>6, <1>7, <1>8, <1>9 DEF IInv

(* The invariant is inductive, so it holds in every reachable state.        *)
LEMMA Inductive == Spec => []IInv
<1>1. IInv /\ [Next]_vars => IInv'
  BY TypeStep, LockStep, SleepStep, EndStep, AccountStep, NumberStep,
     OrderStep, ReplyStep DEF IInv
<1>2. QED
  BY <1>1, InitIInv, PTL DEF Spec

(* Every variable keeps its type.                                           *)
THEOREM TypeCorrect == Spec => []TypeOK
  BY Inductive, PTL DEF IInv

(* get() delivers in the order of the client's writes and nothing twice.    *)
THEOREM FifoDelivery == Spec => []InOrder
  BY Inductive, PTL DEF IInv

(* Every message is delivered, on its way or flushed.                       *)
THEOREM Accounting == Spec => []NothingLost
  BY Inductive, PTL DEF IInv

(* get() never sleeps on a message the reader has announced already.        *)
THEOREM WakeupSafe == Spec => []NoSleepOnMessage
  BY Inductive, PTL DEF IInv

(* Only the end of the stream or a watcher closes a serving medium.         *)
THEOREM ClosedForCause == Spec => []CloseHasCause
  BY Inductive, PTL DEF IInv

(* Replies reach the client in order and without a gap.                     *)
THEOREM FifoReplies == Spec => []RepliesInOrder
  BY Inductive, PTL DEF IInv

(* A closed or aborted medium stops delivery, up to a call already past its *)
(* first check.                                                             *)
THEOREM ClosedStops == Spec => ClosedStopsDelivery
<1>1. IInv /\ [Next]_vars => [IsClosed /\ delivered' # delivered => pc.main = "pop"]_vars
  <2> SUFFICES ASSUME IInv, [Next]_vars, IsClosed, delivered' # delivered
               PROVE  pc.main = "pop"
    OBVIOUS
  <2>1. CASE Bystander
    BY <2>1, BystanderStep DEF IInv
  <2>2. CASE GetPop
    BY <2>2 DEF GetPop, Goto
  <2>3. CASE GetTake
    BY <2>3 DEF GetTake, Throws, taken
  <2>4. CASE Carrier /\ ~GetPop /\ ~GetTake
    BY <2>4 DEF Carrier, ClientWrite, ReaderFrame, ReaderFlush, ReaderEof,
       ReaderPush, taken
  <2>5. QED
    BY <2>1, <2>2, <2>3, <2>4, CarrierOrBystander
<1>2. QED
  BY <1>1, Inductive, PTL DEF Spec, ClosedStopsDelivery
=============================================================================
