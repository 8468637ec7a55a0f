------------------------------ MODULE Transport ------------------------------
(***************************************************************************)
(* The RPC transport of the Diplomat language server and the loop that     *)
(* drives it: RPCPipeTransport (lsp-server/rpc/rpc_transport.cpp),         *)
(* BaseLSP::run (lsp-server/lsp/lsp.cpp), the PID watcher thread started   *)
(* by DiplomatLSP::_h_initialize and the destructors that end them.        *)
(*                                                                         *)
(* The threads that share the transport:                                   *)
(*   reader   _poll_inbox, which calls _get_json                           *)
(*   writer   _push_outbox                                                 *)
(*   main     run() with get() and send(), then ~DiplomatLSP and           *)
(*            ~RPCPipeTransport                                            *)
(*   watcher  the lambda that polls the client's PID and calls close()     *)
(*   aborter  a caller of the public operation abort()                     *)
(* A critical section that touches nothing but its own queue is one step   *)
(* taken while the mutex is free; a mutex has an owner where a thread keeps*)
(* it across steps that another thread can observe.                        *)
(*                                                                         *)
(* What run() does with a message is abstracted to what the transport can  *)
(* tell apart: how many messages the handler sends, and the handlers that  *)
(* change the session: `initialize`, `shutdown` and `exit`.  A "request"   *)
(* is any other message, a notification or an answer of the client too.    *)
(***************************************************************************)
EXTENDS Naturals, Sequences

CONSTANTS
    ClientKinds,  \* the kinds of message the client writes
    MaxMsgs,      \* bound: messages the client writes
    InputSize,    \* messages the input stream holds before the client blocks
    OutputSize,   \* messages the output stream holds before the writer blocks
    Burst,        \* bound: messages one handler sends
    WatchPid,     \* _watch_client_pid, FALSE on stdio and TRUE over TCP
    MayAbort      \* whether some thread calls abort()

(* "bad" is a complete frame that json::parse refuses.                     *)
Kinds == {"initialize", "request", "shutdown", "exit", "bad"}

ASSUME ClientAssumption ==
    /\ ClientKinds \subseteq Kinds /\ MaxMsgs \in Nat
    /\ InputSize \in Nat \ {0} /\ OutputSize \in Nat \ {0}
ASSUME ServerAssumption ==
    Burst \in Nat \ {0} /\ WatchPid \in BOOLEAN /\ MayAbort \in BOOLEAN

VARIABLES
    pc,          \* where each thread is
    wire,        \* _in: frames written by the client and not read yet
    pipe,        \* _out: frames the client has not read yet
    streamOpen,  \* FALSE once the client side of the connection is gone
    pidAlive,    \* FALSE once the process named by processId is gone
    inbox, outbox,
    closed, aborted,
    stopReq,     \* _ss has been asked to stop
    eof,         \* _in.eof()
    rxOwner,     \* holder of _rx_access across steps, or "none"
    txOwner,     \* holder of _tx_access across steps, or "none"
    watchStop,   \* the stop token of _pid_watcher
    hand,        \* message _get_json returned and _poll_inbox has not pushed
    current,     \* message run() is handling
    toSend,      \* messages the handler has still to send
    initialized, \* _is_initialized
    stopping,    \* _is_stopping
    stopped,     \* _is_stopped
    \* History, read by properties and never by a guard of the server
    written,     \* messages the client has written
    dropped,     \* messages discarded by the flush of _get_json
    delivered,   \* messages get() has returned
    last,        \* number of the message get() returned last
    sent,        \* messages given to send()
    received     \* number of the last message the client has read

conn    == <<streamOpen, pidAlive>>
input   == <<wire, written, dropped>>
output  == <<pipe, received>>
medium  == <<closed, aborted, stopReq, eof>>
taken   == <<current, delivered, last>>
tx      == <<outbox, sent, toSend>>
session == <<initialized, stopping, stopped, watchStop>>
data    == <<conn, input, output, medium, inbox, hand, taken, tx, rxOwner,
             txOwner, session>>
vars    == <<pc, data>>

Message == [num : Nat, kind : Kinds]
None    == [num |-> 0, kind |-> "bad"]

(* The message _get_json makes up at the end of the stream.  It is numbered *)
(* after everything the client wrote.                                       *)
EofExit == [num |-> written + 1, kind |-> "exit"]

(* Where main is while it is inside the loop of run().                      *)
Serving == {"loop", "get", "pop", "lock", "test", "block", "asleep", "woken",
            "take", "handle", "send", "rewatch"}

PCs == [reader  : {"poll", "peek", "push", "notify", "close", "closeNotify",
                   "done"},
        writer  : {"poll", "write", "done"},
        main    : Serving \union {"leave", "joinWatcher", "stop", "joinWriter",
                                  "joinReader", "end"},
        watcher : {"off", "watch", "close", "notify", "done"},
        aborter : {"idle", "notify", "done"}]

TypeOK ==
    /\ pc \in PCs
    /\ wire \in Seq(Message) /\ inbox \in Seq(Message)
    /\ pipe \in Seq(Nat) /\ outbox \in Seq(Nat)
    /\ streamOpen \in BOOLEAN /\ pidAlive \in BOOLEAN
    /\ closed \in BOOLEAN /\ aborted \in BOOLEAN
    /\ stopReq \in BOOLEAN /\ eof \in BOOLEAN /\ watchStop \in BOOLEAN
    /\ rxOwner \in {"none", "main"} /\ txOwner \in {"none", "writer"}
    /\ hand \in Message /\ current \in Message /\ toSend \in Nat
    /\ initialized \in BOOLEAN /\ stopping \in BOOLEAN /\ stopped \in BOOLEAN
    /\ written \in Nat /\ dropped \in Nat /\ delivered \in Nat /\ last \in Nat
    /\ sent \in Nat /\ received \in Nat

Init ==
    /\ pc = [reader |-> "poll", writer |-> "poll", main |-> "loop",
             watcher |-> "off", aborter |-> "idle"]
    /\ wire = <<>> /\ pipe = <<>> /\ inbox = <<>> /\ outbox = <<>>
    /\ streamOpen = TRUE /\ pidAlive = TRUE
    /\ closed = FALSE /\ aborted = FALSE /\ stopReq = FALSE /\ eof = FALSE
    /\ rxOwner = "none" /\ txOwner = "none" /\ watchStop = FALSE
    /\ hand = None /\ current = None /\ toSend = 0
    /\ initialized = FALSE /\ stopping = FALSE /\ stopped = FALSE
    /\ written = 0 /\ dropped = 0 /\ delivered = 0 /\ last = 0
    /\ sent = 0 /\ received = 0

IsClosed == closed \/ aborted

Goto(t, from, to) == pc[t] = from /\ pc' = [pc EXCEPT ![t] = to]

(* notify_all on _data_available: only main ever waits on it.               *)
NotifyGoto(t, from, to) ==
    /\ pc[t] = from
    /\ pc' = [pc EXCEPT ![t] = to,
                        !.main = IF @ = "asleep" THEN "woken" ELSE @]

-----------------------------------------------------------------------------
(* The client: the other end of both streams.  It has one thread: while its *)
(* write is blocked on a full input stream it does not read its replies.    *)

ClientBlocked == Len(wire) = InputSize

ClientWrite(k) ==
    /\ streamOpen /\ ~ClientBlocked /\ written < MaxMsgs
    /\ wire' = Append(wire, [num |-> written + 1, kind |-> k])
    /\ written' = written + 1
    /\ UNCHANGED <<pc, conn, dropped, output, medium, inbox, hand, taken, tx,
                   rxOwner, txOwner, session>>

ClientRead ==
    /\ streamOpen /\ ~ClientBlocked /\ pipe # <<>>
    /\ pipe' = Tail(pipe)
    /\ received' = Head(pipe)
    /\ UNCHANGED <<pc, conn, input, medium, inbox, hand, taken, tx, rxOwner,
                   txOwner, session>>

(* The connection goes away.  The process may outlive it.                   *)
ClientDisconnect ==
    /\ streamOpen
    /\ streamOpen' = FALSE
    /\ UNCHANGED <<pc, pidAlive, input, output, medium, inbox, hand, taken, tx,
                   rxOwner, txOwner, session>>

(* The process named in `initialize` dies.  The stream may outlive it, when *)
(* another process holds the connection.  Nobody looks unless it is watched.*)
ClientDie ==
    /\ WatchPid /\ pidAlive
    /\ pidAlive' = FALSE
    /\ streamOpen' \in {streamOpen, FALSE}
    /\ UNCHANGED <<pc, input, output, medium, inbox, hand, taken, tx, rxOwner,
                   txOwner, session>>

-----------------------------------------------------------------------------
(* The reader: _poll_inbox and _get_json.                                   *)

(* The loop conditions of _poll_inbox and _get_json.                        *)
ReaderPoll ==
    /\ Goto("reader", "poll", IF stopReq \/ eof THEN "close" ELSE "peek")
    /\ UNCHANGED data

(* _in.peek() returned data and a whole frame follows it.                   *)
ReaderFrame ==
    /\ Goto("reader", "peek", "push") /\ ~stopReq
    /\ wire # <<>> /\ Head(wire).kind # "bad"
    /\ hand' = Head(wire)
    /\ wire' = Tail(wire)
    /\ UNCHANGED <<conn, written, dropped, output, medium, inbox, taken, tx,
                   rxOwner, txOwner, session>>

(* json::parse threw: the frame and whatever the stream buffer holds at     *)
(* that moment, a prefix of what follows, are discarded.                    *)
AfterFlush_Closes == "close"
AfterFlush == "poll"

ReaderFlush(n) ==
    /\ Goto("reader", "peek", AfterFlush) /\ ~stopReq
    /\ wire # <<>> /\ Head(wire).kind = "bad"
    /\ wire' = SubSeq(wire, n + 1, Len(wire))
    /\ dropped' = dropped + n
    /\ UNCHANGED <<conn, written, output, medium, inbox, hand, taken, tx,
                   rxOwner, txOwner, session>>

(* End of the stream: an `exit` is made up and returned as a message.       *)
ReaderEof_Silent ==
    /\ Goto("reader", "peek", "poll") /\ ~stopReq
    /\ wire = <<>> /\ ~streamOpen
    /\ eof' = TRUE
    /\ UNCHANGED <<conn, input, output, closed, aborted, stopReq, inbox, hand,
                   taken, tx, rxOwner, txOwner, session>>

ReaderEof ==
    /\ Goto("reader", "peek", "push") /\ ~stopReq
    /\ wire = <<>> /\ ~streamOpen
    /\ eof' = TRUE
    /\ hand' = EofExit
    /\ UNCHANGED <<conn, input, output, closed, aborted, stopReq, inbox, taken,
                   tx, rxOwner, txOwner, session>>

(* The stop token is seen between two characters.  A reader that is inside  *)
(* peek() sees it only when peek() returns.                                 *)
ReaderStopped ==
    /\ Goto("reader", "peek", "close") /\ stopReq
    /\ wire # <<>> \/ ~streamOpen
    /\ UNCHANGED data

(* Pushing takes _rx_access, so it waits while main holds it.               *)
CanPush_WithoutLock == TRUE
CanPush_Rendezvous == rxOwner = "none" /\ pc.main = "asleep"
CanPush == rxOwner = "none"

ReaderPush ==
    /\ Goto("reader", "push", "notify") /\ CanPush
    /\ inbox' = Append(inbox, hand)
    /\ hand' = None
    /\ UNCHANGED <<conn, input, output, medium, taken, tx, rxOwner, txOwner,
                   session>>

ReaderNotify == NotifyGoto("reader", "notify", "poll") /\ UNCHANGED data

(* The end of _poll_inbox writes _closed without _rx_access, then notifies. *)
ReaderClose ==
    /\ Goto("reader", "close", "closeNotify")
    /\ closed' = TRUE
    /\ UNCHANGED <<conn, input, output, aborted, stopReq, eof, inbox, hand,
                   taken, tx, rxOwner, txOwner, session>>

ReaderCloseNotify ==
    NotifyGoto("reader", "closeNotify", "done") /\ UNCHANGED data

-----------------------------------------------------------------------------
(* The writer: _push_outbox.  An empty outbox only makes it sleep.          *)

HasOutput_OffByOne == Len(outbox) > 1
HasOutput == outbox # <<>>

WriterLock ==
    /\ Goto("writer", "poll", "write") /\ ~stopReq /\ HasOutput
    /\ txOwner' = "writer"
    /\ UNCHANGED <<conn, input, output, medium, inbox, hand, taken, tx,
                   rxOwner, session>>

(* The write happens under _tx_access and blocks while the stream is full.  *)
(* What is written to a connection that is gone is discarded.               *)
Discards_WhenFull == ~streamOpen \/ Len(pipe) = OutputSize
Discards == ~streamOpen

WriterWrite ==
    /\ Goto("writer", "write", "poll")
    /\ \/ /\ streamOpen /\ Len(pipe) < OutputSize
          /\ pipe' = Append(pipe, Head(outbox))
       \/ Discards /\ UNCHANGED pipe
    /\ outbox' = Tail(outbox)
    /\ txOwner' = "none"
    /\ UNCHANGED <<conn, input, received, medium, inbox, hand, taken, sent,
                   toSend, rxOwner, session>>

WriterStopped == Goto("writer", "poll", "done") /\ stopReq /\ UNCHANGED data

-----------------------------------------------------------------------------
(* main: the loop of run() and, inside it, get().                           *)

(* while(! _rpc.is_closed() && ! _is_stopped)                               *)
RunLoop ==
    /\ Goto("main", "loop", IF IsClosed \/ stopped THEN "leave" ELSE "get")
    /\ UNCHANGED data

(* A closed medium makes get() throw; run() catches that and loops.         *)
GetEnter ==
    Goto("main", "get", IF IsClosed THEN "loop" ELSE "pop") /\ UNCHANGED data

(* Both ways get() returns a message.                                       *)
Deliver_Newest ==
    /\ current' = inbox[Len(inbox)]
    /\ inbox' = SubSeq(inbox, 1, Len(inbox) - 1)
    /\ delivered' = delivered + 1
    /\ last' = inbox[Len(inbox)].num

Deliver_SwapsInbox ==
    /\ current' = Head(inbox)
    /\ inbox' = <<>>
    /\ delivered' = delivered + 1
    /\ last' = Head(inbox).num

Deliver ==
    /\ current' = Head(inbox)
    /\ inbox' = Tail(inbox)
    /\ delivered' = delivered + 1
    /\ last' = Head(inbox).num

(* The first look at the inbox, which does not wait.                        *)
GetPop ==
    /\ rxOwner = "none"
    /\ \/ inbox # <<>> /\ Goto("main", "pop", "handle") /\ Deliver
       \/ inbox = <<>> /\ Goto("main", "pop", "lock") /\ UNCHANGED <<inbox, taken>>
    /\ UNCHANGED <<conn, input, output, medium, hand, tx, rxOwner, txOwner,
                   session>>

(* unique_lock, and the lock taken again by a wait that was woken.          *)
GetLock ==
    /\ \E from \in {"lock", "woken"} : Goto("main", from, "test")
    /\ rxOwner = "none" /\ rxOwner' = "main"
    /\ UNCHANGED <<conn, input, output, medium, inbox, hand, taken, tx,
                   txOwner, session>>

(* The predicate of the wait.                                               *)
WaitOver == inbox # <<>> \/ IsClosed

GetTest ==
    Goto("main", "test", IF WaitOver THEN "take" ELSE "block") /\ UNCHANGED data

(* The wait releases the mutex and starts waiting in one step.              *)
GetBlock ==
    /\ Goto("main", "block", "asleep")
    /\ rxOwner' = "none"
    /\ UNCHANGED <<conn, input, output, medium, inbox, hand, taken, tx,
                   txOwner, session>>

(* A condition variable may wake up for no reason.                          *)
SpuriousWake == Goto("main", "asleep", "woken") /\ UNCHANGED data

(* After the wait the flags come first: a closed or aborted medium throws   *)
(* whatever the inbox holds.                                                *)
Throws_InboxFirst == inbox = <<>>
Throws == IsClosed

GetTake ==
    /\ \/ Throws /\ Goto("main", "take", "loop") /\ UNCHANGED <<inbox, taken>>
       \/ ~Throws /\ Goto("main", "take", "handle") /\ Deliver
    /\ rxOwner' = "none"
    /\ UNCHANGED <<conn, input, output, medium, hand, tx, txOwner, session>>

-----------------------------------------------------------------------------
(* main: what run() does with a message.                                    *)

(* _filter_invocation refuses everything but `initialize` before the server *)
(* is initialized and everything but `exit` after `shutdown`.               *)
Filtered ==
    IF initialized THEN stopping /\ current.kind # "exit"
                   ELSE current.kind # "initialize"

(* A refusal is one error reply.                                            *)
Refusals_None == 0
Refusals == 1

HandleRefused ==
    /\ Goto("main", "handle", "send") /\ Filtered
    /\ toSend' = Refusals
    /\ UNCHANGED <<conn, input, output, medium, inbox, hand, taken, outbox,
                   sent, rxOwner, txOwner, session>>

(* Nothing is sent: a notification, refused or not, an answer of the client *)
(* that some callback takes, or a message that is no call.                  *)
HandleQuietly ==
    /\ Goto("main", "handle", "loop") /\ (Filtered \/ current.kind = "request")
    /\ UNCHANGED data

(* _h_initialize starts the watcher if the client gave its PID.  Assigning  *)
(* the jthread asks an earlier watcher to stop and joins it; the new one    *)
(* runs by then, and does nothing the earlier one does not do as well.      *)
HandleInitialize(withPid) ==
    /\ pc.main = "handle" /\ ~Filtered /\ current.kind = "initialize"
    /\ initialized' = TRUE
    /\ toSend' = 1
    /\ IF WatchPid /\ withPid /\ pc.watcher # "off"
       THEN pc' = [pc EXCEPT !.main = "rewatch"] /\ watchStop' = TRUE
       ELSE /\ pc' = [pc EXCEPT !.main = "send",
                                !.watcher = IF WatchPid /\ withPid THEN "watch" ELSE @]
            /\ UNCHANGED watchStop
    /\ UNCHANGED <<conn, input, output, medium, inbox, hand, taken, outbox,
                   sent, rxOwner, txOwner, stopping, stopped>>

HandleRewatch ==
    /\ pc.main = "rewatch" /\ pc.watcher = "done"
    /\ pc' = [pc EXCEPT !.main = "send", !.watcher = "watch"]
    /\ watchStop' = FALSE
    /\ UNCHANGED <<conn, input, output, medium, inbox, hand, taken, tx,
                   rxOwner, txOwner, initialized, stopping, stopped>>

(* Any other request: its reply and the notifications sent on the way.      *)
HandleRequest(n) ==
    /\ Goto("main", "handle", "send") /\ ~Filtered /\ current.kind = "request"
    /\ toSend' = n
    /\ UNCHANGED <<conn, input, output, medium, inbox, hand, taken, outbox,
                   sent, rxOwner, txOwner, session>>

HandleShutdown ==
    /\ Goto("main", "handle", "send") /\ ~Filtered /\ current.kind = "shutdown"
    /\ stopping' = TRUE
    /\ toSend' = 1
    /\ UNCHANGED <<conn, input, output, medium, inbox, hand, taken, outbox,
                   sent, rxOwner, txOwner, initialized, stopped, watchStop>>

HandleExit ==
    /\ Goto("main", "handle", "loop") /\ ~Filtered /\ current.kind = "exit"
    /\ stopped' = TRUE
    /\ UNCHANGED <<conn, input, output, medium, inbox, hand, taken, tx,
                   rxOwner, txOwner, initialized, stopping, watchStop>>

(* send() waits for _tx_access, which the writer keeps while it writes.     *)
Send ==
    /\ Goto("main", "send", IF toSend = 1 THEN "loop" ELSE "send")
    /\ txOwner = "none"
    /\ outbox' = Append(outbox, sent + 1)
    /\ sent' = sent + 1
    /\ toSend' = toSend - 1
    /\ UNCHANGED <<conn, input, output, medium, inbox, hand, taken, rxOwner,
                   txOwner, session>>

-----------------------------------------------------------------------------
(* main: run() has returned and the server is destroyed.                    *)

(* ~DiplomatLSP destroys _pid_watcher: stop, then join.                     *)
StopWatcher_JoinsOnly == Goto("main", "leave", "joinWatcher") /\ UNCHANGED data
StopWatcher ==
    /\ Goto("main", "leave", "joinWatcher")
    /\ watchStop' = TRUE
    /\ UNCHANGED <<conn, input, output, medium, inbox, hand, taken, tx,
                   rxOwner, txOwner, initialized, stopping, stopped>>

JoinWatcher ==
    /\ Goto("main", "joinWatcher", "stop") /\ pc.watcher \in {"off", "done"}
    /\ UNCHANGED data

(* ~RPCPipeTransport: _ss.request_stop(), join the writer, join the reader. *)
RequestStop ==
    /\ Goto("main", "stop", "joinWriter")
    /\ stopReq' = TRUE
    /\ UNCHANGED <<conn, input, output, closed, aborted, eof, inbox, hand,
                   taken, tx, rxOwner, txOwner, session>>

JoinWriter ==
    Goto("main", "joinWriter", "joinReader") /\ pc.writer = "done" /\ UNCHANGED data

JoinReader ==
    Goto("main", "joinReader", "end") /\ pc.reader = "done" /\ UNCHANGED data

-----------------------------------------------------------------------------
(* The PID watcher, and a caller of abort().  Both raise a flag without     *)
(* _rx_access and notify afterwards.                                        *)

WatcherPoll ==
    /\ Goto("watcher", "watch", "close") /\ (watchStop \/ ~pidAlive)
    /\ UNCHANGED data

WatcherClose ==
    /\ Goto("watcher", "close", "notify")
    /\ closed' = TRUE
    /\ UNCHANGED <<conn, input, output, aborted, stopReq, eof, inbox, hand,
                   taken, tx, rxOwner, txOwner, session>>

WatcherNotify == NotifyGoto("watcher", "notify", "done") /\ UNCHANGED data

Abort ==
    /\ MayAbort /\ pc.main \in Serving
    /\ Goto("aborter", "idle", "notify")
    /\ aborted' = TRUE
    /\ UNCHANGED <<conn, input, output, closed, stopReq, eof, inbox, hand,
                   taken, tx, rxOwner, txOwner, session>>

AbortNotify == NotifyGoto("aborter", "notify", "done") /\ UNCHANGED data

-----------------------------------------------------------------------------
Client == \/ \E k \in ClientKinds : ClientWrite(k)
          \/ ClientRead \/ ClientDisconnect \/ ClientDie

Reader == \/ ReaderPoll \/ ReaderFrame
          \/ \E n \in 1 .. Len(wire) : ReaderFlush(n)
          \/ ReaderEof \/ ReaderStopped \/ ReaderPush \/ ReaderNotify
          \/ ReaderClose \/ ReaderCloseNotify

Writer == WriterLock \/ WriterWrite \/ WriterStopped

Get == GetEnter \/ GetPop \/ GetLock \/ GetTest \/ GetBlock \/ GetTake

Handle == \/ HandleRefused \/ HandleQuietly
          \/ \E withPid \in BOOLEAN : HandleInitialize(withPid)
          \/ HandleRewatch
          \/ \E n \in 1 .. Burst : HandleRequest(n)
          \/ HandleShutdown \/ HandleExit \/ Send

Destroy == StopWatcher \/ JoinWatcher \/ RequestStop \/ JoinWriter \/ JoinReader

Main == RunLoop \/ Get \/ Handle \/ Destroy

Watcher == WatcherPoll \/ WatcherClose \/ WatcherNotify

(* The process has ended: not a deadlock.                                   *)
Ended == pc.main = "end" /\ UNCHANGED vars

Next == \/ Client \/ Reader \/ Writer \/ Main \/ SpuriousWake \/ Watcher
        \/ Abort \/ AbortNotify \/ Ended

Spec == Init /\ [][Next]_vars

(* Every thread of the server that can go on goes on.  A mutex that keeps   *)
(* being free is obtained in the end: the writer sleeps 10 to 100 ms between*)
(* two uses of _tx_access, and main holds _rx_access only up to its wait.   *)
(* The client owes the server nothing.                                      *)
ServerFairness ==
    /\ WF_vars(Reader) /\ SF_vars(ReaderPush)
    /\ WF_vars(Writer)
    /\ WF_vars(Main) /\ SF_vars(Send) /\ SF_vars(GetPop) /\ SF_vars(GetLock)
    /\ WF_vars(Watcher) /\ WF_vars(AbortNotify)

FairSpec == Spec /\ ServerFairness

(* A client that reads its replies, unless it is blocked on a write.        *)
ReadingSpec == FairSpec /\ WF_vars(ClientRead)

(* A client that disconnects once the server has stopped serving: the end   *)
(* of the stream is what gets the reader out of peek().                     *)
LeavingSpec == FairSpec /\ WF_vars(pc.main \notin Serving /\ ClientDisconnect)

-----------------------------------------------------------------------------
(* Safety.                                                                  *)

Ascending(s) == \A i, j \in 1 .. Len(s) : i < j => s[i].num < s[j].num

(* get() returns messages in the order in which the client wrote them and   *)
(* none twice: what it returned last precedes what waits in the inbox, that *)
(* precedes what the reader holds, and that precedes what is still in the   *)
(* stream.                                                                  *)
InOrder ==
    /\ Ascending(inbox) /\ Ascending(wire)
    /\ \A i \in 1 .. Len(inbox) : last < inbox[i].num
    /\ pc.reader = "push" =>
         /\ last < hand.num
         /\ \A i \in 1 .. Len(inbox) : inbox[i].num < hand.num
         /\ \A i \in 1 .. Len(wire) : hand.num < wire[i].num
    /\ \A i \in 1 .. Len(wire) :
         /\ last < wire[i].num /\ wire[i].num <= written
         /\ \A j \in 1 .. Len(inbox) : inbox[j].num < wire[i].num

(* No message vanishes between the client and get(): each one written, and  *)
(* the `exit` made up at the end of the stream, is delivered, on its way,   *)
(* or was flushed after a frame that does not parse.                        *)
InHand == IF pc.reader = "push" THEN 1 ELSE 0
MadeUp == IF eof THEN 1 ELSE 0
NothingLost ==
    delivered + Len(inbox) + InHand + Len(wire) + dropped = written + MadeUp

(* The wait of get() never sleeps on a message: if main is asleep and the   *)
(* inbox is not empty, the reader has yet to notify it.                     *)
NoSleepOnMessage == pc.main = "asleep" /\ inbox # <<>> => pc.reader = "notify"

(* While the server serves, only the end of the stream or a PID watcher     *)
(* closes the medium: a frame that does not parse, for one, does not.       *)
CloseHasCause == closed /\ pc.main \in Serving => eof \/ pc.watcher # "off"

(* The client reads the server's messages in the order they were sent and   *)
(* misses none as long as the connection lasts.                             *)
RepliesInOrder ==
    streamOpen =>
        /\ received + Len(pipe) + Len(outbox) = sent
        /\ \A i \in 1 .. Len(pipe) : pipe[i] = received + i
        /\ \A i \in 1 .. Len(outbox) : outbox[i] = received + Len(pipe) + i

(* Once the medium is closed or aborted, only the call of get() that had    *)
(* already passed its check may return a message, and only if it finds the  *)
(* message without waiting.                                                 *)
ClosedStopsDelivery ==
    [][IsClosed /\ delivered' # delivered => pc.main = "pop"]_vars

-----------------------------------------------------------------------------
(* Liveness.                                                                *)

(* An initialized server that loses its connection leaves the loop of run():*)
(* the end of the stream reaches it as an `exit`, pushed under the mutex.   *)
DisconnectEndsServing ==
    initialized /\ ~streamOpen ~> pc.main \notin Serving

(* A client that reads its replies only while its own write is not blocked  *)
(* is never blocked for good by a serving server: the inbox takes whatever  *)
(* the client writes while main waits for the writer.                       *)
ClientNeverStuck ==
    ClientBlocked /\ streamOpen ~> ~ClientBlocked \/ pc.main \notin Serving

(* Replies reach a reading client, unless the server stops.                 *)
RepliesReachClient ==
    \A k \in 1 .. MaxMsgs * Burst :
        sent >= k ~> received >= k \/ ~streamOpen \/ stopReq

(* A server that left its loop ends, if its client disconnects then.        *)
ServerEnds == pc.main = "leave" ~> pc.main = "end"

-----------------------------------------------------------------------------
(* What the comments of the code say and the code does not do.              *)

(* rpc_transport.hpp:66: the stop token stops the capture gracefully as     *)
(* soon as possible.                                                        *)
StopEndsReader == stopReq ~> pc.reader = "done"

(* rpc_transport.hpp:55: the writer waits for data to be in the outbox and  *)
(* then transfers it.                                                       *)
OutboxDrained == pc.writer = "done" /\ streamOpen => outbox = <<>>

(* diplomat_lsp.cpp:69: the server should exit when the watched PID stops   *)
(* running.                                                                 *)
DeadPidEndsServing == pc.watcher = "done" /\ ~pidAlive ~> pc.main \notin Serving
=============================================================================
