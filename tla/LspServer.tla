------------------------------ MODULE LspServer ------------------------------
(***************************************************************************)
(* The message loop of BaseLSP and the part of DiplomatLSP that keeps the  *)
(* session: run, invoke, executeCommand, the requests the server sends and *)
(* the callbacks that take their answers.  Messages arrive whole and in    *)
(* order (module Transport); one is served at a time, on one thread, so a  *)
(* message is one step.  Methods that only work on the design appear as    *)
(* "query" (any other request) and "command" (any other notification),     *)
(* with every way a handler can end.                                       *)
(***************************************************************************)
EXTENDS Naturals, Sequences, FiniteSets

CONSTANTS
  Requests,     \* identifiers of the client's requests, each used once
  NoId,         \* a call without an identifier
  MaxAsked,     \* bound: requests the client's messages make the server send
  MaxInbox      \* bound: messages of the client not served yet

ASSUME RequestsAssumption == NoId \notin Requests
ASSUME BoundsAssumption == MaxAsked \in Nat /\ MaxInbox \in Nat

VARIABLES
  is_initialized, is_stopping, is_stopped,
  server,               \* "running", "ended" (left run()), "dead" (an exception left it)
  configurable,         \* the client can be asked for its configuration
  accepted_extensions,  \* some, as the client listed them, or none
  asked,                \* number of requests the server sent; their ids are 1 .. asked
  bound_callbacks,      \* ids with a callback
  active_req_args,      \* for each id, how many settings its request asked for
  inbox,                \* messages not served yet
  replies               \* what each request of the client has received

session == <<is_initialized, is_stopping, is_stopped, configurable>>
calls == <<asked, bound_callbacks, active_req_args>>
vars == <<session, server, accepted_extensions, calls, inbox, replies>>

-----------------------------------------------------------------------------
(* Methods and messages                                                    *)

RequestMethods == {"initialize", "shutdown", "executeCommand", "query"}
NotifMethods == {"initialized", "didChangeConfiguration", "exit", "command"}
Methods == RequestMethods \cup NotifMethods \cup {"unknown"}

(* What the parameters of executeCommand name: any bound method, or        *)
(* nothing, when they do not convert to ExecuteCommandParams.  A command   *)
(* that is itself executeCommand comes without parameters and fails as a   *)
(* query does.                                                             *)
Commands == (Methods \ {"executeCommand"}) \cup {"unreadable"}

Calls == [kind : {"call"}, id : Requests \cup {NoId}, method : Methods, command : Commands]
Answers == [kind : {"answer"}, id : 0 .. MaxAsked, result : {"list", "error", "unreadable"}]
Malformed == [kind : {"malformed"}]
Messages == Calls \cup Answers \cup Malformed

(* How a call ends: with a value or without one, with an exception of the  *)
(* first family of the project (rpc_base_exception), with one of the second*)
(* (server_side_base_exception), or with any other exception.              *)
Outcomes == {"value", "void", "rpc error", "server error", "exception"}

(* A callback and the arguments of its request live and die together,      *)
(* through answers that are late, duplicated, errors, or nobody's: the     *)
(* callback that looks its arguments up always finds them.                 *)
CallbacksHaveArguments == bound_callbacks = DOMAIN active_req_args

(* Type invariant; the ids of the server's requests are those it gave.     *)
LTypeOK ==
  /\ {is_initialized, is_stopping, is_stopped, configurable} \subseteq BOOLEAN
  /\ server \in {"running", "ended", "dead"}
  /\ accepted_extensions \in {"some", "none"}
  /\ asked \in 0 .. MaxAsked
  /\ bound_callbacks \subseteq 1 .. asked
  /\ CallbacksHaveArguments
  /\ \A k \in DOMAIN active_req_args : active_req_args[k] \in {1, 2}
  /\ inbox \in Seq(Messages)
  /\ replies \in [Requests -> {"unsent", "waiting", "value", "error", "dropped"}]

LInit ==
  /\ is_initialized = FALSE /\ is_stopping = FALSE /\ is_stopped = FALSE
  /\ server = "running"
  /\ configurable = FALSE
  /\ accepted_extensions = "none"
  /\ asked = 0 /\ bound_callbacks = {} /\ active_req_args = <<>>
  /\ inbox = <<>>
  /\ replies = [r \in Requests |-> "unsent"]

-----------------------------------------------------------------------------
(* The client                                                              *)

Names(msg) == IF msg.method = "executeCommand" THEN msg.command ELSE msg.method

(* Messages whose handler may send a request of its own.                   *)
Asking(msg) == msg.kind = "call" /\ Names(msg) \in {"initialized", "didChangeConfiguration"}
ToAsk == Cardinality({i \in 1 .. Len(inbox) : Asking(inbox[i])})

Push(msg) ==
  /\ server = "running"
  /\ Len(inbox) < MaxInbox
  /\ Asking(msg) => asked + ToAsk < MaxAsked
  /\ inbox' = Append(inbox, msg)
  /\ UNCHANGED <<session, server, accepted_extensions, calls>>

(* Requests carry an identifier, notifications none, except for a client   *)
(* that sends a request without one.                                       *)
SendRequest(r, m, c) ==
  /\ replies[r] = "unsent"
  /\ m \notin NotifMethods
  /\ Push([kind |-> "call", id |-> r, method |-> m, command |-> c])
  /\ replies' = [replies EXCEPT ![r] = "waiting"]

SendNotification(m) ==
  /\ Push([kind |-> "call", id |-> NoId, method |-> m, command |-> "unknown"])
  /\ UNCHANGED replies

(* An answer may come late, twice, or to nothing that was asked (id 0).    *)
SendAnswer(k, result) ==
  /\ k <= asked
  /\ Push([kind |-> "answer", id |-> k, result |-> result])
  /\ UNCHANGED replies

SendMalformed == Push([kind |-> "malformed"]) /\ UNCHANGED replies

(* What was not served is destroyed with the server.                       *)
Disconnect ==
  /\ server = "running"
  /\ server' = "ended"
  /\ inbox' = <<>>
  /\ UNCHANGED <<session, accepted_extensions, calls, replies>>

-----------------------------------------------------------------------------
(* Requests of the server and their callbacks                              *)

Ask(items) ==
  /\ asked' = asked + 1
  /\ bound_callbacks' = bound_callbacks \cup {asked'}
  /\ active_req_args' = [k \in DOMAIN active_req_args \cup {asked'} |->
                           IF k = asked' THEN items ELSE active_req_args[k]]

(* Without the guard object, only the callback is taken out.               *)
Release_CallbackOnly(k) ==
  /\ bound_callbacks' = bound_callbacks \ {k}
  /\ UNCHANGED <<asked, active_req_args>>

(* The guard object: whatever happens in the callback, id and arguments go.*)
Release(k) ==
  /\ bound_callbacks' = bound_callbacks \ {k}
  /\ active_req_args' = [j \in DOMAIN active_req_args \ {k} |-> active_req_args[j]]
  /\ UNCHANGED asked

(* The callback clears the set, then reads the second item of the answer:  *)
(* of an array that is too short, operator[] makes it a null, which lists  *)
(* nothing.                                                                *)
GetConfiguration(items) ==
  accepted_extensions' = IF items = 2 THEN "some" ELSE "none"

-----------------------------------------------------------------------------
(* Handlers                                                                *)

(* The session filter forgets that it is shutting down.                    *)
Allowed_NoStopping(m) == is_initialized \/ m = "initialize"

Allowed(m) ==
  IF is_initialized THEN is_stopping => m = "exit" ELSE m = "initialize"

Idle == UNCHANGED <<session, calls>>

Initialize ==
  /\ is_initialized' = TRUE
  /\ configurable' \in BOOLEAN
  /\ UNCHANGED <<is_stopping, is_stopped, calls>>

Initialized ==
  /\ UNCHANGED session
  /\ IF configurable THEN Ask(2) ELSE UNCHANGED calls

UpdateConfiguration == Ask(1) /\ UNCHANGED session

Shutdown ==
  /\ is_stopping' = TRUE
  /\ UNCHANGED <<is_initialized, is_stopped, configurable, calls>>

Exit ==
  /\ is_stopped' = TRUE
  /\ UNCHANGED <<is_initialized, is_stopping, configurable, calls>>

Handle(m, out) ==
  \/ m = "initialize" /\ out = "value" /\ Initialize
  \/ m = "initialize" /\ out = "exception" /\ Idle
  \/ m = "initialized" /\ out = "void" /\ Initialized
  \/ m = "didChangeConfiguration" /\ out = "void" /\ UpdateConfiguration
  \/ m = "shutdown" /\ out = "value" /\ Shutdown
  \/ m = "exit" /\ out = "void" /\ Exit
  \/ m = "query" /\ out \in {"value", "rpc error", "server error", "exception"} /\ Idle
  \/ m = "command" /\ out \in {"void", "rpc error", "server error", "exception"} /\ Idle

Invoke(m, out) ==
  \/ Allowed(m) /\ Handle(m, out)
  \/ ~Allowed(m) /\ out = "rpc error" /\ Idle
  \/ Allowed(m) /\ m = "unknown" /\ out = "rpc error" /\ Idle

(* executeCommand relays exceptions of the library as they are.            *)
Relayed_AsIs(out) == IF out = "void" THEN "value" ELSE out

(* What executeCommand makes of the end of the method it invoked.          *)
Relayed(out) ==
  CASE out = "void" -> "value"
    [] out = "exception" -> "rpc error"
    [] OTHER -> out

(* The parameters are converted outside the try.                           *)
ExecuteCommand(c, out) ==
  \/ Allowed("executeCommand") /\ c = "unreadable" /\ out = "exception" /\ Idle
  \/ /\ Allowed("executeCommand") /\ c # "unreadable"
     /\ \E inner \in Outcomes : Invoke(c, inner) /\ out = Relayed(inner)
  \/ ~Allowed("executeCommand") /\ out = "rpc error" /\ Idle

-----------------------------------------------------------------------------
(* The loop                                                                *)

Take(kind) ==
  /\ server = "running" /\ inbox # <<>> /\ Head(inbox).kind = kind
  /\ inbox' = Tail(inbox)

(* Errors are logged and not sent.                                         *)
Reply_ValuesOnly(r, out) ==
  replies' = IF r # NoId /\ out = "value" THEN [replies EXCEPT ![r] = "value"] ELSE replies

(* run() sends what a call gives back if the call has an identifier, but   *)
(* nothing at all for an exception of the second family.                   *)
Reply(r, out) ==
  replies' = CASE r # NoId /\ out = "value" -> [replies EXCEPT ![r] = "value"]
               [] r # NoId /\ out = "rpc error" -> [replies EXCEPT ![r] = "error"]
               [] r # NoId /\ out = "server error" -> [replies EXCEPT ![r] = "dropped"]
               [] OTHER -> replies

(* Only the two exception families of the project are caught.              *)
After(out) ==
  server' = IF out = "exception" THEN "dead" ELSE IF is_stopped' THEN "ended" ELSE server

ServeCall(msg, out) ==
  /\ Take("call")
  /\ \/ msg.method \in RequestMethods /\ msg.id = NoId /\ out = "rpc error" /\ Idle
     \/ /\ msg.method \in RequestMethods => msg.id # NoId
        /\ IF msg.method = "executeCommand"
           THEN ExecuteCommand(msg.command, out)
           ELSE Invoke(msg.method, out)
  /\ Reply(msg.id, out)
  /\ After(out)
  /\ UNCHANGED accepted_extensions

(* The callback is taken out and called, with its id for reference; an     *)
(* error of the client ends in the log instead.  An answer that is no list *)
(* of texts, or an error without its code, ends the server.                *)
RunCallback(msg) ==
  \/ msg.result = "error" /\ UNCHANGED <<server, accepted_extensions>>
  \/ msg.result = "list" /\ GetConfiguration(active_req_args[msg.id]) /\ UNCHANGED server
  \/ /\ msg.result = "unreadable" /\ server' = "dead"
     /\ accepted_extensions' \in {accepted_extensions, "none"}

(* The session is not consulted.  An answer to nothing is refused, and the *)
(* client ignores the refusal.                                             *)
ServeAnswer(msg) ==
  /\ Take("answer")
  /\ IF msg.id \in bound_callbacks
     THEN RunCallback(msg) /\ Release(msg.id)
     ELSE UNCHANGED <<calls, server, accepted_extensions>>
  /\ UNCHANGED <<session, replies>>

(* Neither a method nor an id, or an id that is neither text nor number:   *)
(* an error, sent to nobody or under no id.  A method that is no text is   *)
(* an exception of the JSON library, which nobody catches.                 *)
ServeMalformed ==
  /\ Take("malformed")
  /\ server' \in {server, "dead"}
  /\ UNCHANGED <<session, accepted_extensions, calls, replies>>

Serve ==
  \/ \E out \in Outcomes : ServeCall(Head(inbox), out)
  \/ ServeAnswer(Head(inbox))
  \/ ServeMalformed

Client ==
  \/ \E m \in Methods : SendNotification(m)
  \/ \E r \in Requests, m \in Methods, c \in Commands :
       (m # "executeCommand" => c = "unknown") /\ SendRequest(r, m, c)
  \/ \E k \in 0 .. MaxAsked, result \in {"list", "error", "unreadable"} : SendAnswer(k, result)
  \/ SendMalformed
  \/ Disconnect

LNext == Client \/ Serve

(* The loop takes the next message as long as it runs; the client owes     *)
(* nothing.                                                                *)
LSpec == LInit /\ [][LNext]_vars /\ WF_vars(Serve)

-----------------------------------------------------------------------------
(* Properties                                                              *)

Phase ==
  IF server # "running" THEN "ended"
  ELSE IF is_stopping THEN "stopping"
  ELSE IF is_initialized THEN "running"
  ELSE "new"

Session == INSTANCE RpcSession WITH phase <- Phase, replies <- replies

(* The loop, with its nested executeCommand, its error paths and its       *)
(* callbacks, is a session: one answer at most per request, a failure      *)
(* leaves the session where it was, an answer of the client never moves    *)
(* it, before initialize and after shutdown nothing else succeeds.         *)
SessionSpec == Session!Spec

(* No request is forgotten: each one that was sent is answered, or its     *)
(* handler failed on the server's side (lsp.cpp:506: "dropped"), or the    *)
(* server ends, whatever else the client sends.                            *)
RequestsAnswered ==
  \A r \in Requests :
    replies[r] = "waiting" ~> (replies[r] # "waiting" \/ server # "running")

(* A method that fails in any way under executeCommand costs at most the   *)
(* reply, never the server, if the parameters of executeCommand itself     *)
(* could be read: those are converted outside its try (lsp.cpp:221).       *)
CommandsAreContained ==
  [][ \A msg \in Calls :
        /\ inbox # <<>> /\ Head(inbox) = msg /\ inbox' = Tail(inbox)
        /\ msg.method = "executeCommand" /\ msg.command # "unreadable"
        => server' # "dead" ]_vars

(* What the client listed as source extensions is not forgotten: scans of  *)
(* the workspace read files of these extensions only.                      *)
ExtensionsKept == [][accepted_extensions = "some" => accepted_extensions' = "some"]_vars
=============================================================================
