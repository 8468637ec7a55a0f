------------------------------ MODULE LspProofs ------------------------------
(***************************************************************************)
(* Theorems about LspServer, for every set of requests and every bound.    *)
(* The loop implements the session of RpcSession because a request that    *)
(* waits in the inbox waits for its answer and waits there once (Pending), *)
(* a session that is stopping was initialized, and a loop that runs was    *)
(* not stopped.  What a call does to the session is summed up in Served.   *)
(***************************************************************************)
EXTENDS LspServer, SequenceFacts, FiniteSetTheorems

Pending ==
  /\ \A i \in 1 .. Len(inbox) :
       inbox[i].kind = "call" /\ inbox[i].id # NoId => replies[inbox[i].id] = "waiting"
  /\ \A i, j \in 1 .. Len(inbox) :
       /\ inbox[i].kind = "call" /\ inbox[j].kind = "call"
       /\ inbox[i].id # NoId /\ inbox[i].id = inbox[j].id
       => i = j

Ordered == /\ is_stopping => is_initialized
           /\ server = "running" => ~is_stopped

LIInv == LTypeOK /\ asked + ToAsk <= MaxAsked /\ Pending /\ Ordered

(* What a call that ends with out may have done to the session.            *)
Served(out) ==
  /\ out \in Outcomes
  /\ {is_initialized', is_stopping', is_stopped', configurable'} \subseteq BOOLEAN
  /\ is_stopping' => is_initialized'
  /\ out \in {"rpc error", "server error", "exception"} => UNCHANGED session
  /\ out = "void" => UNCHANGED <<is_initialized, is_stopping>>
  /\ out = "value" =>
       /\ is_initialized' /\ (is_initialized => ~is_stopping)
       /\ ~is_initialized => ~is_stopping' /\ is_stopped' = is_stopped

-----------------------------------------------------------------------------
(* The bound on the server's requests.                                     *)

LEMMA SumBound ==
  ASSUME NEW a \in Nat, NEW t \in Nat, NEW u \in Nat, NEW m \in Nat, a + t <= m
  PROVE  /\ u <= t => a + u <= m
         /\ t = u + 1 => a + 1 <= m /\ (a + 1) + u <= m
OBVIOUS

AskingIn(s) == {i \in 1 .. Len(s) : Asking(s[i])}

LEMMA AskingFinite ==
  ASSUME NEW s \in Seq(Messages)
  PROVE  IsFiniteSet(AskingIn(s)) /\ Cardinality(AskingIn(s)) \in Nat
<1>1. Len(s) \in Nat
  OBVIOUS
<1>2. IsFiniteSet(1 .. Len(s))
  BY <1>1, FS_Interval
<1>3. QED
  BY <1>2, FS_Subset, FS_CardinalityType DEF AskingIn

LEMMA AskingAppend ==
  ASSUME NEW s \in Seq(Messages), NEW x \in Messages
  PROVE  Cardinality(AskingIn(Append(s, x))) =
           IF Asking(x) THEN Cardinality(AskingIn(s)) + 1 ELSE Cardinality(AskingIn(s))
<1>1. /\ Len(s) \in Nat /\ Len(Append(s, x)) = Len(s) + 1 /\ Append(s, x)[Len(s) + 1] = x
      /\ \A i \in 1 .. Len(s) : Append(s, x)[i] = s[i]
  BY AppendFacts
<1>2. AskingIn(Append(s, x)) =
        IF Asking(x) THEN AskingIn(s) \cup {Len(s) + 1} ELSE AskingIn(s)
  <2>1. ASSUME NEW i
        PROVE  i \in AskingIn(Append(s, x)) <=>
                 i \in AskingIn(s) \/ (Asking(x) /\ i = Len(s) + 1)
    <3>1. CASE i = Len(s) + 1
      BY <1>1, <3>1 DEF AskingIn
    <3>2. CASE i # Len(s) + 1
      BY <1>1, <3>2 DEF AskingIn
    <3>3. QED
      BY <3>1, <3>2
  <2>2. QED
    BY <2>1
<1>3. Len(s) + 1 \notin AskingIn(s)
  BY <1>1 DEF AskingIn
<1>4. QED
  BY <1>2, <1>3, AskingFinite, FS_AddElement

LEMMA AskingTail ==
  ASSUME NEW s \in Seq(Messages), s # <<>>
  PROVE  Cardinality(AskingIn(s)) =
           IF Asking(Head(s)) THEN Cardinality(AskingIn(Tail(s))) + 1
           ELSE Cardinality(AskingIn(Tail(s)))
<1>1. /\ Len(s) \in Nat \ {0} /\ Head(s) = s[1] /\ Len(Tail(s)) = Len(s) - 1
      /\ \A i \in 1 .. Len(s) - 1 : Tail(s)[i] = s[i + 1]
      /\ Tail(s) \in Seq(Messages)
  BY TailFacts
<1> DEFINE before == AskingIn(Tail(s))
           after == AskingIn(s) \ {1}
           f == [i \in before |-> i + 1]
<1>2. \A i : i \in before <=> i \in 1 .. Len(s) - 1 /\ Asking(s[i + 1])
  BY <1>1 DEF AskingIn
<1>3. \A j : j \in after <=> j \in 2 .. Len(s) /\ Asking(s[j])
  BY <1>1 DEF AskingIn
<1>4. f \in [before -> after] /\ \A a, b \in before : f[a] = f[b] => a = b
  BY <1>1, <1>2, <1>3
<1>5. ASSUME NEW j \in after PROVE \E i \in before : f[i] = j
  <2>1. j - 1 \in before /\ (j - 1) + 1 = j
    BY <1>1, <1>2, <1>3, <1>5
  <2>2. QED
    BY <2>1
<1>6. f \in Bijection(before, after)
  BY <1>4, <1>5 DEF Bijection, Injection, Surjection, IsInjective
<1>7. Cardinality(after) = Cardinality(before)
  BY <1>1, <1>6, AskingFinite, FS_Bijection DEF ExistsBijection
<1>8. 1 \in AskingIn(s) <=> Asking(Head(s))
  BY <1>1 DEF AskingIn
<1>9. Cardinality(after) =
        IF 1 \in AskingIn(s) THEN Cardinality(AskingIn(s)) - 1 ELSE Cardinality(AskingIn(s))
  BY AskingFinite, FS_RemoveElement
<1>10. Cardinality(AskingIn(s)) \in Nat /\ Cardinality(before) \in Nat
  BY <1>1, AskingFinite
<1>11. QED
  BY <1>7, <1>8, <1>9, <1>10

-----------------------------------------------------------------------------
(* Served calls.                                                           *)

LEMMA InvokeServes ==
  ASSUME LTypeOK, Ordered, NEW m, NEW out, Invoke(m, out)
  PROVE  /\ Served(out)
         /\ out = "value" => m \in RequestMethods
         /\ UNCHANGED calls
            \/ (m \in {"initialized", "didChangeConfiguration"} /\ (Ask(1) \/ Ask(2)))
<1> USE DEF LTypeOK, Ordered, Served, Outcomes, session, calls
<1>1. CASE Idle /\ out \in {"value", "void", "rpc error", "server error", "exception"}
           /\ (out = "value" => m = "query" /\ Allowed(m))
  BY <1>1 DEF Idle, Allowed, RequestMethods
<1>2. CASE Allowed(m) /\ m = "initialize" /\ out = "value" /\ Initialize
  BY <1>2 DEF Allowed, Initialize, RequestMethods
<1>3. CASE Allowed(m) /\ m = "initialized" /\ out = "void" /\ Initialized
  BY <1>3 DEF Allowed, Initialized
<1>4. CASE Allowed(m) /\ m = "didChangeConfiguration" /\ out = "void" /\ UpdateConfiguration
  BY <1>4 DEF Allowed, UpdateConfiguration
<1>5. CASE Allowed(m) /\ m = "shutdown" /\ out = "value" /\ Shutdown
  BY <1>5 DEF Allowed, Shutdown, RequestMethods
<1>6. CASE Allowed(m) /\ m = "exit" /\ out = "void" /\ Exit
  BY <1>6 DEF Allowed, Exit
<1>7. QED
  BY <1>1, <1>2, <1>3, <1>4, <1>5, <1>6 DEF Invoke, Handle

LEMMA CommandServes ==
  ASSUME LTypeOK, Ordered, NEW c, NEW out, ExecuteCommand(c, out)
  PROVE  /\ Served(out) /\ (c # "unreadable" => out # "exception")
         /\ UNCHANGED calls
            \/ (c \in {"initialized", "didChangeConfiguration"} /\ (Ask(1) \/ Ask(2)))
<1>1. CASE \/ ~Allowed("executeCommand") /\ out = "rpc error" /\ Idle
           \/ c = "unreadable" /\ out = "exception" /\ Idle
  <2>1. /\ is_initialized' = is_initialized /\ is_stopping' = is_stopping
        /\ is_stopped' = is_stopped /\ configurable' = configurable
        /\ UNCHANGED calls
    BY <1>1 DEF Idle, session
  <2>2. Served(out)
    BY <1>1, <2>1 DEF LTypeOK, Ordered, Served, Outcomes, session
  <2>3. QED
    BY <1>1, <2>1, <2>2
<1>2. CASE /\ Allowed("executeCommand") /\ c # "unreadable"
           /\ \E inner \in Outcomes : Invoke(c, inner) /\ out = Relayed(inner)
  <2>1. PICK inner \in Outcomes : Invoke(c, inner) /\ out = Relayed(inner)
    BY <1>2
  <2>2. is_initialized /\ ~is_stopping
    BY <1>2 DEF Allowed
  <2>3. Served(inner) /\ (UNCHANGED calls
          \/ (c \in {"initialized", "didChangeConfiguration"} /\ (Ask(1) \/ Ask(2))))
    BY <2>1, InvokeServes
  <2>4. out = CASE inner = "void" -> "value" [] inner = "exception" -> "rpc error" [] OTHER -> inner
    BY <2>1 DEF Relayed
  <2>5. Served(out) /\ out # "exception"
    BY <2>2, <2>3, <2>4 DEF Served, Outcomes
  <2>6. QED
    BY <2>3, <2>5
<1>3. QED
  BY <1>1, <1>2 DEF ExecuteCommand

LEMMA CallServes ==
  ASSUME LTypeOK, Ordered, NEW msg \in Calls, NEW out, ServeCall(msg, out)
  PROVE  /\ Served(out)
         /\ msg.method = "executeCommand" /\ msg.command # "unreadable" => out # "exception"
         /\ msg.id = NoId => out # "value"
         /\ UNCHANGED calls \/ (Asking(msg) /\ (Ask(1) \/ Ask(2)))
<1>1. msg.kind = "call"
  BY DEF Calls
<1>2. CASE msg.method \in RequestMethods /\ msg.id = NoId /\ out = "rpc error" /\ Idle
  BY <1>2 DEF Idle, LTypeOK, Ordered, Served, Outcomes, session, calls
<1>3. CASE /\ msg.method \in RequestMethods => msg.id # NoId
           /\ msg.method = "executeCommand" /\ ExecuteCommand(msg.command, out)
  <2>1. Served(out) /\ (msg.command # "unreadable" => out # "exception") /\ (UNCHANGED calls
          \/ (msg.command \in {"initialized", "didChangeConfiguration"} /\ (Ask(1) \/ Ask(2))))
    BY <1>3, CommandServes
  <2>2. QED
    BY <1>1, <1>3, <2>1 DEF Asking, Names, RequestMethods
<1>4. CASE /\ msg.method \in RequestMethods => msg.id # NoId
           /\ msg.method # "executeCommand" /\ Invoke(msg.method, out)
  <2>1. Served(out) /\ (out = "value" => msg.method \in RequestMethods) /\ (UNCHANGED calls
          \/ (msg.method \in {"initialized", "didChangeConfiguration"} /\ (Ask(1) \/ Ask(2))))
    BY <1>4, InvokeServes
  <2>2. QED
    BY <1>1, <1>4, <2>1 DEF Asking, Names
<1>5. QED
  BY <1>2, <1>3, <1>4 DEF ServeCall

-----------------------------------------------------------------------------
(* The queue.                                                              *)

LEMMA Takes ==
  ASSUME LIInv, NEW kind, Take(kind)
  PROVE  /\ Head(inbox) \in Messages /\ Head(inbox) = inbox[1] /\ 1 \in 1 .. Len(inbox)
         /\ inbox' \in Seq(Messages)
         /\ ToAsk \in Nat /\ ToAsk' \in Nat
         /\ ToAsk = IF Asking(Head(inbox)) THEN ToAsk' + 1 ELSE ToAsk'
         /\ \A i \in 1 .. Len(inbox') : i + 1 \in 1 .. Len(inbox) /\ inbox'[i] = inbox[i + 1]
<1>1. inbox \in Seq(Messages) /\ inbox # <<>> /\ inbox' = Tail(inbox)
  BY DEF LIInv, LTypeOK, Take
<1>2. ToAsk = Cardinality(AskingIn(inbox)) /\ ToAsk' = Cardinality(AskingIn(inbox'))
  BY DEF ToAsk, AskingIn
<1>3. /\ Len(inbox) \in Nat \ {0} /\ Head(inbox) = inbox[1] /\ Head(inbox) \in Messages
      /\ Tail(inbox) \in Seq(Messages) /\ Len(Tail(inbox)) = Len(inbox) - 1
      /\ \A i \in 1 .. Len(inbox) - 1 : Tail(inbox)[i] = inbox[i + 1]
  BY <1>1, TailFacts
<1>4. ToAsk \in Nat /\ ToAsk' \in Nat
  BY <1>1, <1>2, <1>3, AskingFinite
<1>5. ToAsk = IF Asking(Head(inbox)) THEN ToAsk' + 1 ELSE ToAsk'
  BY <1>1, <1>2, AskingTail
<1>6. \A i \in 1 .. Len(inbox') : i + 1 \in 1 .. Len(inbox) /\ inbox'[i] = inbox[i + 1]
  BY <1>1, <1>3
<1>7. 1 \in 1 .. Len(inbox)
  BY <1>3
<1>8. QED
  BY <1>1, <1>3, <1>4, <1>5, <1>6, <1>7

(* What is pending stays so when a message goes that was not a request, or *)
(* with its request answered.                                              *)
LEMMA TakeKeepsPending ==
  ASSUME LIInv, NEW kind, Take(kind), NEW reply,
         \/ replies' = replies
         \/ /\ Head(inbox).kind = "call" /\ Head(inbox).id \in Requests
            /\ replies' = [replies EXCEPT ![Head(inbox).id] = reply]
  PROVE  Pending'
<1>1. /\ Head(inbox) = inbox[1] /\ 1 \in 1 .. Len(inbox)
      /\ inbox' \in Seq(Messages)
      /\ \A i \in 1 .. Len(inbox') : i + 1 \in 1 .. Len(inbox) /\ inbox'[i] = inbox[i + 1]
  BY Takes
<1>2. ASSUME NEW i \in 1 .. Len(inbox'), inbox'[i].kind = "call", inbox'[i].id # NoId
      PROVE  replies'[inbox'[i].id] = "waiting"
  <2>1. i + 1 \in 1 .. Len(inbox) /\ inbox'[i] = inbox[i + 1] /\ i + 1 # 1
    BY <1>1, Len(inbox') \in Nat
  <2>2. replies[inbox'[i].id] = "waiting"
    BY <1>2, <2>1 DEF LIInv, Pending
  <2>3. CASE replies' = replies
    BY <2>2, <2>3
  <2>4. CASE /\ Head(inbox).kind = "call" /\ Head(inbox).id \in Requests
             /\ replies' = [replies EXCEPT ![Head(inbox).id] = reply]
    <3>1. inbox'[i].id # Head(inbox).id
      BY <1>1, <1>2, <2>1, <2>4, RequestsAssumption DEF LIInv, Pending
    <3>2. inbox'[i] \in Messages
      BY <1>1
    <3>3. inbox'[i].id \in Requests
      BY <1>2, <3>2 DEF Messages, Calls, Answers, Malformed
    <3>4. QED
      BY <2>2, <2>4, <3>1, <3>3 DEF LIInv, LTypeOK
  <2>5. QED
    BY <2>3, <2>4
<1>3. ASSUME NEW i \in 1 .. Len(inbox'), NEW j \in 1 .. Len(inbox'),
             inbox'[i].kind = "call", inbox'[j].kind = "call",
             inbox'[i].id # NoId, inbox'[i].id = inbox'[j].id
      PROVE  i = j
  <2>1. /\ i + 1 \in 1 .. Len(inbox) /\ inbox'[i] = inbox[i + 1]
        /\ j + 1 \in 1 .. Len(inbox) /\ inbox'[j] = inbox[j + 1]
    BY <1>1
  <2>2. i + 1 = j + 1
    BY <1>3, <2>1 DEF LIInv, Pending
  <2>3. QED
    BY <2>2
<1>4. QED
  BY <1>2, <1>3 DEF Pending

LEMMA Pushes ==
  ASSUME LIInv, NEW msg \in Messages, Push(msg)
  PROVE  /\ inbox' \in Seq(Messages) /\ asked' + ToAsk' <= MaxAsked
         /\ Len(inbox) \in Nat /\ Len(inbox') = Len(inbox) + 1 /\ inbox'[Len(inbox) + 1] = msg
         /\ \A i \in 1 .. Len(inbox) : inbox'[i] = inbox[i]
<1>1. inbox \in Seq(Messages) /\ inbox' = Append(inbox, msg) /\ asked' = asked
  BY DEF LIInv, LTypeOK, Push, calls
<1>2. /\ ToAsk = Cardinality(AskingIn(inbox)) /\ ToAsk' = Cardinality(AskingIn(inbox'))
      /\ ToAsk \in Nat
  BY <1>1, AskingFinite DEF ToAsk, AskingIn
<1>3. ToAsk' = IF Asking(msg) THEN ToAsk + 1 ELSE ToAsk
  BY <1>1, <1>2, AskingAppend
<1>4. asked \in Nat /\ MaxAsked \in Nat
  BY BoundsAssumption DEF LIInv, LTypeOK
<1>5. asked' + ToAsk' <= MaxAsked
  BY <1>1, <1>2, <1>3, <1>4 DEF LIInv, Push
<1>6. QED
  BY <1>1, <1>5, AppendFacts

-----------------------------------------------------------------------------
(* Steps of the client.                                                    *)

(* A message that is not a request changes nothing else.                   *)
LEMMA PushStep ==
  ASSUME LIInv, NEW msg \in Messages, Push(msg), UNCHANGED replies,
         msg.kind = "call" => msg.id = NoId
  PROVE  LIInv'
<1>1. UNCHANGED <<is_initialized, is_stopping, is_stopped, configurable, server,
                  accepted_extensions, asked, bound_callbacks, active_req_args, replies>>
  BY DEF Push, session, calls
<1>2. LTypeOK'
  BY <1>1, Pushes DEF LIInv, LTypeOK, CallbacksHaveArguments
<1>3. Pending'
  BY <1>1, Pushes DEF LIInv, Pending
<1>4. QED
  BY <1>1, <1>2, <1>3, Pushes DEF LIInv, Ordered

LEMMA RequestStep ==
  ASSUME LIInv, NEW r \in Requests, NEW m \in Methods, NEW c \in Commands, SendRequest(r, m, c)
  PROVE  LIInv'
<1> DEFINE msg == [kind |-> "call", id |-> r, method |-> m, command |-> c]
<1>1. msg \in Messages /\ msg.kind = "call" /\ msg.id = r /\ Push(msg)
  BY DEF Messages, Calls, SendRequest
<1> HIDE DEF msg
<1>2. UNCHANGED <<is_initialized, is_stopping, is_stopped, configurable, server,
                  accepted_extensions, asked, bound_callbacks, active_req_args>>
  BY <1>1 DEF Push, session, calls
<1>3. replies[r] = "unsent" /\ replies' = [replies EXCEPT ![r] = "waiting"]
  BY DEF SendRequest
<1>4. LTypeOK'
  BY <1>1, <1>2, <1>3, Pushes DEF LIInv, LTypeOK, CallbacksHaveArguments
<1>5. Pending'
  <2>1. \A i \in 1 .. Len(inbox) :
          inbox[i].kind = "call" => inbox[i].id \in Requests \cup {NoId} /\ inbox[i].id # r
    <3>1. \A i \in 1 .. Len(inbox) : inbox[i] \in Messages
      BY DEF LIInv, LTypeOK
    <3>2. \A i \in 1 .. Len(inbox) :
            inbox[i].kind = "call" => inbox[i].id \in Requests \cup {NoId}
      BY <3>1 DEF Messages, Calls, Answers, Malformed
    <3>3. QED
      BY <1>3, <3>2, RequestsAssumption DEF LIInv, Pending
  <2>2. /\ Len(inbox) \in Nat /\ Len(inbox') = Len(inbox) + 1 /\ inbox'[Len(inbox) + 1] = msg
        /\ \A i \in 1 .. Len(inbox) : inbox'[i] = inbox[i]
    BY <1>1, Pushes
  <2>3. \A q \in Requests \ {r} : replies'[q] = replies[q]
    BY <1>3 DEF LIInv, LTypeOK
  <2>4. replies'[r] = "waiting"
    BY <1>3 DEF LIInv, LTypeOK
  <2>5. ASSUME NEW i \in 1 .. Len(inbox'), inbox'[i].kind = "call", inbox'[i].id # NoId
        PROVE  replies'[inbox'[i].id] = "waiting"
    <3>1. CASE i = Len(inbox) + 1
      BY <1>1, <2>2, <2>4, <3>1
    <3>2. CASE i \in 1 .. Len(inbox)
      BY <2>1, <2>2, <2>3, <2>5, <3>2 DEF LIInv, Pending
    <3>3. QED
      BY <2>2, <3>1, <3>2
  <2>6. ASSUME NEW i \in 1 .. Len(inbox'), NEW j \in 1 .. Len(inbox'),
               inbox'[i].kind = "call", inbox'[j].kind = "call",
               inbox'[i].id # NoId, inbox'[i].id = inbox'[j].id
        PROVE  i = j
    <3>1. CASE i \in 1 .. Len(inbox) /\ j \in 1 .. Len(inbox)
      BY <2>2, <2>6, <3>1 DEF LIInv, Pending
    <3>2. CASE i = Len(inbox) + 1 \/ j = Len(inbox) + 1
      <4>1. i \in 1 .. Len(inbox) \/ i = Len(inbox) + 1
        BY <2>2
      <4>2. j \in 1 .. Len(inbox) \/ j = Len(inbox) + 1
        BY <2>2
      <4>3. QED
        BY <1>1, <2>1, <2>2, <2>6, <3>2, <4>1, <4>2
    <3>3. QED
      BY <2>2, <3>1, <3>2
  <2>7. QED
    BY <2>5, <2>6 DEF Pending
<1>6. QED
  BY <1>1, <1>2, <1>4, <1>5, Pushes DEF LIInv, Ordered

LEMMA ClientStep == ASSUME LIInv, Client PROVE LIInv'
<1>1. ASSUME NEW m \in Methods, SendNotification(m) PROVE LIInv'
  <2> DEFINE msg == [kind |-> "call", id |-> NoId, method |-> m, command |-> "unknown"]
  <2>1. msg \in Messages /\ msg.id = NoId
    BY DEF Messages, Calls, Commands, Methods, RequestMethods
  <2>2. QED
    BY <1>1, <2>1, PushStep DEF SendNotification
<1>2. ASSUME NEW r \in Requests, NEW m \in Methods, NEW c \in Commands, SendRequest(r, m, c)
      PROVE  LIInv'
  BY <1>2, RequestStep
<1>3. ASSUME NEW k \in 0 .. MaxAsked, NEW result \in {"list", "error", "unreadable"}, SendAnswer(k, result)
      PROVE  LIInv'
  <2> DEFINE msg == [kind |-> "answer", id |-> k, result |-> result]
  <2>1. msg \in Messages /\ msg.kind # "call"
    BY DEF Messages, Answers
  <2>2. QED
    BY <1>3, <2>1, PushStep DEF SendAnswer
<1>4. CASE SendMalformed
  <2> DEFINE msg == [kind |-> "malformed"]
  <2>1. msg \in Messages /\ msg.kind # "call"
    BY DEF Messages, Malformed
  <2>2. QED
    BY <1>4, <2>1, PushStep DEF SendMalformed
<1>5. CASE Disconnect
  <2>1. UNCHANGED <<is_initialized, is_stopping, is_stopped, configurable,
                    accepted_extensions, asked, bound_callbacks, active_req_args, replies>>
    BY <1>5 DEF Disconnect, session, calls
  <2>2. server' = "ended" /\ inbox' = <<>>
    BY <1>5 DEF Disconnect
  <2>3. LTypeOK'
    BY <2>1, <2>2 DEF LIInv, LTypeOK, CallbacksHaveArguments
  <2>4. ToAsk' = 0 /\ Pending'
    <3>1. ToAsk' = Cardinality({i \in 1 .. Len(<<>>) : Asking(<<>>[i])})
      BY <2>2 DEF ToAsk
    <3>2. {i \in 1 .. Len(<<>>) : Asking(<<>>[i])} = {}
      OBVIOUS
    <3>3. QED
      BY <2>2, <3>1, <3>2, FS_EmptySet DEF Pending
  <2>5. asked' + ToAsk' <= MaxAsked
    BY <2>1, <2>4, BoundsAssumption DEF LIInv, LTypeOK
  <2>6. QED
    BY <2>1, <2>2, <2>3, <2>4, <2>5 DEF LIInv, Ordered
<1>6. QED
  BY <1>1, <1>2, <1>3, <1>4, <1>5 DEF Client

-----------------------------------------------------------------------------
(* Steps of the loop.                                                      *)

(* The server's request takes the next number, its callback and its        *)
(* arguments.                                                              *)
LEMMA AskTypes ==
  ASSUME LTypeOK, asked + 1 <= MaxAsked, Ask(1) \/ Ask(2)
  PROVE  /\ asked' = asked + 1 /\ asked' \in 0 .. MaxAsked
         /\ bound_callbacks' \subseteq 1 .. asked' /\ CallbacksHaveArguments'
         /\ \A k \in DOMAIN active_req_args' : active_req_args'[k] \in {1, 2}
<1>1. PICK items \in {1, 2} : Ask(items)
  OBVIOUS
<1>2. /\ asked' = asked + 1 /\ bound_callbacks' = bound_callbacks \cup {asked'}
      /\ active_req_args' = [k \in DOMAIN active_req_args \cup {asked'} |->
                               IF k = asked' THEN items ELSE active_req_args[k]]
  BY <1>1 DEF Ask
<1>3. asked \in Nat /\ MaxAsked \in Nat /\ asked' \in 0 .. MaxAsked
  BY <1>2, BoundsAssumption DEF LTypeOK
<1>4. bound_callbacks' \subseteq 1 .. asked'
  BY <1>2, <1>3 DEF LTypeOK
<1>5. DOMAIN active_req_args' = DOMAIN active_req_args \cup {asked'}
  BY <1>2
<1>6. CallbacksHaveArguments'
  BY <1>2, <1>5 DEF LTypeOK, CallbacksHaveArguments
<1>7. \A k \in DOMAIN active_req_args' : active_req_args'[k] \in {1, 2}
  BY <1>2, <1>5 DEF LTypeOK
<1>8. QED
  BY <1>2, <1>3, <1>4, <1>6, <1>7

(* What a served call does to everything but the session.                  *)
LEMMA CallStep ==
  ASSUME LIInv, NEW out, ServeCall(Head(inbox), out)
  PROVE  LIInv'
<1> DEFINE msg == Head(inbox)
<1>1. Take("call") /\ Reply(msg.id, out) /\ After(out) /\ UNCHANGED accepted_extensions
  BY DEF ServeCall
<1>2. server = "running" /\ msg.kind = "call"
  BY <1>1 DEF Take
<1>3. msg \in Calls
  BY <1>1, <1>2, Takes DEF Messages, Calls, Answers, Malformed
<1>4. Served(out) /\ (UNCHANGED calls \/ (Asking(msg) /\ (Ask(1) \/ Ask(2))))
  BY <1>3, CallServes DEF LIInv
<1>5. /\ inbox' \in Seq(Messages) /\ ToAsk \in Nat /\ ToAsk' \in Nat
      /\ ToAsk = IF Asking(msg) THEN ToAsk' + 1 ELSE ToAsk'
  BY <1>1, Takes
<1>count. ToAsk \in Nat /\ ToAsk' \in Nat
  BY <1>5
<1>6. /\ asked' \in 0 .. MaxAsked /\ asked' + ToAsk' <= MaxAsked
      /\ bound_callbacks' \subseteq 1 .. asked' /\ CallbacksHaveArguments'
      /\ \A k \in DOMAIN active_req_args' : active_req_args'[k] \in {1, 2}
  <2>1. asked \in Nat /\ MaxAsked \in Nat /\ asked <= MaxAsked /\ asked + ToAsk <= MaxAsked
    BY BoundsAssumption DEF LIInv, LTypeOK
  <2>2. CASE UNCHANGED calls
    <3>1. UNCHANGED <<asked, bound_callbacks, active_req_args>>
      BY <2>2 DEF calls
    <3>2. ToAsk' <= ToAsk
      BY <1>1, Takes
    <3>3. asked' + ToAsk' <= MaxAsked
      BY <1>count, <2>1, <3>1, SumBound, <3>2
    <3>4. QED
      BY <3>1, <3>3 DEF LIInv, LTypeOK, CallbacksHaveArguments
  <2>3. CASE Asking(msg) /\ (Ask(1) \/ Ask(2))
    <3>1. ToAsk = ToAsk' + 1
      BY <1>5, <2>3
    <3>2. asked + 1 <= MaxAsked /\ (asked + 1) + ToAsk' <= MaxAsked
      BY <1>count, <2>1, <3>1, SumBound
    <3>3. asked' + ToAsk' <= MaxAsked /\ LTypeOK
      BY <2>3, <3>2 DEF Ask, LIInv
    <3>4. QED
      BY <2>3, <3>2, <3>3, AskTypes
  <2>4. QED
    BY <1>4, <2>2, <2>3
<1>7. PICK reply \in {"value", "error", "dropped"} :
        \/ replies' = replies
        \/ msg.id \in Requests /\ replies' = [replies EXCEPT ![msg.id] = reply]
  BY <1>1, <1>3 DEF Reply, Calls
<1>8. replies' \in [Requests -> {"unsent", "waiting", "value", "error", "dropped"}]
  BY <1>7 DEF LIInv, LTypeOK
<1>9. server' \in {"running", "ended", "dead"} /\ (server' = "running" => ~is_stopped')
  BY <1>1, <1>2 DEF After
<1>10. LTypeOK'
  BY <1>1, <1>4, <1>5, <1>6, <1>8, <1>9 DEF LIInv, LTypeOK, Served
<1>11. Pending'
  BY <1>1, <1>2, <1>7, TakeKeepsPending
<1>12. QED
  BY <1>4, <1>6, <1>9, <1>10, <1>11 DEF LIInv, Ordered, Served

LEMMA AnswerStep ==
  ASSUME LIInv, ServeAnswer(Head(inbox))
  PROVE  LIInv'
<1> DEFINE msg == Head(inbox)
<1>1. /\ Take("answer")
      /\ UNCHANGED <<is_initialized, is_stopping, is_stopped, configurable, replies>>
  BY DEF ServeAnswer, session
<1>server. server' \in {server, "dead"}
  BY DEF ServeAnswer, RunCallback
<1>2. /\ inbox' \in Seq(Messages) /\ ToAsk \in Nat /\ ToAsk' \in Nat /\ ToAsk' <= ToAsk
  BY <1>1, Takes
<1>3. /\ asked' = asked /\ bound_callbacks' \subseteq bound_callbacks /\ CallbacksHaveArguments'
      /\ \A k \in DOMAIN active_req_args' : active_req_args'[k] \in {1, 2}
      /\ accepted_extensions' \in {"some", "none"}
  <2>1. CASE msg.id \in bound_callbacks
    <3>1. RunCallback(msg) /\ Release(msg.id)
      BY <2>1 DEF ServeAnswer
    <3>2. QED
      BY <3>1 DEF RunCallback, GetConfiguration, Release, LIInv, LTypeOK, CallbacksHaveArguments
  <2>2. CASE msg.id \notin bound_callbacks
    BY <2>2 DEF ServeAnswer, calls, LIInv, LTypeOK, CallbacksHaveArguments
  <2>3. QED
    BY <2>1, <2>2
<1>4. LTypeOK'
  BY <1>1, <1>server, <1>2, <1>3 DEF LIInv, LTypeOK
<1>5. Pending'
  BY <1>1, TakeKeepsPending
<1>6. asked' + ToAsk' <= MaxAsked
  <2>1. /\ asked \in Nat /\ MaxAsked \in Nat /\ asked + ToAsk <= MaxAsked
        /\ ToAsk \in Nat /\ ToAsk' \in Nat /\ ToAsk' <= ToAsk /\ asked' = asked
    BY <1>2, <1>3, BoundsAssumption DEF LIInv, LTypeOK
  <2>2. QED
    BY <2>1, SumBound
<1>7. QED
  BY <1>1, <1>server, <1>4, <1>5, <1>6 DEF LIInv, Ordered

LEMMA MalformedStep == ASSUME LIInv, ServeMalformed PROVE LIInv'
<1>1. /\ Take("malformed")
      /\ server' \in {server, "dead"}
      /\ UNCHANGED <<is_initialized, is_stopping, is_stopped, configurable,
                     accepted_extensions, asked, bound_callbacks, active_req_args, replies>>
  BY DEF ServeMalformed, session, calls
<1>2. /\ inbox' \in Seq(Messages) /\ ToAsk \in Nat /\ ToAsk' \in Nat /\ ToAsk' <= ToAsk
  BY <1>1, Takes
<1>3. LTypeOK'
  BY <1>1, <1>2 DEF LIInv, LTypeOK, CallbacksHaveArguments
<1>4. Pending'
  BY <1>1, TakeKeepsPending
<1>5. asked' + ToAsk' <= MaxAsked
  <2>1. /\ asked \in Nat /\ MaxAsked \in Nat /\ asked + ToAsk <= MaxAsked
        /\ ToAsk \in Nat /\ ToAsk' \in Nat /\ ToAsk' <= ToAsk /\ asked' = asked
    BY <1>1, <1>2, BoundsAssumption DEF LIInv, LTypeOK
  <2>2. QED
    BY <2>1, SumBound
<1>6. QED
  BY <1>1, <1>3, <1>4, <1>5 DEF LIInv, Ordered

LEMMA LspInductive == LIInv /\ [LNext]_vars => LIInv'
<1> SUFFICES ASSUME LIInv, [LNext]_vars PROVE LIInv'
  OBVIOUS
<1>1. CASE UNCHANGED vars
  <2>1. UNCHANGED <<is_initialized, is_stopping, is_stopped, configurable, server, inbox,
                    accepted_extensions, asked, bound_callbacks, active_req_args, replies>>
    BY <1>1 DEF vars, session, calls
  <2>2. LTypeOK' /\ ToAsk' = ToAsk /\ Pending' /\ Ordered'
    BY <2>1 DEF LIInv, LTypeOK, CallbacksHaveArguments, ToAsk, Pending, Ordered
  <2>3. QED
    BY <2>1, <2>2 DEF LIInv
<1>2. QED
  BY <1>1, ClientStep, CallStep, AnswerStep, MalformedStep DEF LNext, Serve

LEMMA LspInit == LInit => LIInv
<1> SUFFICES ASSUME LInit PROVE LIInv
  OBVIOUS
<1>1. inbox = <<>> /\ asked = 0
  BY DEF LInit
<1>2. ToAsk = 0
  <2>1. {i \in 1 .. Len(inbox) : Asking(inbox[i])} = {}
    BY <1>1
  <2>2. QED
    BY <2>1, FS_EmptySet DEF ToAsk
<1>3. LTypeOK
  <2>1. active_req_args = <<>> /\ DOMAIN active_req_args = {} /\ bound_callbacks = {}
    BY DEF LInit
  <2>2. asked \in 0 .. MaxAsked
    BY <1>1, BoundsAssumption
  <2>3. {is_initialized, is_stopping, is_stopped, configurable} \subseteq BOOLEAN
    BY DEF LInit
  <2>4. inbox \in Seq(Messages)
    BY <1>1
  <2>5. replies \in [Requests -> {"unsent", "waiting", "value", "error", "dropped"}]
    BY DEF LInit
  <2>6. server \in {"running", "ended", "dead"} /\ accepted_extensions \in {"some", "none"}
    BY DEF LInit
  <2>7. QED
    BY <2>1, <2>2, <2>3, <2>4, <2>5, <2>6 DEF LTypeOK, CallbacksHaveArguments
<1>4. Pending /\ Ordered
  BY <1>1 DEF LInit, Pending, Ordered
<1>5. QED
  BY <1>1, <1>2, <1>3, <1>4, BoundsAssumption DEF LIInv

LEMMA LspInvariant == LSpec => []LIInv
BY LspInit, LspInductive, PTL DEF LSpec

(* Every value keeps its type, and every callback finds its arguments:     *)
(* whatever the client answers, how often and in which order.              *)
THEOREM LTypesHold == LSpec => []LTypeOK
<1>1. LIInv => LTypeOK
  BY DEF LIInv
<1>2. QED
  BY <1>1, LspInvariant, PTL

-----------------------------------------------------------------------------
(* The session that the loop implements.                                   *)

LEMMA PhaseFacts ==
  ASSUME LTypeOK
  PROVE
  /\ server # "running" => Phase = "ended"
  /\ server = "running" /\ is_stopping => Phase = "stopping"
  /\ server = "running" /\ ~is_stopping /\ is_initialized => Phase = "running"
  /\ server = "running" /\ ~is_stopping /\ ~is_initialized => Phase = "new"
BY DEF Phase, LTypeOK

LEMMA PhaseFactsNext ==
  ASSUME LTypeOK'
  PROVE
  /\ server' # "running" => Phase' = "ended"
  /\ server' = "running" /\ is_stopping' => Phase' = "stopping"
  /\ server' = "running" /\ ~is_stopping' /\ is_initialized' => Phase' = "running"
  /\ server' = "running" /\ ~is_stopping' /\ ~is_initialized' => Phase' = "new"
BY DEF Phase, LTypeOK

LEMMA PhaseKept ==
  ASSUME UNCHANGED <<server, is_stopping, is_initialized>>
  PROVE  UNCHANGED Phase
BY DEF Phase

(* A served call is one answer, a refusal, the end, or nothing to see.     *)
LEMMA CallIsSession ==
  ASSUME LIInv, LIInv', NEW out, ServeCall(Head(inbox), out)
  PROVE  Session!Next \/ UNCHANGED <<Phase, replies>>
<1> DEFINE msg == Head(inbox)
<1> USE DEF LIInv
<1>1. Take("call") /\ Reply(msg.id, out) /\ After(out)
  BY DEF ServeCall
<1>2. server = "running" /\ msg.kind = "call" /\ ~is_stopped
  BY <1>1 DEF Take, LIInv, Ordered
<1>3. msg \in Calls
  BY <1>1, <1>2, Takes DEF Messages, Calls, Answers, Malformed
<1>4. Served(out) /\ (msg.id = NoId => out # "value")
  BY <1>3, CallServes DEF LIInv
<1>5. msg.id # NoId => msg.id \in Requests /\ replies[msg.id] = "waiting"
  BY <1>1, <1>2, <1>3, Takes DEF LIInv, Pending, Calls
<1>6. CASE out = "value"
  <2>1. msg.id \in Requests /\ replies[msg.id] = "waiting"
    BY <1>4, <1>5, <1>6
  <2>2. replies' = [replies EXCEPT ![msg.id] = "value"]
    BY <1>1, <1>4, <1>6 DEF Reply
  <2>3. \/ Phase = "new" /\ Phase' = "running"
        \/ Phase = "running" /\ Phase' \in {"running", "stopping", "ended"}
    <3>1. /\ is_initialized' /\ (is_initialized => ~is_stopping)
          /\ ~is_initialized => ~is_stopping' /\ is_stopped' = is_stopped
      BY <1>4, <1>6 DEF Served
    <3>2. server' = IF is_stopped' THEN "ended" ELSE server
      BY <1>1, <1>6 DEF After
    <3>3. CASE is_initialized
      BY <1>2, <3>1, <3>2, <3>3, PhaseFacts, PhaseFactsNext
    <3>4. CASE ~is_initialized
      BY <1>2, <3>1, <3>2, <3>4, PhaseFacts, PhaseFactsNext DEF LIInv, Ordered
    <3>5. QED
      BY <3>3, <3>4
  <2>4. Session!Accept(msg.id)
    BY <2>1, <2>2, <2>3 DEF Session!Accept
  <2>5. QED
    BY <2>1, <2>4 DEF Session!Next
<1>7. CASE out \in {"rpc error", "server error"}
  <2>1. UNCHANGED <<server, is_stopping, is_initialized>>
    <3>1. is_stopped' = is_stopped /\ UNCHANGED <<is_stopping, is_initialized>>
      BY <1>4, <1>7 DEF Served, session
    <3>2. server' = IF is_stopped' THEN "ended" ELSE server
      BY <1>1, <1>7 DEF After
    <3>3. QED
      BY <1>2, <3>1, <3>2
  <2>2. UNCHANGED Phase /\ Phase # "ended"
    BY <1>2, <2>1, PhaseKept, PhaseFacts
  <2>3. CASE msg.id = NoId
    BY <1>1, <2>2, <2>3 DEF Reply
  <2>4. CASE msg.id # NoId
    <3>1. replies' = [replies EXCEPT ![msg.id] = IF out = "rpc error" THEN "error" ELSE "dropped"]
      BY <1>1, <1>7, <2>4 DEF Reply
    <3>2. Session!Refuse(msg.id) \/ Session!Drop(msg.id)
      BY <1>5, <2>2, <2>4, <3>1 DEF Session!Refuse, Session!Drop
    <3>3. QED
      BY <1>5, <2>4, <3>2 DEF Session!Next
  <2>5. QED
    BY <2>3, <2>4
<1>8. CASE out = "exception"
  <2>1. replies' = replies /\ Phase' = "ended"
    BY <1>1, <1>8, PhaseFactsNext DEF Reply, After
  <2>2. QED
    BY <2>1 DEF Session!Next, Session!End
<1>9. CASE out = "void"
  <2>1. replies' = replies /\ UNCHANGED <<is_initialized, is_stopping>>
    BY <1>1, <1>4, <1>9 DEF Reply, Served
  <2>2. server' = IF is_stopped' THEN "ended" ELSE server
    BY <1>1, <1>9 DEF After
  <2>3. CASE is_stopped'
    BY <2>1, <2>2, <2>3, PhaseFactsNext DEF Session!Next, Session!End
  <2>4. CASE ~is_stopped'
    BY <2>1, <2>2, <2>4, PhaseKept
  <2>5. QED
    BY <2>3, <2>4
<1>10. QED
  BY <1>4, <1>6, <1>7, <1>8, <1>9 DEF Served, Outcomes

LEMMA StepIsSession ==
  ASSUME LIInv, LIInv', [LNext]_vars
  PROVE  Session!Next \/ UNCHANGED <<Phase, replies>>
<1>1. ASSUME NEW r \in Requests, NEW m \in Methods, NEW c \in Commands, SendRequest(r, m, c)
      PROVE  Session!Next
  <2>1. /\ server = "running" /\ UNCHANGED <<server, is_stopping, is_initialized>>
    BY <1>1 DEF SendRequest, Push, session
  <2>2. Phase # "ended" /\ UNCHANGED Phase
    BY <2>1, PhaseKept, PhaseFacts DEF LIInv
  <2>3. Session!Ask(r)
    BY <1>1, <2>2 DEF SendRequest, Session!Ask
  <2>4. QED
    BY <2>3 DEF Session!Next
<1>2. CASE \/ \E m \in Methods : SendNotification(m)
           \/ \E k \in 0 .. MaxAsked, result \in {"list", "error", "unreadable"} : SendAnswer(k, result)
           \/ SendMalformed \/ UNCHANGED vars
           \/ (ServeAnswer(Head(inbox)) \/ ServeMalformed) /\ UNCHANGED server
  <2>1. UNCHANGED <<server, is_stopping, is_initialized, replies>>
    BY <1>2 DEF SendNotification, SendAnswer, SendMalformed, Push, ServeAnswer, ServeMalformed,
                vars, session
  <2>2. QED
    BY <2>1, PhaseKept
<1>3. CASE Disconnect
  <2>1. Phase' = "ended" /\ replies' = replies
    BY <1>3, PhaseFactsNext DEF Disconnect, LIInv
  <2>2. QED
    BY <2>1 DEF Session!Next, Session!End
<1>4. CASE (ServeAnswer(Head(inbox)) \/ ServeMalformed) /\ server' # server
  <2>1. server' = "dead" /\ replies' = replies
    BY <1>4 DEF ServeAnswer, RunCallback, ServeMalformed, session
  <2>2. Phase' = "ended"
    BY <2>1, PhaseFactsNext DEF LIInv
  <2>3. QED
    BY <2>1, <2>2 DEF Session!Next, Session!End
<1>5. QED
  BY <1>1, <1>2, <1>3, <1>4, CallIsSession DEF LNext, Client, Serve

(* The loop is a session: each request gets one answer at most, the phase  *)
(* moves as RpcSession allows, and refusals, failures and answers of the   *)
(* client leave it where it was, for any number of requests.               *)
THEOREM LoopIsSession == LSpec => SessionSpec
<1>1. LInit => Session!Init
  BY LspInit, PhaseFacts DEF LInit, LIInv, Session!Init
<1>2. LIInv /\ LIInv' /\ [LNext]_vars => [Session!Next]_(Session!vars)
  BY StepIsSession DEF Session!vars
<1>3. QED
  BY <1>1, <1>2, LspInvariant, PTL DEF LSpec, SessionSpec, Session!Spec

(* Whatever a method does under executeCommand, the server survives it,    *)
(* unless the parameters of executeCommand itself could not be read.       *)
THEOREM CommandsStayContained == LSpec => CommandsAreContained
<1>1. LIInv /\ [LNext]_vars =>
        [ \A msg \in Calls :
            /\ inbox # <<>> /\ Head(inbox) = msg /\ inbox' = Tail(inbox)
            /\ msg.method = "executeCommand" /\ msg.command # "unreadable"
            => server' # "dead" ]_vars
  <2> SUFFICES ASSUME LIInv, LNext, NEW msg \in Calls,
                      inbox # <<>>, Head(inbox) = msg, inbox' = Tail(inbox),
                      msg.method = "executeCommand", msg.command # "unreadable"
               PROVE  server' # "dead"
    OBVIOUS
  <2>1. CASE \E out \in Outcomes : ServeCall(Head(inbox), out)
    <3>1. PICK out \in Outcomes : ServeCall(Head(inbox), out)
      BY <2>1
    <3>2. out # "exception" /\ server = "running"
      BY <3>1, CallServes DEF LIInv, ServeCall, Take
    <3>3. QED
      BY <3>1, <3>2 DEF ServeCall, After
  <2>2. CASE ServeAnswer(Head(inbox)) \/ ServeMalformed
    BY <2>2 DEF ServeAnswer, ServeMalformed, Take, Calls
  <2>3. CASE Disconnect
    BY <2>3 DEF Disconnect
  <2>4. CASE Client /\ ~Disconnect
    BY <2>4 DEF Client, SendNotification, SendRequest, SendAnswer, SendMalformed, Push
  <2>5. QED
    BY <2>1, <2>2, <2>3, <2>4 DEF LNext, Serve
<1>2. QED
  BY <1>1, LspInvariant, PTL DEF LSpec, CommandsAreContained
=============================================================================
