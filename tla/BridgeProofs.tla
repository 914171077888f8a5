---------------------------- MODULE BridgeProofs ----------------------------
(***************************************************************************)
(* Theorems about Bridge, for every timeout, every size of chunk, window   *)
(* and socket buffer, with and without --one-shot and the watchdog.        *)
(***************************************************************************)
EXTENDS Bridge, SequenceTheorems, TLAPS

\* The inductive invariant behind WatchdogInTime.  No more than Window
\* requests are outstanding, so no reply ever blocks the thread ...
WindowInv ==
    /\ Outstanding <= Window
    /\ pc \in {"watchdog", "select"} => buffer = <<>>
    /\ pc \in {"lines", "leave"} => Len(buffer) <= MaxChunk
    /\ pc \in {"reading", "reply"} => Len(buffer) < MaxChunk

\* ... and what is left of the budget of a pass shrinks with the lines handled.
Budget(n) == n * ReadTimeout

TimeInv ==
    Unvouched =>
        /\ pc = "select" => age <= Heartbeat + waited /\ waited <= SelectTimeout
        /\ pc \in {"lines", "reply"} =>
               age + Budget(Len(buffer)) <= Heartbeat + SelectTimeout + Budget(MaxChunk)
        /\ pc = "reading" =>
               /\ waited <= ReadTimeout
               /\ age + Budget(Len(buffer) + 1)
                      <= Heartbeat + SelectTimeout + Budget(MaxChunk) + waited
        /\ pc = "leave" => age <= Heartbeat + Pass
-----------------------------------------------------------------------------
(* Types *)

\* What the steps below know of sequences.
LEMMA SeqFacts ==
    ASSUME NEW S, NEW s \in Seq(S)
    PROVE  /\ Len(s) \in Nat
           /\ \A e \in S : Append(s, e) \in Seq(S) /\ Len(Append(s, e)) = Len(s) + 1
           /\ s # <<>> => /\ Head(s) \in S /\ Tail(s) \in Seq(S)
                          /\ Len(Tail(s)) = Len(s) - 1 /\ Len(s) > 0
OBVIOUS

\* recv splits the requests under way.
LEMMA SplitFacts ==
    ASSUME NEW S, NEW s \in Seq(S), NEW n \in 1 .. Len(s)
    PROVE  /\ SubSeq(s, 1, n) \in Seq(S) /\ Len(SubSeq(s, 1, n)) = n
           /\ SubSeq(s, n + 1, Len(s)) \in Seq(S)
           /\ Len(SubSeq(s, n + 1, Len(s))) = Len(s) - n
<1>1. Len(s) \in Nat /\ n \in Int /\ n + 1 \in Int /\ Len(s) \in Int
  OBVIOUS
<1>2. (\A i \in 1 .. n : s[i] \in S) /\ (\A i \in n + 1 .. Len(s) : s[i] \in S)
  BY <1>1
<1>3. SubSeq(s, 1, n) \in Seq(S) /\ Len(SubSeq(s, 1, n)) = IF 1 <= n THEN n - 1 + 1 ELSE 0
  BY <1>1, <1>2, SubSeqProperties
<1>4. /\ SubSeq(s, n + 1, Len(s)) \in Seq(S)
      /\ Len(SubSeq(s, n + 1, Len(s))) = IF n + 1 <= Len(s) THEN Len(s) - (n + 1) + 1 ELSE 0
  BY <1>1, <1>2, SubSeqProperties
<1>5. n = n - 1 + 1 /\ 1 <= n /\ (n + 1 <= Len(s) => Len(s) - (n + 1) + 1 = Len(s) - n)
      /\ (~(n + 1 <= Len(s)) => Len(s) - n = 0)
  BY <1>1
<1> QED BY <1>3, <1>4, <1>5

\* The library's part of the state keeps its type.
LEMMA SubmitType ==
    ASSUME TypeOK, NEW c \in Actions, Drive!Submit(c)
    PROVE  pending' \in Seq(Actions) /\ current' \in Actions \cup {"neutral"}
<1>1. pending \in Seq(Actions) /\ current \in Actions \cup {"neutral"}
  BY DEF TypeOK
<1> QED BY <1>1, SeqFacts DEF Drive!Submit

LEMMA ApplyType ==
    ASSUME TypeOK, Drive!Apply
    PROVE  pending' \in Seq(Actions) /\ current' \in Actions \cup {"neutral"}
<1>1. pending \in Seq(Actions)
  BY DEF TypeOK
<1> QED BY <1>1, SeqFacts DEF Drive!Apply

\* The flags and the rest of TypeOK.
FlagsOK == /\ closing \in BOOLEAN /\ shutdown \in BOOLEAN
           /\ armed \in BOOLEAN /\ zeroed \in BOOLEAN
           /\ armed \/ zeroed
RestOK == /\ pc \in {"accept", "watchdog", "select", "lines", "reading", "reply",
                     "leave", "closing", "stopping", "unwinding", "down", "dead"}
          /\ waited \in Nat
          /\ buffer \in Seq(Requests) /\ wire \in Seq(Requests)
          /\ age \in 0 .. MaxAge
          /\ peer \in {"none", "open", "closed", "reset"}
          /\ unread \in Nat /\ sent \in Nat
          /\ pending \in Seq(Actions) /\ current \in Actions \cup {"neutral"}

LEMMA TypeParts == TypeOK <=> FlagsOK /\ RestOK
BY DEF TypeOK, FlagsOK, RestOK

LEMMA FlagsStep ==
    ASSUME TypeOK, [Next]_vars
    PROVE  FlagsOK'
<1> USE TypeParts DEF FlagsOK, threadVars, watchdogVars, clientVars, libVars
<1>1. CASE Accept \/ CheckWatchdog \/ SelectTimesOut \/ Recv \/ RecvEnd
  BY <1>1, Zenon DEF Accept, CheckWatchdog, SelectTimesOut, Recv, RecvEnd
<1>2. CASE HandleSendAction \/ HandleReset \/ HandleClose
  BY <1>2, Zenon DEF HandleSendAction, HandleReset, HandleClose
<1>3. CASE HandleBad \/ HandleRaw \/ HandleReadState \/ ReadDone \/ LinesDone
  BY <1>3, Zenon DEF HandleBad, HandleRaw, HandleReadState, ReadDone, LinesDone
<1>4. CASE Reply \/ ReplyFails \/ ReplyKills
  BY <1>4, Zenon DEF Reply, ReplyFails, ReplyKills
<1>5. CASE Leave \/ Close \/ Down \/ Unwind \/ AcceptFails \/ Tick
  BY <1>5, Zenon DEF Leave, Close, Down, Unwind, AcceptFails, Tick
<1>6. CASE Client
  BY <1>6, Zenon DEF Client, Connect, ReadReply, HangUp, SendRequest
<1>7. CASE UNCHANGED vars
  BY <1>7, Zenon DEF vars
<1> QED BY <1>1, <1>2, <1>3, <1>4, <1>5, <1>6, <1>7, Zenon DEF Next, Thread

\* Handling a line shortens the buffer and nothing else of the connection.
LEMMA LineFacts ==
    ASSUME RestOK, NEW kinds, NEW next, Line(kinds, next)
    PROVE  /\ pc = "lines" /\ pc' = next /\ waited' = 0
           /\ buffer' \in Seq(Requests) /\ Len(buffer') = Len(buffer) - 1
           /\ Len(buffer) > 0 /\ Head(buffer) \in kinds
BY SeqFacts DEF RestOK, Line, Goto

\* recv moves n requests from the wire to the buffer.
LEMMA RecvFacts ==
    ASSUME RestOK, Recv
    PROVE  /\ buffer' \in Seq(Requests) /\ wire' \in Seq(Requests)
           /\ Len(buffer') \in 1 .. MaxChunk
           /\ Len(buffer') + Len(wire') = Len(wire)
<1> PICK n \in 1 .. MaxChunk : /\ n <= Len(wire)
                              /\ buffer' = SubSeq(wire, 1, n)
                              /\ wire' = SubSeq(wire, n + 1, Len(wire))
  BY DEF Recv
<1>1. n \in 1 .. Len(wire) /\ wire \in Seq(Requests)
  BY SeqFacts, BridgeAssumption DEF RestOK
<1>2. Len(wire) \in Nat /\ n \in Nat
  BY <1>1
<1> QED BY <1>1, <1>2, SplitFacts

LEMMA RestStep ==
    ASSUME TypeOK, [Next]_vars
    PROVE  RestOK'
<1>0. RestOK
  BY TypeParts
<1>1. CASE Accept \/ SelectTimesOut \/ RecvEnd \/ ReadDone \/ LinesDone \/ Down \/ Unwind \/ AcceptFails
  <2>1. buffer' = <<>> \/ buffer' = buffer
    BY <1>1 DEF Accept, SelectTimesOut, RecvEnd, ReadDone, LinesDone, Down, Unwind, AcceptFails
  <2>2. buffer' \in Seq(Requests)
    <3>1. <<>> \in Seq(Requests) /\ buffer \in Seq(Requests)
      BY <1>0, EmptySeq DEF RestOK
    <3> QED BY <2>1, <3>1, Zenon
  <2> QED BY <1>0, <1>1, <2>2 DEF RestOK, Goto, Accept, SelectTimesOut, RecvEnd, ReadDone,
          LinesDone, Down, Unwind, AcceptFails, watchdogVars, clientVars, libVars
<1>2. CASE CheckWatchdog \/ Close
  <2>1. pending' \in Seq(Actions) /\ current' \in Actions \cup {"neutral"}
    BY <1>0, <1>2, SubmitType DEF CheckWatchdog, Close, Actions, RestOK, libVars
  <2> QED BY <1>0, <1>2, <2>1 DEF RestOK, Goto, CheckWatchdog, Close, watchdogVars, clientVars
<1>3. CASE Recv
  BY <1>0, <1>3, RecvFacts DEF RestOK, Goto, Recv, watchdogVars, libVars
<1>4. CASE HandleSendAction \/ HandleReset
  <2>1. pc' = "reply" /\ waited' = 0 /\ buffer' \in Seq(Requests)
    BY <1>0, <1>4, LineFacts DEF HandleSendAction, HandleReset
  <2>2. pending' \in Seq(Actions) /\ current' \in Actions \cup {"neutral"}
    <3>1. \E c \in Actions : Drive!Submit(c)
      <4>1. CASE HandleSendAction
        BY <1>0, <4>1, LineFacts DEF HandleSendAction
      <4>2. CASE HandleReset
        BY <4>2 DEF HandleReset, Actions
      <4> QED BY <1>4, <4>1, <4>2
    <3> QED BY <3>1, SubmitType
  <2>3. age' = 0 /\ UNCHANGED clientVars
    BY <1>4 DEF HandleSendAction, HandleReset
  <2> QED BY <1>0, <2>1, <2>2, <2>3, BridgeAssumption DEF RestOK, clientVars
<1>5. CASE HandleClose \/ HandleBad \/ HandleRaw \/ HandleReadState
  <2>1. pc' \in {"reply", "reading", "unwinding"} /\ waited' = 0 /\ buffer' \in Seq(Requests)
    BY <1>0, <1>5, LineFacts DEF HandleClose, HandleBad, HandleRaw, HandleReadState
  <2>2. UNCHANGED <<watchdogVars, clientVars, libVars>>
    BY <1>5 DEF HandleClose, HandleBad, HandleRaw, HandleReadState
  <2> QED BY <1>0, <2>1, <2>2 DEF RestOK, watchdogVars, clientVars, libVars
<1>6. CASE Reply \/ ReplyFails \/ ReplyKills
  BY <1>0, <1>6 DEF RestOK, Goto, Reply, ReplyFails, ReplyKills, watchdogVars, clientVars, libVars
<1>7. CASE Leave
  BY <1>0, <1>7 DEF RestOK, Goto, Leave, watchdogVars, libVars
<1>8. CASE Client
  <2>1. CASE \E kind \in Requests : SendRequest(kind)
    <3>1. wire' \in Seq(Requests)
      BY <1>0, <2>1, SeqFacts DEF RestOK, SendRequest
    <3> QED BY <1>0, <2>1, <3>1 DEF RestOK, SendRequest, threadVars, watchdogVars, libVars
  <2>2. CASE Connect \/ ReadReply \/ HangUp
    BY <1>0, <2>2 DEF RestOK, Connect, ReadReply, HangUp, threadVars, watchdogVars, libVars
  <2> QED BY <1>8, <2>1, <2>2 DEF Client
<1>9. CASE Tick
  <2>1. age' \in 0 .. MaxAge /\ waited' \in Nat
    BY <1>0, <1>9, BridgeAssumption DEF RestOK, Tick
  <2>2. pending' \in Seq(Actions) /\ current' \in Actions \cup {"neutral"}
    BY <1>0, <1>9, ApplyType DEF Tick, RestOK, libVars
  <2> QED BY <1>0, <1>9, <2>1, <2>2 DEF RestOK, Tick, clientVars
<1>10. CASE UNCHANGED vars
  BY <1>0, <1>10 DEF RestOK, vars, threadVars, watchdogVars, clientVars, libVars
<1> QED BY <1>1, <1>2, <1>3, <1>4, <1>5, <1>6, <1>7, <1>8, <1>9, <1>10, Zenon DEF Next, Thread

\* Every variable keeps its type.
THEOREM BridgeTypeCorrect == Spec => []TypeOK
<1>1. Init => TypeOK
  <2> SUFFICES ASSUME Init PROVE FlagsOK /\ RestOK
    BY TypeParts
  <2>1. FlagsOK
    BY Zenon DEF Init, FlagsOK
  <2>2. pending \in Seq(Actions)
    BY DEF Init, Actions
  <2>3. RestOK
    BY <2>2, BridgeAssumption DEF Init, RestOK, Actions
  <2> QED BY <2>1, <2>3
<1>2. TypeOK /\ [Next]_vars => TypeOK'
  BY FlagsStep, RestStep, TypeParts DEF FlagsOK, RestOK, TypeOK
<1> QED BY <1>1, <1>2, PTL DEF Spec
-----------------------------------------------------------------------------
(* The window *)

LEMMA Sizes ==
    ASSUME RestOK
    PROVE  /\ Len(buffer) \in Nat /\ Len(wire) \in Nat /\ unread \in Nat
           /\ Window \in Nat /\ MaxChunk \in Nat \ {0}
           /\ (buffer = <<>> <=> Len(buffer) = 0) /\ (wire = <<>> <=> Len(wire) = 0)
BY BridgeAssumption, SeqFacts, EmptySeq DEF RestOK

LEMMA WindowStep ==
    ASSUME RestOK, RestOK', WindowInv, [Next]_vars
    PROVE  WindowInv'
<1> USE Sizes, BridgeAssumption DEF WindowInv, Outstanding
<1>0. Len(buffer') \in Nat /\ Len(wire') \in Nat /\ unread' \in Nat
  BY SeqFacts DEF RestOK
<1>00. Len(<<>>) = 0
  OBVIOUS
<1>1. CASE Accept
  <2>1. buffer' = <<>> /\ UNCHANGED <<wire, unread>> /\ pc = "accept" /\ pc' = "watchdog"
    BY <1>1 DEF Accept, Goto, clientVars
  <2> QED BY <1>0, <1>00, <2>1
<1>10. CASE SelectTimesOut \/ RecvEnd \/ ReadDone \/ LinesDone \/ Down \/ Unwind \/ AcceptFails
  <2>1. UNCHANGED <<buffer, wire, unread>>
    BY <1>10 DEF SelectTimesOut, RecvEnd, ReadDone, LinesDone, Down, Unwind, AcceptFails, clientVars
  <2>2. <<pc, pc'>> \in {<<"select", "watchdog">>, <<"select", "leave">>, <<"reading", "reply">>,
                        <<"lines", "leave">>, <<"lines", "watchdog">>, <<"stopping", "down">>,
                        <<"accept", "closing">>, <<"unwinding", "dead">>}
    BY <1>10 DEF SelectTimesOut, RecvEnd, ReadDone, LinesDone, Down, Unwind, AcceptFails, Goto
  <2>3. pc = "lines" => buffer = <<>>
    BY <1>10 DEF SelectTimesOut, RecvEnd, ReadDone, LinesDone, Down, Unwind, AcceptFails
  <2> QED BY <1>0, <2>1, <2>2, <2>3
<1>2. CASE CheckWatchdog \/ Close
  BY <1>2 DEF Goto, CheckWatchdog, Close, clientVars
<1>3. CASE Recv
  <2>1. /\ Len(buffer') \in 1 .. MaxChunk /\ Len(buffer') + Len(wire') = Len(wire)
        /\ pc = "select" /\ pc' = "lines" /\ unread' = unread
    BY <1>3, RecvFacts DEF Recv, Goto
  <2>2. Len(buffer) = 0
    BY <2>1
  <2> QED BY <1>0, <2>1, <2>2
<1>4. CASE HandleSendAction \/ HandleReset \/ HandleClose \/ HandleBad \/ HandleRaw
          \/ HandleReadState
  <2>1. /\ pc = "lines" /\ pc' \in {"reply", "reading", "unwinding"}
        /\ Len(buffer') = Len(buffer) - 1 /\ Len(buffer) > 0
    BY <1>4, LineFacts DEF HandleSendAction, HandleReset, HandleClose, HandleBad, HandleRaw,
       HandleReadState
  <2>2. UNCHANGED clientVars
    BY <1>4 DEF HandleSendAction, HandleReset, HandleClose, HandleBad, HandleRaw,
       HandleReadState
  <2> QED BY <1>0, <2>1, <2>2 DEF clientVars
<1>5. CASE Reply \/ ReplyFails \/ ReplyKills
  <2>1. /\ pc = "reply" /\ pc' \in {"lines", "leave", "dead"}
        /\ UNCHANGED <<buffer, wire>> /\ unread' \in {unread, unread + 1}
    BY <1>5 DEF Goto, Reply, ReplyFails, ReplyKills, clientVars
  <2> QED BY <1>0, <2>1
<1>6. CASE Leave
  <2>1. /\ buffer' = <<>> /\ wire' = <<>> /\ unread' = 0
        /\ pc' \in {"closing", "accept"}
    BY <1>6 DEF Leave, Goto
  <2> QED BY <1>00, <2>1
<1>7. CASE Client
  <2>1. CASE \E kind \in Requests : SendRequest(kind)
    <3>1. Len(wire') = Len(wire) + 1
      BY <2>1, SeqFacts DEF SendRequest, RestOK
    <3>2. UNCHANGED <<pc, buffer, unread>> /\ Outstanding < Window
      BY <2>1 DEF SendRequest, threadVars
    <3> QED BY <3>1, <3>2
  <2>2. CASE Connect \/ ReadReply \/ HangUp
    <3>1. UNCHANGED <<pc, buffer, wire>> /\ (unread' = unread \/ unread' = unread - 1)
      BY <2>2 DEF Connect, ReadReply, HangUp, threadVars
    <3> QED BY <3>1
  <2> QED BY <1>7, <2>1, <2>2 DEF Client
<1>8. CASE Tick
  BY <1>8 DEF Tick, clientVars
<1>9. CASE UNCHANGED vars
  BY <1>9 DEF vars, threadVars, clientVars
<1> QED BY <1>1, <1>2, <1>3, <1>4, <1>5, <1>6, <1>7, <1>8, <1>9, <1>10, Zenon DEF Next, Thread

\* A client that keeps to its window never blocks the thread.
LEMMA NeverBlockedInReply ==
    ASSUME RestOK, WindowInv
    PROVE  ~(pc = "reply" /\ peer = "open" /\ unread >= Room)
BY Sizes, BridgeAssumption DEF WindowInv, Outstanding
-----------------------------------------------------------------------------
(* The watchdog *)

LEMMA BudgetFacts ==
    /\ \A n \in Nat : Budget(n) \in Nat /\ Budget(n + 1) = Budget(n) + ReadTimeout
    /\ \A m, n \in Nat : m <= n => Budget(m) <= Budget(n)
    /\ Budget(0) = 0 /\ Pass = SelectTimeout + Budget(MaxChunk)
<1>1. ReadTimeout \in Nat
  BY BridgeAssumption
<1>2. \A n \in Nat : n * ReadTimeout \in Nat /\ (n + 1) * ReadTimeout = n * ReadTimeout + ReadTimeout
  BY <1>1
<1>3. ASSUME NEW m \in Nat, NEW n \in Nat, m <= n PROVE m * ReadTimeout <= n * ReadTimeout
  <2>1. n - m \in Nat /\ (n - m) * ReadTimeout \in Nat
    BY <1>1, <1>3
  <2>2. n * ReadTimeout = m * ReadTimeout + (n - m) * ReadTimeout
    BY <1>1
  <2> QED BY <1>1, <1>2, <2>1, <2>2
<1> QED BY <1>1, <1>2, <1>3 DEF Budget, Pass

LEMMA TimeStep ==
    ASSUME RestOK, RestOK', WindowInv, TimeInv, [Next]_vars
    PROVE  TimeInv'
<1>0. /\ age \in Nat /\ waited \in Nat /\ Heartbeat \in Nat
      /\ SelectTimeout \in Nat /\ ReadTimeout \in Nat
      /\ Len(buffer) \in Nat /\ Len(buffer') \in Nat
  BY SeqFacts, BridgeAssumption DEF RestOK
<1>00. MaxChunk \in Nat /\ Len(buffer) + 1 \in Nat /\ Len(buffer') + 1 \in Nat
  BY <1>0, BridgeAssumption
<1>1. CASE pc' \notin {"select", "lines", "reading", "reply", "leave"}
  BY <1>1, Zenon DEF TimeInv
<1>2. CASE CheckWatchdog
  <2>1. Unvouched' => age' = age /\ age <= Heartbeat
    BY <1>0, <1>2 DEF CheckWatchdog, WatchdogDue, Unvouched
  <2>2. pc' = "select" /\ waited' = 0
    BY <1>2 DEF CheckWatchdog, Goto
  <2> QED BY <1>0, <2>1, <2>2 DEF TimeInv
<1>3. CASE Recv \/ RecvEnd
  <2>1. UNCHANGED <<age, armed, zeroed>> /\ pc = "select"
    BY <1>3 DEF Recv, RecvEnd, watchdogVars
  <2>2. Unvouched' => age' <= Heartbeat + SelectTimeout
    BY <1>0, <2>1 DEF TimeInv, Unvouched
  <2>3. \/ pc' = "lines" /\ Len(buffer') \in 1 .. MaxChunk
        \/ pc' = "leave"
    BY <1>3, RecvFacts DEF Recv, RecvEnd, Goto
  <2>4. pc' = "lines" => Budget(Len(buffer')) \in Nat /\ Budget(Len(buffer')) <= Budget(MaxChunk)
    BY <1>0, <1>00, <2>3, BudgetFacts
  <2>5. age' \in Nat /\ Budget(MaxChunk) \in Nat
    BY <1>0, <1>00, <2>1, BudgetFacts
  <2>6. Pass = SelectTimeout + Budget(MaxChunk)
    BY BudgetFacts
  <2> QED BY <1>0, <2>2, <2>3, <2>4, <2>5, <2>6 DEF TimeInv
<1>4. CASE HandleSendAction \/ HandleReset
  <2>1. /\ age' = 0 /\ pc' = "reply"
        /\ pc = "lines" /\ Len(buffer') = Len(buffer) - 1 /\ Len(buffer) > 0
    BY <1>4, LineFacts DEF HandleSendAction, HandleReset
  <2>2. Len(buffer') <= MaxChunk
    BY <1>0, <1>00, <2>1 DEF WindowInv
  <2>3. Budget(Len(buffer')) \in Nat /\ Budget(Len(buffer')) <= Budget(MaxChunk) /\ Budget(MaxChunk) \in Nat
    BY <1>0, <1>00, <2>2, BudgetFacts
  <2> QED BY <1>0, <2>1, <2>3 DEF TimeInv
<1>5. CASE HandleClose \/ HandleBad \/ HandleReadState
  <2>1. /\ UNCHANGED <<age, armed, zeroed>>
        /\ pc' \in {"reply", "reading"} /\ waited' = 0
        /\ pc = "lines" /\ Len(buffer) = Len(buffer') + 1
    BY <1>0, <1>5, LineFacts DEF HandleClose, HandleBad, HandleReadState, watchdogVars
  <2>2. Unvouched' => age + Budget(Len(buffer') + 1) <= Heartbeat + SelectTimeout + Budget(MaxChunk)
    BY <2>1 DEF TimeInv, Unvouched
  <2>3. /\ Budget(Len(buffer') + 1) = Budget(Len(buffer')) + ReadTimeout
        /\ Budget(Len(buffer')) \in Nat /\ Budget(MaxChunk) \in Nat
    BY <1>0, <1>00, BudgetFacts
  <2> QED BY <1>0, <2>1, <2>2, <2>3 DEF TimeInv
<1>6. CASE ReadDone
  <2>1. /\ UNCHANGED <<age, armed, zeroed, buffer>> /\ pc = "reading" /\ pc' = "reply"
    BY <1>6 DEF ReadDone, watchdogVars, Goto
  <2>2. Unvouched' => /\ waited <= ReadTimeout
                      /\ age + Budget(Len(buffer) + 1) <= Heartbeat + SelectTimeout + Budget(MaxChunk) + waited
    BY <2>1 DEF TimeInv, Unvouched
  <2>3. /\ Budget(Len(buffer) + 1) = Budget(Len(buffer)) + ReadTimeout
        /\ Budget(Len(buffer)) \in Nat /\ Budget(MaxChunk) \in Nat
    BY <1>0, <1>00, BudgetFacts
  <2> QED BY <1>0, <2>1, <2>2, <2>3 DEF TimeInv
<1>7. CASE Reply \/ ReplyFails \/ (LinesDone /\ pc' = "leave")
  <2>1. /\ UNCHANGED <<age, armed, zeroed, buffer>> /\ pc \in {"lines", "reply"}
        /\ pc' \in {"lines", "leave"}
    BY <1>7 DEF Reply, ReplyFails, LinesDone, watchdogVars, Goto
  <2>2. Unvouched' => age + Budget(Len(buffer)) <= Heartbeat + SelectTimeout + Budget(MaxChunk)
    BY <2>1 DEF TimeInv, Unvouched
  <2>3. /\ Budget(Len(buffer)) \in Nat /\ Budget(MaxChunk) \in Nat
        /\ Pass = SelectTimeout + Budget(MaxChunk)
    BY <1>0, <1>00, BudgetFacts
  <2> QED BY <1>0, <2>1, <2>2, <2>3 DEF TimeInv
<1>8. CASE Client \/ UNCHANGED vars
  <2>1. UNCHANGED <<pc, waited, buffer, age, armed, zeroed>>
    BY <1>8 DEF Client, Connect, ReadReply, HangUp, SendRequest, vars, threadVars, watchdogVars
  <2> QED BY <2>1 DEF TimeInv, Unvouched
<1>9. CASE Tick
  <2>1. /\ UNCHANGED <<pc, buffer, armed, zeroed>> /\ age' <= age + 1
        /\ pc \in {"select", "reading"} => waited' = waited + 1
    BY <1>0, <1>9 DEF Tick, RestOK
  <2>2. \/ pc \in {"accept", "stopping", "unwinding", "down", "dead"}
        \/ pc = "select" /\ waited < SelectTimeout
        \/ pc = "reading" /\ waited < ReadTimeout
    BY <1>9, NeverBlockedInReply DEF Tick, Blocked
  <2>3. age' \in Nat /\ Budget(Len(buffer) + 1) \in Nat /\ Budget(MaxChunk) \in Nat
    BY <1>0, <1>00, BudgetFacts DEF RestOK
  <2>4. CASE pc = "select"
    BY <1>0, <2>1, <2>2, <2>3, <2>4 DEF TimeInv, Unvouched
  <2>5. CASE pc = "reading"
    BY <1>0, <2>1, <2>2, <2>3, <2>5 DEF TimeInv, Unvouched
  <2> QED BY <1>1, <2>1, <2>2, <2>4, <2>5
<1>10. Accept \/ SelectTimesOut \/ (LinesDone /\ pc' # "leave") \/ ReplyKills \/ Leave
       \/ HandleRaw \/ Unwind \/ Close \/ Down \/ AcceptFails => TimeInv'
  <2> SUFFICES ASSUME Accept \/ SelectTimesOut \/ (LinesDone /\ pc' # "leave") \/ ReplyKills
                      \/ Leave \/ HandleRaw \/ Unwind \/ Close \/ Down \/ AcceptFails
               PROVE  pc' \notin {"select", "lines", "reading", "reply", "leave"}
    BY <1>1
  <2> QED BY DEF Goto, Line, Accept, SelectTimesOut, LinesDone, ReplyKills, Leave, HandleRaw,
             Unwind, Close, Down, AcceptFails
<1> QED BY <1>2, <1>3, <1>4, <1>5, <1>6, <1>7, <1>8, <1>9, <1>10, Zenon DEF Next, Thread

\* While a client is served, the watchdog is in time.
THEOREM WatchdogCorrect == Spec => []WatchdogInTime
<1> DEFINE IInv == WindowInv /\ TimeInv
<1>1. Init => IInv
  <2> SUFFICES ASSUME Init PROVE IInv
    OBVIOUS
  <2>1. Len(<<>>) = 0
    OBVIOUS
  <2> QED BY <2>1, BridgeAssumption DEF Init, WindowInv, TimeInv, Outstanding
<1>2. TypeOK /\ TypeOK' /\ IInv /\ [Next]_vars => IInv'
  <2> SUFFICES ASSUME TypeOK, TypeOK', IInv, [Next]_vars PROVE IInv'
    OBVIOUS
  <2>1. RestOK /\ RestOK'
    BY DEF TypeOK, RestOK
  <2> QED BY <2>1, WindowStep, TimeStep
<1>3. TypeOK /\ IInv => WatchdogInTime
  <2> SUFFICES ASSUME TypeOK, IInv, InService, pc # "watchdog", Unvouched
               PROVE  age <= Heartbeat + Pass
    BY DEF WatchdogInTime
  <2>1. RestOK
    BY TypeParts
  <2>2. /\ age \in Nat /\ waited \in Nat /\ Heartbeat \in Nat /\ SelectTimeout \in Nat
        /\ ReadTimeout \in Nat /\ Len(buffer) \in Nat /\ MaxChunk \in Nat
    BY <2>1, Sizes, BridgeAssumption DEF RestOK
  <2>3. /\ Budget(Len(buffer)) \in Nat /\ Budget(MaxChunk) \in Nat
        /\ Budget(Len(buffer) + 1) = Budget(Len(buffer)) + ReadTimeout
        /\ Pass = SelectTimeout + Budget(MaxChunk)
    BY <2>2, BudgetFacts
  <2>4. TimeInv
    OBVIOUS
  <2> HIDE DEF IInv
  <2>5. CASE pc = "select"
    BY <2>2, <2>3, <2>4, <2>5 DEF TimeInv
  <2>6. CASE pc \in {"lines", "reply"}
    BY <2>2, <2>3, <2>4, <2>6 DEF TimeInv
  <2>7. CASE pc = "reading"
    <3> DEFINE b == Budget(Len(buffer))
               m == Budget(MaxChunk)
    <3>1. waited <= ReadTimeout /\ age + (b + ReadTimeout) <= Heartbeat + SelectTimeout + m + waited
      BY <2>3, <2>4, <2>7, Zenon DEF TimeInv
    <3>2. b \in Nat /\ m \in Nat /\ Pass = SelectTimeout + m
      BY <2>3
    <3> HIDE DEF b, m
    <3> QED BY <2>2, <3>1, <3>2
  <2>8. CASE pc = "leave"
    BY <2>4, <2>8 DEF TimeInv
  <2> QED BY <2>5, <2>6, <2>7, <2>8 DEF InService
<1> QED BY <1>1, <1>2, <1>3, BridgeTypeCorrect, PTL DEF Spec
-----------------------------------------------------------------------------
(* The watchdog's flag *)

\* The last element of a sequence and of its tail.
LEMMA LastOfTail ==
    ASSUME NEW S, NEW s \in Seq(S), s # <<>>
    PROVE  /\ Head(s) = s[1] /\ Len(s) \in Nat \ {0}
           /\ Tail(s) = <<>> => Len(s) = 1
           /\ Tail(s) # <<>> => Tail(s)[Len(Tail(s))] = s[Len(s)]
<1>1. /\ Head(s) = s[1] /\ Len(s) \in Nat \ {0} /\ Tail(s) \in Seq(S)
      /\ Len(Tail(s)) = Len(s) - 1
  OBVIOUS
<1>2. \A i \in 1 .. Len(Tail(s)) : Tail(s)[i] = s[i + 1]
  BY HeadTailProperties
<1> DEFINE t == Tail(s)
<1> HIDE DEF t
<1>3. t \in Seq(S) /\ Len(t) = Len(s) - 1 /\ \A i \in 1 .. Len(t) : t[i] = s[i + 1]
  BY <1>1, <1>2 DEF t
<1>4. t = <<>> <=> Len(t) = 0
  BY <1>3, EmptySeq
<1>5. t = <<>> => Len(s) = 1
  BY <1>1, <1>3, <1>4
<1>6. t # <<>> => t[Len(t)] = s[Len(s)]
  <2>1. t # <<>> => Len(t) \in 1 .. Len(t) /\ Len(t) + 1 = Len(s)
    BY <1>1, <1>3, <1>4
  <2> QED BY <1>3, <2>1
<1> QED BY <1>1, <1>5, <1>6 DEF t

\* Applying a pending command leaves the newest one the newest.
LEMMA ApplyNewest ==
    ASSUME RestOK, Drive!Apply
    PROVE  Newest' = Newest
<1>1. /\ pending \in Seq(Actions) /\ pending # <<>>
      /\ current' = Head(pending) /\ pending' = Tail(pending)
  BY DEF RestOK, Drive!Apply
<1> QED BY <1>1, LastOfTail, Zenon DEF Newest

\* A submitted command is the newest.
LEMMA SubmitNewest ==
    ASSUME RestOK, NEW c \in Actions, Drive!Submit(c)
    PROVE  Newest' = c
<1>1. pending \in Seq(Actions) /\ pending' = Append(pending, c)
  BY DEF RestOK, Drive!Submit
<1>2. /\ Len(pending') = Len(pending) + 1 /\ Len(pending) \in Nat
      /\ pending'[Len(pending) + 1] = c
  BY <1>1
<1>3. pending' # <<>>
  BY <1>2
<1> QED BY <1>2, <1>3 DEF Newest

\* The flag is truthful.
THEOREM ZeroedCorrect == Spec => []ZeroedMeansZero
<1>1. Init => ZeroedMeansZero
  <2> SUFFICES ASSUME Init PROVE Newest = "zero"
    BY DEF ZeroedMeansZero
  <2>1. pending = <<"zero">> /\ Len(<<"zero">>) = 1 /\ <<"zero">>[1] = "zero" /\ <<"zero">> # <<>>
    BY DEF Init
  <2> QED BY <2>1 DEF Newest
<1>2. TypeOK /\ ZeroedMeansZero /\ [Next]_vars => ZeroedMeansZero'
  <2> SUFFICES ASSUME TypeOK, ZeroedMeansZero, [Next]_vars PROVE ZeroedMeansZero'
    OBVIOUS
  <2>0. RestOK /\ "zero" \in Actions
    BY TypeParts DEF Actions
  <2>1. CASE UNCHANGED libVars
    <3>1. Newest' = Newest
      BY <2>1 DEF Newest, libVars
    <3>2. (zeroed' => zeroed) /\ (pc' \in {"stopping", "down"} => pc \in {"stopping", "down"})
      <4>1. CASE Accept \/ SelectTimesOut \/ Recv \/ RecvEnd \/ HandleClose \/ HandleBad \/ HandleRaw
                 \/ HandleReadState \/ ReadDone
        BY <4>1 DEF Accept, SelectTimesOut, Recv, RecvEnd, HandleClose, HandleBad, HandleRaw,
           HandleReadState, ReadDone, Line, Goto, watchdogVars
      <4>2. CASE Reply \/ ReplyFails \/ ReplyKills \/ LinesDone \/ Leave \/ Down \/ Unwind
                 \/ AcceptFails
        BY <4>2 DEF Reply, ReplyFails, ReplyKills, LinesDone, Leave, Down, Unwind, AcceptFails,
           Goto, watchdogVars
      <4>3. CASE Client \/ Tick \/ UNCHANGED vars
        BY <4>3 DEF Client, Connect, ReadReply, HangUp, SendRequest, Tick, vars,
           threadVars, watchdogVars
      <4>4. CASE \E c \in Actions : Drive!Submit(c)
        <5> PICK c \in Actions : Drive!Submit(c)
          BY <4>4
        <5>1. pending \in Seq(Actions) /\ pending = Append(pending, c)
          BY <2>0, <2>1 DEF RestOK, Drive!Submit, libVars
        <5>2. Len(Append(pending, c)) = Len(pending) + 1 /\ Len(pending) \in Nat
          BY <5>1, SeqFacts
        <5>3. Len(pending) # Len(pending) + 1
          BY <5>2
        <5> QED BY <5>1, <5>2, <5>3, Zenon
      <4>5. CASE CheckWatchdog
        <5>1. Drive!Submit("zero") \/ UNCHANGED zeroed
          BY <4>5, Zenon DEF CheckWatchdog
        <5> QED BY <2>0, <4>4, <4>5, <5>1 DEF CheckWatchdog, Goto
      <4>6. CASE HandleSendAction
        <5>1. Head(buffer) \in Actions /\ Drive!Submit(Head(buffer))
          BY <4>6 DEF HandleSendAction, Line
        <5> QED BY <4>4, <5>1
      <4>7. CASE HandleReset \/ Close
        BY <2>0, <4>4, <4>7 DEF HandleReset, Close
      <4> QED BY <4>1, <4>2, <4>3, <4>5, <4>6, <4>7, Zenon DEF Next, Thread
    <3> QED BY <3>1, <3>2 DEF ZeroedMeansZero
  <2>2. CASE ~UNCHANGED libVars
    <3>1. CASE Drive!Submit("zero")
      BY <2>0, <3>1, SubmitNewest DEF ZeroedMeansZero
    <3>2. CASE HandleSendAction
      BY <3>2 DEF HandleSendAction, Line, Goto, ZeroedMeansZero
    <3>3. CASE Tick
      <4>1. UNCHANGED <<pc, zeroed>> /\ Drive!Apply
        BY <2>2, <3>3 DEF Tick
      <4> QED BY <2>0, <4>1, ApplyNewest DEF ZeroedMeansZero
    <3>4. Drive!Submit("zero") \/ HandleSendAction \/ Tick
      <4>1. CASE Client \/ UNCHANGED vars \/ AcceptFails
        BY <2>2, <4>1, Zenon DEF Client, Connect, ReadReply, HangUp, SendRequest, vars, AcceptFails
      <4>2. CASE Thread
        BY <2>2, <4>2, Zenon DEF Thread, Accept, CheckWatchdog, SelectTimesOut, Recv, RecvEnd,
           HandleReset, HandleClose, HandleBad, HandleRaw, Unwind, HandleReadState, ReadDone,
           Reply, ReplyFails, ReplyKills, LinesDone, Leave, Close, Down
      <4> QED BY <4>1, <4>2, Zenon DEF Next
    <3> QED BY <3>1, <3>2, <3>3, <3>4
  <2> QED BY <2>1, <2>2
<1> QED BY <1>1, <1>2, BridgeTypeCorrect, PTL DEF Spec
=============================================================================
