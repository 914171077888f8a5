------------------------------- MODULE Bridge -------------------------------
(***************************************************************************)
(* excavator_real_bridge (bridge/src/excavator_real_bridge.cpp): a single  *)
(* thread that accepts one TCP client at a time, answers its requests line *)
(* by line, forwards its actions to the control library and forces a zero  *)
(* command when the client has been silent for too long.                   *)
(*                                                                         *)
(* The control library appears through its abstract specification          *)
(* CommandStream, which module ServoLoop implements: what the bridge       *)
(* sends is pending until a cycle of the worker puts it into force.        *)
(*                                                                         *)
(* Time passes in Tick actions, one period of that worker each.  The       *)
(* thread's own steps take no time; it blocks in accept, in select, in     *)
(* ExcavatorReceive::get, and in send while the client does not read.      *)
(*                                                                         *)
(* Data: a request is its kind and an action is zero or not.  "bad" stands *)
(* for everything that is only answered with an error, "raw" for a line    *)
(* whose answer would quote bytes of it that are not UTF-8.                *)
(***************************************************************************)
EXTENDS Integers, Sequences

CONSTANTS Heartbeat,        \* heartbeat_timeout_ms, in periods
          SelectTimeout,    \* the 50 ms of handleClient's select
          ReadTimeout,      \* read_timeout_ms
          MaxChunk,         \* lines that one recv of 4096 bytes completes
          Window,           \* requests a client sends ahead of reading replies
          Room,             \* replies the sockets hold before send blocks
          OneShot,          \* --one-shot
          WatchdogEnabled,  \* FALSE: --disable-watchdog
          MaxLines,         \* bound: requests sent in one behaviour
          MaxAge            \* bound: ages from here on are not told apart

\* How long one pass of handleClient's loop takes at most.
Pass == SelectTimeout + MaxChunk * ReadTimeout

ASSUME BridgeAssumption ==
    /\ Heartbeat \in Nat \ {0} /\ SelectTimeout \in Nat \ {0}
    /\ ReadTimeout \in Nat \ {0}
    /\ MaxChunk \in Nat \ {0} /\ Window \in Nat \ {0} /\ Room \in Nat
    /\ Window <= Room
    /\ OneShot \in BOOLEAN /\ WatchdogEnabled \in BOOLEAN
    /\ MaxLines \in Nat
    /\ MaxAge \in Nat /\ MaxAge > Heartbeat + Pass

Actions == {"move", "zero"}
Requests == Actions \cup {"bad", "raw", "read", "reset", "close", "shutdown"}

VARIABLES
    pc,        \* where the bridge's thread is
    waited,    \* how long it has been blocked in select or get
    buffer,    \* handleClient: complete lines not handled yet
    closing,   \* close_connection
    shutdown,  \* shutdown_requested_
    armed,     \* last_valid_action_ns_ # 0
    age,       \* time since last_valid_action_ns_, 0 if not armed
    zeroed,    \* watchdog_zeroed_
    peer,      \* the client's end of the connection
    wire,      \* requests under way, oldest first
    unread,    \* replies the client has not read
    sent,      \* how many requests were sent in all
    pending, current   \* the control library, see CommandStream

threadVars == <<pc, waited, buffer, closing, shutdown>>
watchdogVars == <<armed, age, zeroed>>
clientVars == <<peer, wire, unread, sent>>
libVars == <<pending, current>>
vars == <<threadVars, watchdogVars, clientVars, libVars>>

Drive == INSTANCE CommandStream WITH Command <- Actions, Neutral <- "neutral"

\* handleClient is running.
InService == pc \in {"watchdog", "select", "lines", "reading", "reply", "leave"}

\* After startRuntime: the zero command of the start is on its way.
Init == /\ pc = "accept" /\ waited = 0
        /\ buffer = <<>> /\ closing = FALSE /\ shutdown = FALSE
        /\ armed = FALSE /\ age = 0 /\ zeroed = TRUE
        /\ peer = "none" /\ wire = <<>> /\ unread = 0 /\ sent = 0
        /\ pending = <<"zero">> /\ current = "neutral"

Goto(to) == pc' = to /\ waited' = 0
-----------------------------------------------------------------------------
(* The thread *)

\* serve: the next client, if there is one.
Accept == /\ pc = "accept" /\ peer # "none"
          /\ Goto("watchdog")
          /\ closing' = FALSE /\ buffer' = <<>>
          /\ UNCHANGED <<shutdown, watchdogVars, clientVars, libVars>>

\* accept fails for good: serve returns.
AcceptFails == /\ pc = "accept"
               /\ Goto("closing")
               /\ UNCHANGED <<buffer, closing, shutdown, watchdogVars, clientVars, libVars>>

WatchdogDue == WatchdogEnabled /\ armed /\ ~zeroed /\ age > Heartbeat

\* Mutation of CheckWatchdog: the flag is set, the zero command is not sent.
CheckWatchdogSilent ==
    /\ pc = "watchdog"
    /\ Goto("select")
    /\ zeroed' = (zeroed \/ WatchdogDue)
    /\ UNCHANGED <<buffer, closing, shutdown, armed, age, clientVars, libVars>>

\* checkWatchdog, at the top of handleClient's loop.
CheckWatchdog ==
    /\ pc = "watchdog"
    /\ Goto("select")
    /\ IF WatchdogDue
         THEN Drive!Submit("zero") /\ zeroed' = TRUE
         ELSE UNCHANGED <<libVars, zeroed>>
    /\ UNCHANGED <<buffer, closing, shutdown, armed, age, clientVars>>

Readable == wire # <<>> \/ peer # "open"

\* Mutation of SelectTimesOut: handleClient waits on without the watchdog.
SelectAgain == /\ pc = "select" /\ waited >= SelectTimeout /\ ~Readable
               /\ Goto("select")
               /\ UNCHANGED <<buffer, closing, shutdown, watchdogVars, clientVars, libVars>>

\* select times out: back to the top of the loop.
SelectTimesOut == /\ pc = "select" /\ waited >= SelectTimeout /\ ~Readable
                  /\ Goto("watchdog")
                  /\ UNCHANGED <<buffer, closing, shutdown, watchdogVars, clientVars, libVars>>

\* recv appends the lines it completes to the buffer.
Recv == /\ pc = "select"
        /\ \E n \in 1 .. MaxChunk :
              /\ n <= Len(wire)
              /\ buffer' = SubSeq(wire, 1, n)
              /\ wire' = SubSeq(wire, n + 1, Len(wire))
        /\ Goto("lines")
        /\ UNCHANGED <<closing, shutdown, watchdogVars, peer, unread, sent, libVars>>

\* recv returns 0, or fails because the connection was reset.
RecvEnd == /\ pc = "select" /\ wire = <<>> /\ peer # "open"
           /\ Goto("leave")
           /\ UNCHANGED <<buffer, closing, shutdown, watchdogVars, clientVars, libVars>>

\* handleMessage on the next line: a line of the given kind, answered at once.
Line(kinds, next) == /\ pc = "lines" /\ buffer # <<>> /\ Head(buffer) \in kinds
                     /\ buffer' = Tail(buffer)
                     /\ Goto(next)

\* Mutation of HandleSendAction: watchdog_zeroed_ is not cleared.
HandleSendActionKeepsFlag ==
    /\ Line(Actions, "reply")
    /\ Drive!Submit(Head(buffer))
    /\ armed' = TRUE /\ age' = 0 /\ UNCHANGED zeroed
    /\ UNCHANGED <<closing, shutdown, clientVars>>

\* handleSendAction: only a well-formed action, which the mode of the bridge always
\* admits, feeds the watchdog.
HandleSendAction ==
    /\ Line(Actions, "reply")
    /\ Drive!Submit(Head(buffer))
    /\ armed' = TRUE /\ age' = 0 /\ zeroed' = FALSE
    /\ UNCHANGED <<closing, shutdown, clientVars>>

\* Mutation of HandleReset: watchdog_zeroed_ is not set.
HandleResetKeepsFlag ==
    /\ Line({"reset"}, "reply")
    /\ Drive!Submit("zero")
    /\ armed' = FALSE /\ age' = 0 /\ UNCHANGED zeroed
    /\ UNCHANGED <<closing, shutdown, clientVars>>

HandleReset ==
    /\ Line({"reset"}, "reply")
    /\ Drive!Submit("zero")
    /\ armed' = FALSE /\ age' = 0 /\ zeroed' = TRUE
    /\ UNCHANGED <<closing, shutdown, clientVars>>

\* close and shutdown end the connection only after the lines received so far.
HandleClose ==
    /\ Line({"close", "shutdown"}, "reply")
    /\ closing' = TRUE
    /\ shutdown' = (shutdown \/ Head(buffer) = "shutdown")
    /\ UNCHANGED <<watchdogVars, clientVars, libVars>>

HandleBad ==
    /\ Line({"bad"}, "reply")
    /\ UNCHANGED <<closing, shutdown, watchdogVars, clientVars, libVars>>

\* The parser's message quotes the offending bytes; when they are not UTF-8 dump,
\* outside of the try, throws: no reply, and the exception leaves serve.
HandleRaw ==
    /\ Line({"raw"}, "unwinding")
    /\ UNCHANGED <<closing, shutdown, watchdogVars, clientVars, libVars>>

\* The destructors stop the worker, without a last zero command, and main ends.
Unwind ==
    /\ pc = "unwinding"
    /\ Goto("dead")
    /\ UNCHANGED <<buffer, closing, shutdown, watchdogVars, clientVars, libVars>>

HandleReadState ==
    /\ Line({"read"}, "reading")
    /\ UNCHANGED <<closing, shutdown, watchdogVars, clientVars, libVars>>

\* ExcavatorReceive::get delivers, or times out at the latest.
ReadDone ==
    /\ pc = "reading"
    /\ Goto("reply")
    /\ UNCHANGED <<buffer, closing, shutdown, watchdogVars, clientVars, libVars>>

\* Mutation of Reply: one line per recv; the others wait for more to arrive.
ReplyOnce ==
    /\ pc = "reply"
    /\ \/ peer = "open" /\ unread < Room /\ unread' = unread + 1 /\ UNCHANGED peer
       \/ peer # "open" /\ peer' = "reset" /\ UNCHANGED unread
    /\ Goto("watchdog")
    /\ UNCHANGED <<buffer, closing, shutdown, watchdogVars, wire, sent, libVars>>

\* sendAll: blocks while the client lets replies pile up.
Reply ==
    /\ pc = "reply"
    /\ \/ peer = "open" /\ unread < Room /\ unread' = unread + 1 /\ UNCHANGED peer
       \/ peer # "open" /\ peer' = "reset" /\ UNCHANGED unread
    /\ Goto("lines")
    /\ UNCHANGED <<buffer, closing, shutdown, watchdogVars, wire, sent, libVars>>

\* The client is gone: send may fail ...
ReplyFails ==
    /\ pc = "reply" /\ peer \in {"closed", "reset"}
    /\ Goto("leave")
    /\ closing' = TRUE
    /\ UNCHANGED <<buffer, shutdown, watchdogVars, clientVars, libVars>>

\* ... or, after a reply that already met a closed socket, raise SIGPIPE, which
\* nobody handles and which ends the process, its worker included.
ReplyKills ==
    /\ pc = "reply" /\ peer = "reset"
    /\ Goto("dead")
    /\ UNCHANGED <<buffer, closing, shutdown, watchdogVars, clientVars, libVars>>

LinesDone ==
    /\ pc = "lines" /\ buffer = <<>>
    /\ Goto(IF closing THEN "leave" ELSE "watchdog")
    /\ UNCHANGED <<buffer, closing, shutdown, watchdogVars, clientVars, libVars>>

\* The connection is closed; what the client has sent since is lost.
Leave ==
    /\ pc = "leave"
    /\ Goto(IF shutdown \/ OneShot THEN "closing" ELSE "accept")
    /\ buffer' = <<>> /\ wire' = <<>> /\ unread' = 0 /\ peer' = "none"
    /\ UNCHANGED <<closing, shutdown, watchdogVars, sent, libVars>>

\* serve returns: a last zero command, then control_.close() stops the
\* worker, whether or not it got to it.
Close ==
    /\ pc = "closing"
    /\ Drive!Submit("zero")
    /\ Goto("stopping")
    /\ UNCHANGED <<buffer, closing, shutdown, watchdogVars, clientVars>>

Down ==
    /\ pc = "stopping"
    /\ Goto("down")
    /\ UNCHANGED <<buffer, closing, shutdown, watchdogVars, clientVars, libVars>>

Thread == \/ Accept \/ CheckWatchdog \/ SelectTimesOut \/ Recv \/ RecvEnd
          \/ HandleSendAction \/ HandleReset \/ HandleClose \/ HandleBad
          \/ HandleRaw \/ Unwind \/ HandleReadState \/ ReadDone
          \/ Reply \/ ReplyFails \/ ReplyKills \/ LinesDone \/ Leave \/ Close \/ Down
-----------------------------------------------------------------------------
(* The clients, one after the other *)

\* A client connects; accept may be a while coming.
Connect ==
    /\ pc = "accept" /\ peer = "none"
    /\ peer' = "open"
    /\ UNCHANGED <<threadVars, watchdogVars, wire, unread, sent, libVars>>

\* Requests sent and not answered yet, replies not read yet.
Outstanding == Len(wire) + Len(buffer) + unread
               + (IF pc \in {"reading", "reply"} THEN 1 ELSE 0)

SendRequest(kind) ==
    /\ peer = "open"
    /\ Outstanding < Window
    /\ sent < MaxLines
    /\ wire' = Append(wire, kind)
    /\ sent' = sent + 1
    /\ UNCHANGED <<threadVars, watchdogVars, peer, unread, libVars>>

ReadReply ==
    /\ peer = "open" /\ unread > 0
    /\ unread' = unread - 1
    /\ UNCHANGED <<threadVars, watchdogVars, peer, wire, sent, libVars>>

\* The client closes its socket or dies.
HangUp ==
    /\ peer = "open"
    /\ peer' = "closed"
    /\ UNCHANGED <<threadVars, watchdogVars, wire, unread, sent, libVars>>

Client == Connect \/ ReadReply \/ HangUp \/ \E kind \in Requests : SendRequest(kind)
-----------------------------------------------------------------------------
(* Time *)

Blocked == \/ pc \in {"accept", "stopping", "unwinding", "down", "dead"}
           \/ pc = "select" /\ waited < SelectTimeout /\ ~Readable
           \/ pc = "reading" /\ waited < ReadTimeout
           \/ pc = "reply" /\ peer = "open" /\ unread >= Room

\* One period of the worker: it puts the next pending command into force.
Tick ==
    /\ Blocked
    /\ age' = IF armed /\ age < MaxAge THEN age + 1 ELSE age
    /\ waited' = IF pc \in {"select", "reading"} THEN waited + 1 ELSE waited
    /\ IF pending # <<>> /\ pc \notin {"down", "dead"}
         THEN Drive!Apply
         ELSE UNCHANGED libVars
    /\ UNCHANGED <<pc, buffer, closing, shutdown, armed, zeroed, clientVars>>

Next == Thread \/ AcceptFails \/ Client \/ Tick

Spec == Init /\ [][Next]_vars

\* The thread runs when it can and time passes; nothing is asked of clients.
FairSpec == Spec /\ WF_vars(Thread) /\ WF_vars(Tick)
-----------------------------------------------------------------------------
(* Properties *)

TypeOK ==
    /\ pc \in {"accept", "watchdog", "select", "lines", "reading", "reply", "leave",
               "closing", "stopping", "unwinding", "down", "dead"}
    /\ waited \in Nat
    /\ buffer \in Seq(Requests) /\ wire \in Seq(Requests)
    /\ closing \in BOOLEAN /\ shutdown \in BOOLEAN
    /\ armed \in BOOLEAN /\ zeroed \in BOOLEAN
    /\ age \in 0 .. MaxAge
    /\ armed \/ zeroed
    /\ peer \in {"none", "open", "closed", "reset"}
    /\ unread \in Nat /\ sent \in Nat
    /\ pending \in Seq(Actions) /\ current \in Actions \cup {"neutral"}

Unvouched == WatchdogEnabled /\ armed /\ ~zeroed

\* While a client is served, an action without a successor has been zeroed a
\* heartbeat and one pass of the loop after it at the latest, whatever the
\* client sends instead, provided that it does not send further ahead of
\* reading than the sockets hold (checkWatchdog, handleClient).
WatchdogInTime ==
    InService /\ pc # "watchdog" /\ Unvouched => age <= Heartbeat + Pass

\* The same without the restriction to connected clients: what README.md
\* line 119 says of the bridge.
HeartbeatEnforced == Unvouched => age <= Heartbeat + Pass

\* The newest command on its way to the machine.
Newest == IF pending = <<>> THEN current ELSE pending[Len(pending)]

\* The flag is truthful: when it says that the machine was zeroed, no command
\* queued behind the zero moves it again; and serve leaves a zero behind.
ZeroedMeansZero == zeroed \/ pc \in {"stopping", "down"} => Newest = "zero"

\* A client that stays connected and falls silent stops the machine.
SilenceStopsMachine ==
    InService /\ Unvouched /\ age > Heartbeat ~> current = "zero" \/ age = 0 \/ ~InService

\* A client that is served gets an answer to every request unless it goes away,
\* asks to close, or sends a line that is not UTF-8, over which the process ends:
\* nothing else makes the bridge drop a connection or forget a line.
EveryRequestAnswered ==
    \A n \in 1 .. Window :
        InService /\ Outstanding - unread = n ~>
            Outstanding - unread < n \/ peer # "open" \/ pc = "unwinding"
=============================================================================
