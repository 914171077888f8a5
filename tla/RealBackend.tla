----------------------------- MODULE RealBackend -----------------------------
(***************************************************************************)
(* RealExcavatorBackend (testbed/testbed/backends/real/backend.py) in its  *)
(* controller and state reader modes, with the mock bridge client inside   *)
(* the process, or the JSON/TCP client and JsonTcpBridgeMockServer, which  *)
(* serves one connection after the other.  Processes come one at a time, a *)
(* recording, scripts/smoke_bridge_protocol.py or one_axis_bringup.py;     *)
(* each may be killed, and any request may fail, be it that the answer is  *)
(* late or that the server has stopped.                                    *)
(*                                                                         *)
(* Data: a joint is where its commands have taken it, velocity scale and   *)
(* dt being constant.  Times, images and the encoding of a frame are left  *)
(* out: what decode_frame or as_real_action reject is a kind of request.   *)
(***************************************************************************)
EXTENDS RealAction, Sequences

CONSTANTS Sends,        \* the actions given to step
          MaxStepId,    \* bound: steps of an episode
          MaxEpisodes,  \* bound: episodes of a process
          MaxProcesses  \* bound: processes

ASSUME RealBackendAssumption ==
    /\ Sends \subseteq Int
    /\ {MaxStepId, MaxEpisodes, MaxProcesses} \subseteq Nat

VARIABLES
    controller, reader,  \* controller_mode and state_reader_mode, or the script
    at,          \* where the process is, "off" when there is none
    stepId,      \* _step_id, or how far the script is
    result,      \* commanded_action of _last_control_result
    seen,        \* the observation that start_episode or step has returned, or Nothing
    local,       \* _qpos of MockStateReader
    inner,       \* _qpos of InProcessMockBridgeClient in the process
    link,        \* the TCP client's socket: none, up, or lost to the server
    reply,       \* the answer on its way to the process, or Nothing
    conns,       \* the connections the server has not done with, oldest first
    accepted,    \* it has accepted the first of them
    server,      \* serving, stopping (_stop is set), stopped
    oneShot,     \* --one-shot
    remote,      \* _qpos of the server's InProcessMockBridgeClient
    commanded,   \* history: sum of the acknowledged commands of the episode
    episodes, processes   \* history: how many there were

modeVars == <<controller, reader, processes>>
progressVars == <<stepId, result, seen, commanded, episodes>>
plantVars == <<local, inner>>
serverVars == <<accepted, server, oneShot, remote>>
wireVars == <<link, reply, conns>>
backendVars == <<modeVars, at, progressVars, plantVars, wireVars, serverVars>>

Nothing == [qpos |-> 0, id |-> -1]
NoReply == [type |-> "none", ok |-> TRUE, qpos |-> 0, act |-> 0]

Controllers == {"mock", "noop", "bridge_mock", "bridge_tcp"}
Readers == {"mock", "bridge_mock", "bridge_tcp"}
Scripts == {"smoke", "bring_up"}

InitBackend ==
    /\ controller = "mock" /\ reader = "mock" /\ at = "off" /\ stepId = 0 /\ result = 0
    /\ seen = Nothing /\ local = 0 /\ inner = 0 /\ link = "none" /\ reply = NoReply
    /\ conns = <<>> /\ accepted = FALSE /\ server = "serving" /\ oneShot \in BOOLEAN /\ remote = 0
    /\ commanded = 0 /\ episodes = 0 /\ processes = 0
-----------------------------------------------------------------------------
(* Which objects the modes stand for *)

\* _build_bridge_client, and the backend's own client: bridge_mock takes the TCP
\* client when there is one.
Client == IF "bridge_tcp" \in {controller, reader} THEN "tcp" ELSE "inner"
ControllerIs == IF controller \in {"mock", "noop"} THEN controller ELSE Client
ReaderIs == IF reader = "mock" THEN "mock" ELSE Client

StartProcess ==
    /\ at = "off" /\ processes < MaxProcesses
    /\ \/ controller' \in Controllers /\ reader' \in Readers /\ at' = "idle"
       \/ controller' \in Scripts /\ reader' = controller' /\ at' = "script"
    /\ processes' = processes + 1 /\ episodes' = 0
    /\ local' = 0 /\ inner' = 0 /\ stepId' = 0 /\ result' = 0 /\ commanded' = 0
    /\ seen' = Nothing /\ reply' = NoReply
    /\ UNCHANGED <<link, conns, serverVars>>
-----------------------------------------------------------------------------
(* JsonTcpBridgeClient *)

Line(kind, act) == [kind |-> kind, act |-> act]

\* _connect, write and flush: a request to a server that has closed the socket, or
\* listens no more, is lost.
Request(kind, act) ==
    LET line == Line(kind, act)
        dialled == IF server = "stopped" THEN "lost" ELSE "up"
    IN  /\ link' = IF link = "none" THEN dialled ELSE link
        /\ conns' = CASE link = "up" -> [conns EXCEPT ![Len(conns)].lines = Append(@, line)]
                      [] link = "none" /\ dialled = "up" ->
                           Append(conns, [lines |-> <<line>>, open |-> TRUE])
                      [] OTHER -> conns
        /\ UNCHANGED reply

\* The answer is of the expected type, and ok.
Answered(kind) == reply.type = kind /\ reply.ok /\ reply' = NoReply

\* Timeout, end of file, connection refused.
Fail ==
    /\ at \in {"resetting", "reading", "sending"}
    /\ at' = "closing"
    /\ UNCHANGED <<modeVars, progressVars, plantVars, wireVars, serverVars>>

HangUp == IF link = "up" THEN [conns EXCEPT ![Len(conns)].open = FALSE] ELSE conns

\* close sends a request and does not care for the answer.  Controller and reader
\* both close the client they share: the second time there is no socket.
Close ==
    /\ at \in {"idle", "closing"}
    /\ conns' = IF link = "up"
                  THEN [conns EXCEPT ![Len(conns)] =
                          [lines |-> Append(@.lines, Line("close", 0)),
                           open |-> FALSE]]
                  ELSE conns
    /\ at' = "off" /\ link' = "none" /\ reply' = NoReply
    /\ UNCHANGED <<modeVars, progressVars, plantVars, serverVars>>

\* The process is killed, or the script gives up: the operating system closes the
\* socket.
Kill ==
    /\ at # "off"
    /\ at' = "off" /\ link' = "none" /\ reply' = NoReply /\ conns' = HangUp
    /\ UNCHANGED <<modeVars, progressVars, plantVars, serverVars>>
-----------------------------------------------------------------------------
(* RealExcavatorBackend *)

\* What the plants do with an acknowledged command.
MockMoved(act) == local + AsRealAction(act)
InnerMoved(act) == inner + AsRealAction(act)

\* start_episode: the reader is reset, not the controller.
StartEpisode ==
    /\ at = "idle" /\ episodes < MaxEpisodes
    /\ stepId' = 0 /\ commanded' = 0 /\ seen' = Nothing /\ episodes' = episodes + 1
    /\ local' = IF ReaderIs = "mock" THEN 0 ELSE local
    /\ inner' = IF ReaderIs = "inner" THEN 0 ELSE inner
    /\ IF ReaderIs = "tcp"
         THEN Request("reset", 0) /\ at' = "resetting"
         ELSE at' = "read" /\ UNCHANGED wireVars
    /\ UNCHANGED <<modeVars, result, serverVars>>

ResetReply ==
    /\ at = "resetting" /\ Answered("reset")
    /\ at' = "read"
    /\ UNCHANGED <<modeVars, progressVars, plantVars, link, conns, serverVars>>

\* A reader's joint sample, and the observation that is built of it.
Sample(qpos) == [qpos |-> qpos]
Observe(sample) == seen' = [qpos |-> sample.qpos, id |-> stepId] /\ at' = "idle"

\* read_state, at the end of start_episode and of step.
ReadState ==
    /\ at = "read"
    /\ CASE ReaderIs = "mock" -> Observe(Sample(local)) /\ UNCHANGED wireVars
         [] ReaderIs = "inner" -> Observe(Sample(inner)) /\ UNCHANGED wireVars
         [] ReaderIs = "tcp" -> Request("read_state", 0) /\ at' = "reading" /\ UNCHANGED seen
    /\ UNCHANGED <<modeVars, stepId, result, commanded, episodes, plantVars, serverVars>>

ReadReply ==
    /\ at = "reading" /\ Answered("read_state")
    /\ Observe(reply)
    /\ UNCHANGED <<modeVars, stepId, result, commanded, episodes, plantVars, link, conns,
                   serverVars>>

\* send of the controllers in the process: all but noop clip the action.
Acknowledged(a) == IF ControllerIs = "noop" THEN 0 ELSE AsRealAction(a)

\* step, up to the controller's send.
Step(a) ==
    /\ at = "idle" /\ seen # Nothing /\ stepId < MaxStepId
    /\ IF ControllerIs = "tcp"
         THEN Request("send_action", AsRealAction(a)) /\ at' = "sending" /\ UNCHANGED result
         ELSE /\ result' = Acknowledged(a)
              /\ at' = "apply" /\ UNCHANGED wireVars
    /\ UNCHANGED <<modeVars, stepId, seen, commanded, episodes, plantVars, serverVars>>

SendReply ==
    /\ at = "sending" /\ Answered("send_action")
    /\ result' = reply.act /\ at' = "apply"
    /\ UNCHANGED <<modeVars, stepId, seen, commanded, episodes, plantVars, link, conns,
                   serverVars>>

\* The rest of step: a local reader moves its joints, the TCP client does nothing.
Apply ==
    /\ at = "apply"
    /\ local' = IF ReaderIs = "mock" THEN MockMoved(result) ELSE local
    /\ inner' = IF ReaderIs = "inner" THEN InnerMoved(result) ELSE inner
    /\ commanded' = commanded + result /\ stepId' = stepId + 1 /\ at' = "read"
    /\ UNCHANGED <<modeVars, result, seen, episodes, wireVars, serverVars>>
-----------------------------------------------------------------------------
(* smoke_bridge_protocol.py and one_axis_bringup.py *)

Rejected == {"invalid", "no_action", "wrong_dim"}

SmokeScript == <<Line("invalid", 1), Line("no_action", 1), Line("wrong_dim", 1),
                 Line("send_action", 1), Line("read_state", 0)>>

\* Both directions, with one command for the time that each is repeated, and with
\* one zero to settle; a single direction ends after the first.
OneDirection(value) ==
    <<Line("send_action", value), Line("send_action", 0), Line("read_state", 0),
      Line("send_action", 0)>>
BringUpScript ==
    <<Line("send_action", 0), Line("read_state", 0)>> \o OneDirection(1) \o OneDirection(-1)

Script == IF controller = "smoke" THEN SmokeScript ELSE BringUpScript

MayEnd == stepId \in {Len(Script)} \cup (IF controller = "bring_up" THEN {6} ELSE {})

\* The next request of the script, or its last one.
ScriptRequest ==
    /\ at = "script"
    /\ \/ /\ stepId < Len(Script)
          /\ Request(Script[stepId + 1].kind, Script[stepId + 1].act)
          /\ at' = "scripted"
       \/ /\ MayEnd
          /\ \E kind \in {"close", "shutdown"} : Request(kind, 0)
          /\ at' = "ending"
    /\ UNCHANGED <<modeVars, progressVars, plantVars, serverVars>>

\* The bad requests must be refused, and the others must succeed.
ScriptReply ==
    /\ at = "scripted" /\ reply # NoReply /\ reply' = NoReply
    /\ reply.ok = (Script[stepId + 1].kind \notin Rejected)
    /\ at' = "script" /\ stepId' = stepId + 1
    /\ UNCHANGED <<modeVars, result, seen, commanded, episodes, plantVars, link, conns,
                   serverVars>>

\* The script is done, or gives up because of the wrong answer.
ScriptEnds ==
    /\ at \in {"scripted", "ending"} /\ reply # NoReply /\ reply' = NoReply
    /\ at = "scripted" => reply.ok = (Script[stepId + 1].kind \in Rejected)
    /\ at' = "off" /\ link' = "none" /\ conns' = HangUp
    /\ UNCHANGED <<modeVars, progressVars, plantVars, serverVars>>
-----------------------------------------------------------------------------
(* JsonTcpBridgeMockServer *)

Accept ==
    /\ server = "serving" /\ ~accepted /\ conns # <<>>
    /\ accepted' = TRUE
    /\ UNCHANGED <<modeVars, at, progressVars, plantVars, wireVars, server, oneShot, remote>>

\* shutdown, by a signal
SetStop ==
    /\ server = "serving" /\ server' = "stopping"
    /\ UNCHANGED <<modeVars, at, progressVars, plantVars, wireVars, accepted, oneShot, remote>>

\* serve_forever: with a connection accepted, _stop is looked at after the next line.
StopServing ==
    /\ server = "stopping" /\ ~accepted
    /\ server' = "stopped" /\ conns' = <<>>
    /\ link' = IF link = "up" THEN "lost" ELSE link
    /\ UNCHANGED <<modeVars, at, progressVars, plantVars, reply, accepted, oneShot, remote>>

\* The connection is done with; a client that still has it has lost it.
EndConnection ==
    /\ conns' = Tail(conns) /\ accepted' = FALSE
    /\ link' = IF Len(conns) = 1 /\ link = "up" THEN "lost" ELSE link

StopsAfter(kind) == kind = "shutdown" \/ (kind = "close" /\ oneShot)

\* The payloads of the answers: what they carry survives the encoding exactly.
ResultPayload(line) == IF line.kind = "send_action" THEN AsRealAction(line.act) ELSE 0
StatePayload(line, qpos) == IF line.kind = "read_state" THEN qpos ELSE 0

\* _handle_frame: an exception becomes an error response.
Answer(line, qpos) ==
    [type |-> IF line.kind \in Rejected THEN "error" ELSE line.kind,
     ok |-> line.kind \notin Rejected,
     qpos |-> StatePayload(line, qpos), act |-> ResultPayload(line)]

\* Mutation of Moved: apply_control_result is left to the client.
MovedByClient(line) == IF line.kind = "reset" THEN 0 ELSE remote

\* The server's own client is reset, and applies what it was sent at once.
Moved(line) ==
    CASE line.kind = "reset" -> 0
      [] line.kind = "send_action" -> remote + AsRealAction(line.act)
      [] OTHER -> remote

\* A line is handled, and answered if somebody is there to read it.
HandleFrame ==
    /\ accepted /\ Head(conns).lines # <<>>
    /\ LET line == Head(Head(conns).lines)
       IN  /\ remote' = Moved(line)
           /\ reply' = IF Len(conns) = 1 /\ link = "up" THEN Answer(line, remote') ELSE reply
           /\ IF line.kind \in {"close", "shutdown"} \/ server = "stopping"
                THEN EndConnection
                ELSE /\ conns' = [conns EXCEPT ![1].lines = Tail(@)]
                     /\ UNCHANGED <<accepted, link>>
           /\ server' = IF StopsAfter(line.kind) THEN "stopping" ELSE server
    /\ UNCHANGED <<modeVars, at, progressVars, plantVars, oneShot>>

EndOfFile ==
    /\ accepted /\ Head(conns).lines = <<>> /\ ~Head(conns).open
    /\ EndConnection
    /\ server' = IF oneShot THEN "stopping" ELSE server
    /\ UNCHANGED <<modeVars, at, progressVars, plantVars, reply, oneShot, remote>>

NextBackend ==
    \/ StartProcess \/ Fail \/ Close \/ Kill
    \/ StartEpisode \/ ResetReply \/ ReadState \/ ReadReply
    \/ \E a \in Sends : Step(a)
    \/ SendReply \/ Apply
    \/ ScriptRequest \/ ScriptReply \/ ScriptEnds
    \/ Accept \/ SetStop \/ StopServing \/ HandleFrame \/ EndOfFile

SpecBackend == InitBackend /\ [][NextBackend]_backendVars
-----------------------------------------------------------------------------
(***************************************************************************)
(* In every combination of modes but one, what start_episode and step      *)
(* return shows each acknowledged command of the episode applied exactly   *)
(* once, and nothing of an earlier episode, a killed process or another    *)
(* client.  The exception: a mock controller acknowledges commands that a  *)
(* reader over TCP never shows.                                            *)
(***************************************************************************)
AppliedOnce ==
    at = "idle" /\ seen # Nothing /\ ~(ControllerIs = "mock" /\ ReaderIs = "tcp")
      => seen.qpos = commanded /\ seen.id = stepId
=============================================================================
