------------------------ MODULE RecordSessionProofs ------------------------
(***************************************************************************)
(* Theorems about RecordSession: for every clip, rate limit, length and    *)
(* number of episodes, whatever the operator's device asks for, and for    *)
(* every number of sessions on one directory, with requests that time out, *)
(* exceptions, interrupts and kills between any two steps.                 *)
(***************************************************************************)
EXTENDS RecordSession, SequenceTheorems, TLAPS

\* In an episode: the bridge has been reset and main() is between the first
\* observation and the file.
InEpisode == {"first", "loop", "send", "sent", "read", "after", "saving"}
Places == InEpisode \cup {"off", "episodes", "start", "finished", "raised"}

FileStates == [by : Nat, done : BOOLEAN, steps : Nat]
Rows == [id : Nat, estop : BOOLEAN, act : Int]

\* What may become a command: the guard's output is never beyond the clip, so
\* as_real_action has nothing left to clip.
Actions == -Clip .. Clip

TypeInv ==
    /\ pc \in Places
    /\ index \in Nat /\ saved \in Nat /\ abort \in BOOLEAN /\ discard \in BOOLEAN
    /\ rows \in Seq(Rows)
    /\ obs \in [id : Nat, estop : BOOLEAN, outdated : BOOLEAN]
    /\ stepId \in Nat /\ last \in Actions
    /\ DOMAIN files \subseteq Nat /\ files \in [DOMAIN files -> FileStates]
    /\ wire \in Seq(Actions) /\ force \in Actions /\ bridged \in Seq(Actions)
    /\ linked \in BOOLEAN /\ cut \in BOOLEAN /\ estop \in BOOLEAN
    /\ overrun \in Nat /\ sessions \in Nat

\* The request under way: one at most, and none while main() is elsewhere in an
\* episode, because every request waits for its answer or ends the session.
WireInv ==
    /\ Len(wire) <= 1
    /\ pc \in InEpisode \ {"sent"} => wire = <<>>
    /\ pc \in InEpisode => linked
    /\ linked /\ pc \notin {"sent", "raised"} => wire = <<>>
    /\ pc = "sent" => wire \in {<<>>, <<last>>}

\* What the bridge has handled, in every place of an episode.
BridgedInv ==
    /\ pc \in {"off", "start", "first"} => rows = <<>>
    /\ pc = "first" => bridged = <<>>
    /\ pc \in {"loop", "send", "after", "saving"} => bridged = RowActions
    /\ pc = "read" \/ (pc = "sent" /\ wire = <<>>) => bridged = Append(RowActions, last)
    /\ pc = "sent" /\ wire # <<>> => bridged = RowActions

\* The observation in hand is the one the next row is about.
RowInv ==
    /\ EpisodesSound
    /\ pc = "first" => stepId = 0
    /\ pc \in {"loop", "send", "sent"} => stepId = Len(rows)
    /\ pc = "read" => stepId = Len(rows) + 1
    /\ pc \in {"loop", "send", "sent", "read"} => obs.id = Len(rows)
    /\ pc \in {"send", "sent", "read"} /\ obs.estop => last = 0

\* The guard's last output is the command in force, unless the watchdog has cut
\* it; what is under way is within the rate limit of it, or zero.
Gentle(a) == cut \/ a = 0 \/ Distance(force, a) <= Delta

GuardInv ==
    /\ pc = "first" => force = 0
    /\ pc \in {"loop", "read"} \/ (pc = "sent" /\ wire = <<>>) => cut \/ force = last
    /\ pc = "send" => Gentle(last)
    /\ wire # <<>> => Gentle(wire[1])

\* Once an action has moved the machine after the e-stop was published, the
\* guard knows of the e-stop before it lets the next one pass.
EstopInv ==
    /\ ~estop => overrun = 0
    /\ overrun <= 1
    /\ overrun = 1 => /\ wire # <<>> => wire[1] = 0
                      /\ pc = "send" => last = 0
                      /\ pc = "loop" => obs.estop

\* The present index is above every file there is, as long as it is not the
\* index of the file being written; and there is a highest index to begin with.
HighestIndex == DOMAIN files # {} => \E m \in DOMAIN files : \A i \in DOMAIN files : i <= m

FileInv ==
    /\ HighestIndex
    /\ pc \notin {"off", "raised", "saving"} => \A i \in DOMAIN files : i < index
    /\ pc = "saving" => index \in DOMAIN files /\ \A i \in DOMAIN files : i <= index

SessionInv == /\ TypeInv /\ WireInv /\ BridgedInv /\ RowInv /\ GuardInv /\ EstopInv
              /\ FileInv /\ EndedMeansSaved
-----------------------------------------------------------------------------
(* The guard *)

\* What check() lets pass is within the clip, and within the rate limit of its
\* last output or zero.
LEMMA GuardedRange ==
    ASSUME last \in Actions, NEW raw \in Int, NEW late \in BOOLEAN
    PROVE  /\ Guarded(raw, late) \in Actions
           /\ Guarded(raw, late) = 0 \/ Distance(last, Guarded(raw, late)) <= Delta
           /\ obs.estop => Guarded(raw, late) = 0
BY RecordSessionAssumption DEF Guarded, Clamp, Actions, Distance

LEMMA CommandedIs ==
    ASSUME NEW a \in Actions
    PROVE  Commanded(a) = a
BY RecordSessionAssumption DEF Commanded, Clamp, Actions

LEMMA ZeroAction == 0 \in Actions
BY RecordSessionAssumption DEF Actions

LEMMA CheckedAction ==
    ASSUME TypeInv, CheckAction
    PROVE  /\ last' \in Actions
           /\ last' = 0 \/ Distance(last, last') <= Delta
           /\ obs.estop => last' = 0
<1> PICK raw \in -Reach .. Reach, late \in BOOLEAN : last' = Guarded(raw, late)
  BY DEF CheckAction
<1>1. raw \in Int
  BY RecordSessionAssumption
<1> QED BY <1>1, GuardedRange DEF TypeInv
-----------------------------------------------------------------------------
(* The files *)

LEMMA NextIndexAbove ==
    ASSUME TypeInv, HighestIndex
    PROVE  NextIndex(files) \in Nat /\ \A i \in DOMAIN files : i < NextIndex(files)
<1>1. CASE DOMAIN files = {}
  BY <1>1 DEF NextIndex
<1>2. CASE DOMAIN files # {}
  <2> DEFINE m == Max(DOMAIN files)
  <2>1. \E x \in DOMAIN files : \A y \in DOMAIN files : x >= y
    BY <1>2 DEF HighestIndex, TypeInv
  <2>2. m \in DOMAIN files /\ \A y \in DOMAIN files : m >= y
    BY <2>1 DEF Max
  <2>3. NextIndex(files) = m + 1
    BY <1>2 DEF NextIndex
  <2> HIDE DEF m
  <2>. QED BY <2>2, <2>3 DEF TypeInv
<1> QED BY <1>1, <1>2

\* recorder.save empties one file and leaves the others.
LEMMA OpenedFiles ==
    ASSUME TypeInv, EndEpisode, Keep
    PROVE  /\ DOMAIN files' = DOMAIN files \cup {index}
           /\ files'[index] = Torn(sessions)
           /\ \A i \in DOMAIN files \ {index} : files'[i] = files[i]
           /\ files' \in [DOMAIN files' -> FileStates]
<1>1. Torn(sessions) \in FileStates
  BY DEF Torn, FileStates, TypeInv
<1> QED BY <1>1 DEF TypeInv, EndEpisode

LEMMA SavedFile ==
    ASSUME TypeInv, FileInv, Save
    PROVE  /\ DOMAIN files' = DOMAIN files /\ index \in DOMAIN files
           /\ files'[index] = Complete(sessions, Len(rows))
           /\ \A i \in DOMAIN files \ {index} : files'[i] = files[i]
           /\ files' \in [DOMAIN files' -> FileStates]
<1>1. Complete(sessions, Len(rows)) \in FileStates
  BY DEF Complete, FileStates, TypeInv
<1> QED BY <1>1 DEF TypeInv, Save, FileInv
-----------------------------------------------------------------------------
(* Types *)

LEMMA EmptySeqs == <<>> \in Seq(Rows) /\ <<>> \in Seq(Actions)
OBVIOUS

LEMMA TypeStep ==
    ASSUME TypeInv, FileInv, [Next]_vars
    PROVE  TypeInv'
<1> USE DEF episodeVars, stepVars, bridgeVars, plantVars
<1>1. CASE StartSession
  BY <1>1, NextIndexAbove DEF StartSession, FileInv, TypeInv, Places, InEpisode
<1>2. CASE NextEpisode
  <2>1. pc' \in Places
    BY <1>2 DEF NextEpisode, Places
  <2>2. rows' \in Seq(Rows)
    BY <1>2, EmptySeqs DEF NextEpisode, TypeInv
  <2>. QED BY <1>2, <2>1, <2>2 DEF NextEpisode, TypeInv
<1>3. CASE ResetBridge
  BY <1>3, ZeroAction DEF ResetBridge, TypeInv, Places, InEpisode
<1>4. CASE FirstObservation
  BY <1>4, ZeroAction, RecordSessionAssumption DEF FirstObservation, Observations, TypeInv, Places, InEpisode
<1>5. CASE LeaveLoop
  BY <1>5 DEF LeaveLoop, TypeInv, Places, InEpisode
<1>6. CASE Quit
  BY <1>6 DEF Quit, TypeInv, Places, InEpisode
<1>7. CASE Discard
  BY <1>7 DEF Discard, TypeInv, Places, InEpisode
<1>8. CASE CheckAction
  BY <1>8, CheckedAction DEF CheckAction, TypeInv, Places, InEpisode
<1>9. CASE SendAction
  BY <1>9, CommandedIs DEF SendAction, TypeInv, Places, InEpisode
<1>10. CASE ReadReply
  BY <1>10 DEF ReadReply, TypeInv, Places, InEpisode
<1>11. CASE Record
  <2>1. Row(obs) \in Rows
    BY DEF Row, Rows, TypeInv, Actions
  <2>2. obs' \in [id : Nat, estop : BOOLEAN, outdated : BOOLEAN]
    BY <1>11, RecordSessionAssumption DEF Record, Observations, TypeInv
  <2>. QED BY <1>11, <2>1, <2>2 DEF Record, TypeInv, Places, InEpisode
<1>12. CASE EndEpisode
  <2>1. pc' \in Places
    BY <1>12 DEF EndEpisode, Places, InEpisode
  <2>2. DOMAIN files' \subseteq Nat /\ files' \in [DOMAIN files' -> FileStates]
    <3>1. CASE Keep
      BY <1>12, <3>1, OpenedFiles DEF TypeInv
    <3>2. CASE ~Keep
      BY <1>12, <3>2 DEF EndEpisode, TypeInv
    <3>. QED BY <3>1, <3>2
  <2>. QED BY <1>12, <2>1, <2>2 DEF EndEpisode, TypeInv
<1>13. CASE Save
  BY <1>13, SavedFile, SMTT(30) DEF Save, TypeInv, Places, InEpisode
<1>14. CASE Raise
  BY <1>14 DEF Raise, TypeInv, Places, InEpisode
<1>15. CASE EndProcess
  BY <1>15, ZeroAction, EmptySeqs DEF EndProcess, NoObservation, TypeInv, Places, InEpisode
<1>16. CASE Interrupt
  BY <1>16 DEF Interrupt, TypeInv, Places, InEpisode
<1>17. CASE Handle
  <2>1. Head(wire) \in Actions /\ Tail(wire) \in Seq(Actions)
    BY <1>17 DEF Handle, TypeInv
  <2>2. bridged' \in Seq(Actions)
    BY <1>17, <2>1 DEF Handle, TypeInv
  <2>3. overrun' \in Nat
    BY <1>17 DEF Handle, TypeInv
  <2>. QED BY <1>17, <2>1, <2>2, <2>3 DEF Handle, TypeInv
<1>18. CASE Lose
  BY <1>18 DEF Lose, TypeInv, Places, InEpisode
<1>19. CASE Watchdog
  BY <1>19, ZeroAction DEF Watchdog, TypeInv, Places, InEpisode
<1>20. CASE Estop
  BY <1>20 DEF Estop, TypeInv, Places, InEpisode
<1>21. CASE UNCHANGED vars
  BY <1>21 DEF vars, TypeInv, Places, InEpisode
<1> QED BY <1>1, <1>2, <1>3, <1>4, <1>5, <1>6, <1>7, <1>8, <1>9, <1>10, <1>11, <1>12, <1>13, <1>14, <1>15, <1>16, <1>17, <1>18, <1>19, <1>20, <1>21
       DEF Next, Program, CloseSession, Kill

-----------------------------------------------------------------------------
(* The request under way *)

LEMMA OneRequest ==
    ASSUME TypeInv, WireInv, wire # <<>>
    PROVE  /\ Head(wire) = wire[1] /\ wire[1] \in Actions
           /\ Tail(wire) = <<>>
           /\ wire = <<wire[1]>>
<1>1. wire \in Seq(Actions) /\ Len(wire) \in Nat /\ Len(wire) <= 1
  BY DEF TypeInv, WireInv
<1>2. Len(wire) # 0
  BY <1>1, EmptySeq
<1>3. Len(wire) = 1
  <2>1. \A n \in Nat : n <= 1 /\ n # 0 => n = 1
    OBVIOUS
  <2>. QED BY <1>1, <1>2, <2>1
<1>4. Tail(wire) \in Seq(Actions) /\ Len(Tail(wire)) = 0
  BY <1>1, <1>3, HeadTailProperties
<1>5. Tail(wire) = <<>>
  BY <1>4, EmptySeq
<1>6. Head(wire) = wire[1] /\ wire[1] \in Actions
  BY <1>1, <1>3
<1>7. wire = <<wire[1]>>
  BY <1>1, <1>3
<1> QED BY <1>5, <1>6, <1>7

LEMMA RequestSent ==
    ASSUME TypeInv, WireInv, SendAction
    PROVE  wire = <<>> /\ wire' = <<last>>
<1>1. wire = <<>>
  BY DEF SendAction, WireInv, InEpisode
<1> QED BY <1>1, CommandedIs DEF SendAction, TypeInv

LEMMA WireStep ==
    ASSUME TypeInv, WireInv, [Next]_vars
    PROVE  WireInv'
<1> USE DEF episodeVars, stepVars, bridgeVars, plantVars
<1>1. CASE StartSession
  BY <1>1 DEF StartSession, WireInv, InEpisode
<1>2. CASE NextEpisode
  BY <1>2 DEF NextEpisode, WireInv, InEpisode
<1>3. CASE ResetBridge
  BY <1>3 DEF ResetBridge, WireInv, InEpisode
<1>4. CASE FirstObservation
  BY <1>4 DEF FirstObservation, WireInv, InEpisode
<1>5. CASE LeaveLoop
  BY <1>5 DEF LeaveLoop, WireInv, InEpisode
<1>6. CASE Quit
  BY <1>6 DEF Quit, WireInv, InEpisode
<1>7. CASE Discard
  BY <1>7 DEF Discard, WireInv, InEpisode
<1>8. CASE CheckAction
  BY <1>8 DEF CheckAction, WireInv, InEpisode
<1>9. CASE SendAction
  BY <1>9, RequestSent DEF SendAction, WireInv, InEpisode
<1>10. CASE ReadReply
  BY <1>10 DEF ReadReply, WireInv, InEpisode
<1>11. CASE Record
  BY <1>11 DEF Record, WireInv, InEpisode
<1>12. CASE EndEpisode
  BY <1>12 DEF EndEpisode, WireInv, InEpisode
<1>13. CASE Save
  BY <1>13 DEF Save, WireInv, InEpisode
<1>14. CASE Raise
  BY <1>14 DEF Raise, WireInv, InEpisode
<1>15. CASE EndProcess
  BY <1>15 DEF EndProcess, WireInv, InEpisode
<1>16. CASE Interrupt
  BY <1>16 DEF Interrupt, WireInv, InEpisode
<1>17. CASE Handle
  BY <1>17, OneRequest DEF Handle, WireInv, InEpisode
<1>18. CASE Lose
  BY <1>18 DEF Lose, WireInv, InEpisode
<1>19. CASE Watchdog
  BY <1>19 DEF Watchdog, WireInv, InEpisode
<1>20. CASE Estop
  BY <1>20 DEF Estop, WireInv, InEpisode
<1>21. CASE UNCHANGED vars
  BY <1>21 DEF vars, WireInv, InEpisode
<1> QED BY <1>1, <1>2, <1>3, <1>4, <1>5, <1>6, <1>7, <1>8, <1>9, <1>10, <1>11, <1>12, <1>13, <1>14, <1>15, <1>16, <1>17, <1>18, <1>19, <1>20, <1>21
       DEF Next, Program, CloseSession, Kill
-----------------------------------------------------------------------------
(* What the bridge was given *)

LEMMA ActionsOfNone ==
    ASSUME rows = <<>>
    PROVE  RowActions = <<>>
<1>1. RowActions \in Seq(Int) /\ Len(RowActions) = 0
  BY DEF RowActions
<1> QED BY <1>1, EmptySeq

LEMMA ActionsOfRows ==
    ASSUME TypeInv
    PROVE  RowActions \in Seq(Int) /\ Len(RowActions) = Len(rows)
<1>1. \A k \in 1 .. Len(rows) : rows[k] \in Rows
  BY ElementOfSeq DEF TypeInv
<1>2. DOMAIN rows = 1 .. Len(rows) /\ Len(rows) \in Nat
  BY DEF TypeInv
<1> QED BY <1>1, <1>2 DEF RowActions, Rows

LEMMA ActionsOfRecorded ==
    ASSUME TypeInv, Record
    PROVE  RowActions' = Append(RowActions, last)
<1>1. rows' = Append(rows, Row(obs)) /\ Row(obs).act = last /\ Row(obs) \in Rows
  BY DEF Record, Row, Rows, TypeInv, Actions
<1>2. rows \in Seq(Rows)
  BY DEF TypeInv
<1>3. /\ Len(rows) \in Nat /\ Len(rows') = Len(rows) + 1 /\ rows' \in Seq(Rows)
      /\ \A k \in 1 .. Len(rows) : rows'[k] = rows[k]
      /\ rows'[Len(rows) + 1] = Row(obs)
  BY <1>1, <1>2
<1>4. /\ RowActions \in Seq(Int) /\ Len(RowActions) = Len(rows)
      /\ \A k \in 1 .. Len(rows) : RowActions[k] = rows[k].act
  BY <1>2, ActionsOfRows DEF RowActions
<1>5. /\ RowActions' \in Seq(Int) /\ Len(RowActions') = Len(rows) + 1
      /\ \A k \in 1 .. Len(rows) + 1 : RowActions'[k] = rows'[k].act
  <2>1. \A k \in 1 .. Len(rows') : rows'[k] \in Rows
    BY <1>3, ElementOfSeq
  <2>2. DOMAIN rows' = 1 .. Len(rows) + 1
    BY <1>3
  <2>. QED BY <1>3, <2>1, <2>2 DEF RowActions, Rows
<1>6. last \in Int
  BY DEF TypeInv, Actions
<1>7. /\ Append(RowActions, last) \in Seq(Int)
      /\ Len(Append(RowActions, last)) = Len(rows) + 1
      /\ \A k \in 1 .. Len(rows) : Append(RowActions, last)[k] = RowActions[k]
      /\ Append(RowActions, last)[Len(rows) + 1] = last
  BY <1>4, <1>6
<1>8. \A k \in 1 .. Len(rows) + 1 : RowActions'[k] = Append(RowActions, last)[k]
  <2>1. ASSUME NEW k \in 1 .. Len(rows) PROVE RowActions'[k] = Append(RowActions, last)[k]
    <3>1. k \in 1 .. Len(rows) + 1
      BY <1>3
    <3>2. RowActions'[k] = rows'[k].act /\ rows'[k] = rows[k]
      BY <1>3, <1>5, <3>1
    <3>3. Append(RowActions, last)[k] = rows[k].act
      BY <1>4, <1>7
    <3>. QED BY <3>2, <3>3
  <2>2. RowActions'[Len(rows) + 1] = last
    BY <1>1, <1>3, <1>5
  <2>. QED BY <1>3, <1>7, <2>1, <2>2
<1> QED BY <1>3, <1>5, <1>7, <1>8, SeqEqual

LEMMA BridgedStep ==
    ASSUME TypeInv, WireInv, BridgedInv, [Next]_vars
    PROVE  BridgedInv'
<1> USE DEF episodeVars, stepVars, bridgeVars, plantVars
<1>1. CASE StartSession
  BY <1>1 DEF StartSession, BridgedInv, RowActions
<1>2. CASE NextEpisode
  BY <1>2 DEF NextEpisode, BridgedInv, RowActions
<1>3. CASE ResetBridge
  BY <1>3 DEF ResetBridge, BridgedInv, RowActions
<1>4. CASE FirstObservation
  <2>1. RowActions' = RowActions
    BY <1>4 DEF FirstObservation, RowActions
  <2>. QED BY <1>4, <2>1, ActionsOfNone DEF FirstObservation, BridgedInv
<1>5. CASE LeaveLoop
  BY <1>5 DEF LeaveLoop, BridgedInv, RowActions
<1>6. CASE Quit
  BY <1>6 DEF Quit, BridgedInv, RowActions
<1>7. CASE Discard
  BY <1>7 DEF Discard, BridgedInv, RowActions
<1>8. CASE CheckAction
  BY <1>8 DEF CheckAction, BridgedInv, RowActions
<1>9. CASE SendAction
  BY <1>9, RequestSent DEF SendAction, BridgedInv, RowActions
<1>10. CASE ReadReply
  BY <1>10, RequestSent DEF ReadReply, BridgedInv, RowActions
<1>11. CASE Record
  BY <1>11, ActionsOfRecorded DEF Record, BridgedInv
<1>12. CASE EndEpisode
  BY <1>12 DEF EndEpisode, BridgedInv, RowActions
<1>13. CASE Save
  BY <1>13 DEF Save, BridgedInv, RowActions
<1>14. CASE Raise
  BY <1>14 DEF Raise, BridgedInv, RowActions
<1>15. CASE EndProcess
  BY <1>15 DEF EndProcess, BridgedInv, RowActions
<1>16. CASE Interrupt
  BY <1>16 DEF Interrupt, BridgedInv, RowActions
<1>17. CASE Handle
  BY <1>17, OneRequest DEF Handle, BridgedInv, RowActions, WireInv, InEpisode
<1>18. CASE Lose
  <2>1. pc \notin InEpisode
    BY <1>18 DEF Lose, WireInv
  <2>. QED BY <1>18, <2>1 DEF Lose, BridgedInv, RowActions, InEpisode
<1>19. CASE Watchdog
  BY <1>19 DEF Watchdog, BridgedInv, RowActions
<1>20. CASE Estop
  BY <1>20 DEF Estop, BridgedInv, RowActions
<1>21. CASE UNCHANGED vars
  BY <1>21 DEF vars, BridgedInv, RowActions
<1> QED BY <1>1, <1>2, <1>3, <1>4, <1>5, <1>6, <1>7, <1>8, <1>9, <1>10, <1>11, <1>12, <1>13, <1>14, <1>15, <1>16, <1>17, <1>18, <1>19, <1>20, <1>21
       DEF Next, Program, CloseSession, Kill
-----------------------------------------------------------------------------
(* The rows *)

LEMMA NoRows ==
    ASSUME rows = <<>>
    PROVE  Len(rows) = 0 /\ DOMAIN rows = {}
OBVIOUS

LEMMA RowStep ==
    ASSUME TypeInv, BridgedInv, RowInv, [Next]_vars
    PROVE  RowInv'
<1> USE DEF episodeVars, stepVars, bridgeVars, plantVars
<1>1. CASE StartSession
  BY <1>1 DEF StartSession, RowInv, EpisodesSound
<1>2. CASE NextEpisode
  BY <1>2, NoRows DEF NextEpisode, RowInv, EpisodesSound, BridgedInv
<1>3. CASE ResetBridge
  BY <1>3 DEF ResetBridge, RowInv, EpisodesSound
<1>4. CASE FirstObservation
  BY <1>4, NoRows DEF FirstObservation, RowInv, EpisodesSound, BridgedInv, Observations
<1>5. CASE LeaveLoop
  BY <1>5 DEF LeaveLoop, RowInv, EpisodesSound
<1>6. CASE Quit
  BY <1>6 DEF Quit, RowInv, EpisodesSound
<1>7. CASE Discard
  BY <1>7 DEF Discard, RowInv, EpisodesSound
<1>8. CASE CheckAction
  BY <1>8, CheckedAction DEF CheckAction, RowInv, EpisodesSound
<1>9. CASE SendAction
  BY <1>9 DEF SendAction, RowInv, EpisodesSound
<1>10. CASE ReadReply
  BY <1>10 DEF ReadReply, RowInv, EpisodesSound
<1>11. CASE Record
  <2>1. rows' = Append(rows, Row(obs)) /\ Row(obs) \in Rows /\ rows \in Seq(Rows)
    BY <1>11 DEF Record, Row, Rows, TypeInv, Actions
  <2>2. /\ Len(rows) \in Nat /\ Len(rows') = Len(rows) + 1
        /\ DOMAIN rows = 1 .. Len(rows) /\ DOMAIN rows' = 1 .. Len(rows) + 1
        /\ \A k \in 1 .. Len(rows) : rows'[k] = rows[k]
        /\ rows'[Len(rows) + 1] = Row(obs)
    BY <2>1
  <2>3. Row(obs).id = Len(rows) /\ (Row(obs).estop => Row(obs).act = 0)
    BY <1>11 DEF Record, RowInv, Row
  <2>4. EpisodesSound'
    <3> SUFFICES ASSUME NEW k \in 1 .. Len(rows) + 1
                 PROVE  /\ rows'[k].id = k - 1
                        /\ rows'[k].estop => rows'[k].act = 0
      BY <2>2 DEF EpisodesSound
    <3>1. CASE k \in 1 .. Len(rows)
      BY <2>2, <3>1 DEF RowInv, EpisodesSound
    <3>2. CASE k = Len(rows) + 1
      BY <2>2, <2>3, <3>2
    <3>. QED BY <2>2, <3>1, <3>2
  <2>5. pc' = "loop" /\ stepId' = stepId /\ stepId = Len(rows) + 1 /\ obs'.id = stepId
    BY <1>11 DEF Record, RowInv, Observations
  <2>. QED BY <2>2, <2>4, <2>5 DEF RowInv
<1>12. CASE EndEpisode
  BY <1>12 DEF EndEpisode, RowInv, EpisodesSound
<1>13. CASE Save
  BY <1>13 DEF Save, RowInv, EpisodesSound
<1>14. CASE Raise
  BY <1>14 DEF Raise, RowInv, EpisodesSound
<1>15. CASE EndProcess
  BY <1>15 DEF EndProcess, RowInv, EpisodesSound
<1>16. CASE Interrupt
  BY <1>16 DEF Interrupt, RowInv, EpisodesSound
<1>17. CASE Handle
  BY <1>17 DEF Handle, RowInv, EpisodesSound
<1>18. CASE Lose
  BY <1>18 DEF Lose, RowInv, EpisodesSound
<1>19. CASE Watchdog
  BY <1>19 DEF Watchdog, RowInv, EpisodesSound
<1>20. CASE Estop
  BY <1>20 DEF Estop, RowInv, EpisodesSound
<1>21. CASE UNCHANGED vars
  BY <1>21 DEF vars, RowInv, EpisodesSound
<1> QED BY <1>1, <1>2, <1>3, <1>4, <1>5, <1>6, <1>7, <1>8, <1>9, <1>10, <1>11, <1>12, <1>13, <1>14, <1>15, <1>16, <1>17, <1>18, <1>19, <1>20, <1>21
       DEF Next, Program, CloseSession, Kill

-----------------------------------------------------------------------------
(* The command in force *)

LEMMA DistanceFacts ==
    /\ \A a, b \in Actions : Distance(a, b) \in Nat
    /\ \A a \in Actions : Distance(a, a) <= Delta
BY RecordSessionAssumption DEF Actions, Distance

LEMMA GuardStep ==
    ASSUME TypeInv, WireInv, GuardInv, [Next]_vars
    PROVE  GuardInv'
<1> USE DEF episodeVars, stepVars, bridgeVars, plantVars
<1>1. CASE StartSession
  BY <1>1 DEF StartSession, GuardInv, Gentle
<1>2. CASE NextEpisode
  BY <1>2 DEF NextEpisode, GuardInv, Gentle
<1>3. CASE ResetBridge
  BY <1>3 DEF ResetBridge, GuardInv, Gentle, WireInv, InEpisode
<1>4. CASE FirstObservation
  BY <1>4, DistanceFacts DEF FirstObservation, GuardInv, Gentle, TypeInv, WireInv, InEpisode
<1>5. CASE LeaveLoop
  BY <1>5 DEF LeaveLoop, GuardInv, Gentle
<1>6. CASE Quit
  BY <1>6 DEF Quit, GuardInv, Gentle
<1>7. CASE Discard
  BY <1>7 DEF Discard, GuardInv, Gentle
<1>8. CASE CheckAction
  BY <1>8, CheckedAction DEF CheckAction, GuardInv, Gentle, WireInv, InEpisode
<1>9. CASE SendAction
  BY <1>9, RequestSent DEF SendAction, GuardInv, Gentle, WireInv, InEpisode
<1>10. CASE ReadReply
  BY <1>10 DEF ReadReply, GuardInv, Gentle
<1>11. CASE Record
  BY <1>11 DEF Record, GuardInv, Gentle
<1>12. CASE EndEpisode
  BY <1>12 DEF EndEpisode, GuardInv, Gentle
<1>13. CASE Save
  BY <1>13 DEF Save, GuardInv, Gentle
<1>14. CASE Raise
  BY <1>14 DEF Raise, GuardInv, Gentle
<1>15. CASE EndProcess
  BY <1>15 DEF EndProcess, GuardInv, Gentle
<1>16. CASE Interrupt
  BY <1>16 DEF Interrupt, GuardInv, Gentle
<1>17. CASE Handle
  BY <1>17, OneRequest DEF Handle, GuardInv, Gentle, WireInv, InEpisode
<1>18. CASE Lose
  BY <1>18 DEF Lose, GuardInv, Gentle, WireInv, InEpisode
<1>19. CASE Watchdog
  BY <1>19 DEF Watchdog, GuardInv, Gentle
<1>20. CASE Estop
  BY <1>20 DEF Estop, GuardInv, Gentle
<1>21. CASE UNCHANGED vars
  BY <1>21 DEF vars, GuardInv, Gentle
<1> QED BY <1>1, <1>2, <1>3, <1>4, <1>5, <1>6, <1>7, <1>8, <1>9, <1>10, <1>11, <1>12, <1>13, <1>14, <1>15, <1>16, <1>17, <1>18, <1>19, <1>20, <1>21
       DEF Next, Program, CloseSession, Kill

-----------------------------------------------------------------------------
(* The e-stop *)

LEMMA EstopStep ==
    ASSUME TypeInv, WireInv, RowInv, EstopInv, [Next]_vars
    PROVE  EstopInv'
<1> USE DEF episodeVars, stepVars, bridgeVars, plantVars
<1>1. CASE StartSession
  BY <1>1 DEF StartSession, EstopInv
<1>2. CASE NextEpisode
  BY <1>2 DEF NextEpisode, EstopInv
<1>3. CASE ResetBridge
  BY <1>3 DEF ResetBridge, EstopInv
<1>4. CASE FirstObservation
  BY <1>4 DEF FirstObservation, EstopInv, Observations
<1>5. CASE LeaveLoop
  BY <1>5 DEF LeaveLoop, EstopInv
<1>6. CASE Quit
  BY <1>6 DEF Quit, EstopInv
<1>7. CASE Discard
  BY <1>7 DEF Discard, EstopInv
<1>8. CASE CheckAction
  BY <1>8, CheckedAction DEF CheckAction, EstopInv, WireInv, InEpisode
<1>9. CASE SendAction
  BY <1>9, RequestSent DEF SendAction, EstopInv
<1>10. CASE ReadReply
  BY <1>10 DEF ReadReply, EstopInv
<1>11. CASE Record
  BY <1>11 DEF Record, EstopInv, Observations
<1>12. CASE EndEpisode
  BY <1>12 DEF EndEpisode, EstopInv
<1>13. CASE Save
  BY <1>13 DEF Save, EstopInv
<1>14. CASE Raise
  BY <1>14 DEF Raise, EstopInv
<1>15. CASE EndProcess
  BY <1>15 DEF EndProcess, EstopInv
<1>16. CASE Interrupt
  BY <1>16 DEF Interrupt, EstopInv
<1>17. CASE Handle
  BY <1>17, OneRequest DEF Handle, EstopInv, WireInv, InEpisode, TypeInv
<1>18. CASE Lose
  BY <1>18 DEF Lose, EstopInv
<1>19. CASE Watchdog
  BY <1>19 DEF Watchdog, EstopInv
<1>20. CASE Estop
  BY <1>20 DEF Estop, EstopInv
<1>21. CASE UNCHANGED vars
  BY <1>21 DEF vars, EstopInv
<1> QED BY <1>1, <1>2, <1>3, <1>4, <1>5, <1>6, <1>7, <1>8, <1>9, <1>10, <1>11, <1>12, <1>13, <1>14, <1>15, <1>16, <1>17, <1>18, <1>19, <1>20, <1>21
       DEF Next, Program, CloseSession, Kill
-----------------------------------------------------------------------------
(* The directory *)

LEMMA FileStep ==
    ASSUME TypeInv, FileInv, [Next]_vars
    PROVE  FileInv'
<1> USE DEF episodeVars, stepVars, bridgeVars, plantVars
<1>1. CASE StartSession
  BY <1>1, NextIndexAbove DEF StartSession, FileInv, HighestIndex
<1>2. CASE NextEpisode
  BY <1>2 DEF NextEpisode, FileInv, HighestIndex
<1>3. CASE ResetBridge
  BY <1>3 DEF ResetBridge, FileInv, HighestIndex
<1>4. CASE FirstObservation
  BY <1>4 DEF FirstObservation, FileInv, HighestIndex
<1>5. CASE LeaveLoop
  BY <1>5 DEF LeaveLoop, FileInv, HighestIndex
<1>6. CASE Quit
  BY <1>6 DEF Quit, FileInv, HighestIndex
<1>7. CASE Discard
  BY <1>7 DEF Discard, FileInv, HighestIndex
<1>8. CASE CheckAction
  BY <1>8 DEF CheckAction, FileInv, HighestIndex
<1>9. CASE SendAction
  BY <1>9 DEF SendAction, FileInv, HighestIndex
<1>10. CASE ReadReply
  BY <1>10 DEF ReadReply, FileInv, HighestIndex
<1>11. CASE Record
  BY <1>11 DEF Record, FileInv, HighestIndex
<1>12. CASE EndEpisode
  <2>1. CASE Keep
    <3>1. DOMAIN files' = DOMAIN files \cup {index} /\ pc' = "saving" /\ index' = index
      BY <1>12, <2>1, OpenedFiles DEF EndEpisode
    <3>2. \A i \in DOMAIN files : i < index
      BY <1>12 DEF EndEpisode, FileInv
    <3>3. index \in Nat /\ DOMAIN files \subseteq Nat
      BY DEF TypeInv
    <3>4. \A i \in DOMAIN files' : i <= index
      BY <3>1, <3>2, <3>3
    <3>. QED BY <3>1, <3>4 DEF FileInv, HighestIndex
  <2>2. CASE ~Keep
    BY <1>12, <2>2 DEF EndEpisode, FileInv, HighestIndex
  <2>. QED BY <2>1, <2>2
<1>13. CASE Save
  <2>1. DOMAIN files' = DOMAIN files /\ index' = index + 1 /\ pc' = "episodes"
    BY <1>13, SavedFile DEF Save
  <2>2. index \in Nat /\ DOMAIN files \subseteq Nat
    BY DEF TypeInv
  <2>. QED BY <1>13, <2>1, <2>2 DEF Save, FileInv, HighestIndex
<1>14. CASE Raise
  BY <1>14 DEF Raise, FileInv, HighestIndex
<1>15. CASE EndProcess
  BY <1>15 DEF EndProcess, FileInv, HighestIndex
<1>16. CASE Interrupt
  BY <1>16 DEF Interrupt, FileInv, HighestIndex
<1>17. CASE Handle
  BY <1>17 DEF Handle, FileInv, HighestIndex
<1>18. CASE Lose
  BY <1>18 DEF Lose, FileInv, HighestIndex
<1>19. CASE Watchdog
  BY <1>19 DEF Watchdog, FileInv, HighestIndex
<1>20. CASE Estop
  BY <1>20 DEF Estop, FileInv, HighestIndex
<1>21. CASE UNCHANGED vars
  BY <1>21 DEF vars, FileInv, HighestIndex
<1> QED BY <1>1, <1>2, <1>3, <1>4, <1>5, <1>6, <1>7, <1>8, <1>9, <1>10, <1>11, <1>12, <1>13, <1>14, <1>15, <1>16, <1>17, <1>18, <1>19, <1>20, <1>21
       DEF Next, Program, CloseSession, Kill

LEMMA EndedStep ==
    ASSUME TypeInv, BridgedInv, FileInv, EndedMeansSaved, [Next]_vars
    PROVE  EndedMeansSaved'
<1> USE DEF episodeVars, stepVars, bridgeVars, plantVars
<1>1. CASE StartSession
  BY <1>1 DEF StartSession, EndedMeansSaved, BridgedInv
<1>2. CASE NextEpisode
  BY <1>2 DEF NextEpisode, EndedMeansSaved
<1>3. CASE ResetBridge
  BY <1>3 DEF ResetBridge, EndedMeansSaved
<1>4. CASE FirstObservation
  BY <1>4 DEF FirstObservation, EndedMeansSaved
<1>5. CASE LeaveLoop
  BY <1>5 DEF LeaveLoop, EndedMeansSaved
<1>6. CASE Quit
  BY <1>6 DEF Quit, EndedMeansSaved
<1>7. CASE Discard
  BY <1>7 DEF Discard, EndedMeansSaved
<1>8. CASE CheckAction
  BY <1>8 DEF CheckAction, EndedMeansSaved
<1>9. CASE SendAction
  BY <1>9 DEF SendAction, EndedMeansSaved
<1>10. CASE ReadReply
  BY <1>10 DEF ReadReply, EndedMeansSaved
<1>11. CASE Record
  BY <1>11 DEF Record, EndedMeansSaved
<1>12. CASE EndEpisode
  BY <1>12 DEF EndEpisode, EndedMeansSaved, Keep
<1>13. CASE Save
  <2>1. /\ index' = index + 1 /\ index \in DOMAIN files'
        /\ files'[index] = Complete(sessions, Len(rows))
        /\ sessions' = sessions /\ rows' = rows
    BY <1>13, SavedFile DEF Save
  <2>2. index' - 1 = index
    BY <2>1 DEF TypeInv
  <2>. QED BY <2>1, <2>2 DEF EndedMeansSaved
<1>14. CASE Raise
  BY <1>14 DEF Raise, EndedMeansSaved
<1>15. CASE EndProcess
  BY <1>15 DEF EndProcess, EndedMeansSaved
<1>16. CASE Interrupt
  BY <1>16 DEF Interrupt, EndedMeansSaved
<1>17. CASE Handle
  BY <1>17 DEF Handle, EndedMeansSaved
<1>18. CASE Lose
  BY <1>18 DEF Lose, EndedMeansSaved
<1>19. CASE Watchdog
  BY <1>19 DEF Watchdog, EndedMeansSaved
<1>20. CASE Estop
  BY <1>20 DEF Estop, EndedMeansSaved
<1>21. CASE UNCHANGED vars
  BY <1>21 DEF vars, EndedMeansSaved
<1> QED BY <1>1, <1>2, <1>3, <1>4, <1>5, <1>6, <1>7, <1>8, <1>9, <1>10, <1>11, <1>12, <1>13, <1>14, <1>15, <1>16, <1>17, <1>18, <1>19, <1>20, <1>21
       DEF Next, Program, CloseSession, Kill

-----------------------------------------------------------------------------
(* The theorems *)

LEMMA SessionStep == SessionInv /\ [Next]_vars => SessionInv'
BY TypeStep, WireStep, BridgedStep, RowStep, GuardStep, EstopStep, FileStep, EndedStep
   DEF SessionInv

LEMMA SessionInit == Init => SessionInv
<1> SUFFICES ASSUME Init PROVE SessionInv
  OBVIOUS
<1>1. TypeInv
  <2>1. DOMAIN files \subseteq Nat /\ files \in [DOMAIN files -> FileStates]
    <3> PICK L \in {{}, {Leftover}} : files = [i \in L |-> Torn(0)]
      BY DEF Init
    <3>. QED BY RecordSessionAssumption DEF Torn, FileStates
  <2>. QED BY <2>1, ZeroAction, EmptySeqs DEF Init, TypeInv, Places, NoObservation
<1>2. FileInv
  <2> PICK L \in {{}, {Leftover}} : files = [i \in L |-> Torn(0)]
    BY DEF Init
  <2>1. DOMAIN files = L
    OBVIOUS
  <2>2. HighestIndex
    BY <2>1, RecordSessionAssumption DEF HighestIndex
  <2>. QED BY <2>2 DEF Init, FileInv
<1>3. WireInv /\ BridgedInv /\ GuardInv /\ EstopInv /\ EndedMeansSaved
  BY DEF Init, WireInv, BridgedInv, GuardInv, EstopInv, EndedMeansSaved, InEpisode
<1>4. RowInv
  BY NoRows DEF Init, RowInv, EpisodesSound
<1> QED BY <1>1, <1>2, <1>3, <1>4 DEF SessionInv

LEMMA SessionInvCorrect == Spec => []SessionInv
BY SessionInit, SessionStep, PTL DEF Spec

\* The recorder holds what the bridge has handled, neither fewer actions nor
\* more (RealExcavatorBackend.step, EpisodeRecorder.record).
THEOREM RecordCorrect == Spec => []RecordIsWhatWasDone
<1>1. SessionInv => RecordIsWhatWasDone
  BY DEF SessionInv, BridgedInv, RecordIsWhatWasDone
<1> QED BY <1>1, SessionInvCorrect, PTL

\* Rows are numbered without a gap, and none moves the machine in spite of an
\* e-stop that its observation shows (main, ActionGuard.check).
THEOREM EpisodesCorrect == Spec => []EpisodesSound
<1>1. SessionInv => EpisodesSound
  BY DEF SessionInv, RowInv
<1> QED BY <1>1, SessionInvCorrect, PTL

\* An episode that ends without an exception and is not discarded is on disk
\* when main() goes on (main, after the loop over the steps).
THEOREM EndedCorrect == Spec => []EndedMeansSaved
<1>1. SessionInv => EndedMeansSaved
  BY DEF SessionInv
<1> QED BY <1>1, SessionInvCorrect, PTL

\* At most one action moves the machine after the e-stop was published
\* (ActionGuard.check against handleSendAction).
THEOREM EstopCorrect == Spec => []EstopStopsMachine
<1>1. SessionInv => EstopStopsMachine
  BY DEF SessionInv, EstopInv, EstopStopsMachine
<1> QED BY <1>1, SessionInvCorrect, PTL

\* The step of CommandChangesGently: only the bridge changes the command, to
\* what is under way, or to zero.
LEMMA GentleStep ==
    SessionInv /\ [Next]_vars =>
        [force' # force => force' = 0 \/ cut \/ Distance(force, force') <= Delta]_vars
<1> SUFFICES ASSUME SessionInv, [Next]_vars, force' # force
             PROVE  force' = 0 \/ cut \/ Distance(force, force') <= Delta
  OBVIOUS
<1>1. CASE Handle
  <2>1. force' = wire[1] /\ Gentle(wire[1])
    BY <1>1, OneRequest DEF Handle, SessionInv, GuardInv
  <2>. QED BY <2>1 DEF Gentle
<1>2. CASE ResetBridge \/ Watchdog
  BY <1>2 DEF ResetBridge, Watchdog
<1> QED BY <1>1, <1>2 DEF Next, Program, CloseSession, Kill, vars, bridgeVars, StartSession,
       NextEpisode, FirstObservation, LeaveLoop, Quit, Discard, CheckAction, SendAction,
       ReadReply, Record, EndEpisode, Save, Raise, EndProcess, Interrupt, Lose, Estop

\* The rate limit reaches the machine, over episodes, sessions and late
\* requests (ActionGuard.reset, start_episode).
THEOREM GentleCorrect == Spec => CommandChangesGently
BY SessionInvCorrect, GentleStep, PTL DEF Spec, CommandChangesGently

\* The step of FilesStay: a new episode's index is above that of every file.
LEMMA FilesStep ==
    SessionInv /\ [Next]_vars =>
        [\A i \in DOMAIN files :
             /\ i \in DOMAIN files'
             /\ files'[i] = files[i] \/ (i = index /\ pc = "saving")]_vars
<1> SUFFICES ASSUME SessionInv, [Next]_vars, NEW i \in DOMAIN files
             PROVE  /\ i \in DOMAIN files'
                    /\ files'[i] = files[i] \/ (i = index /\ pc = "saving")
  OBVIOUS
<1>1. CASE EndEpisode
  <2>1. i < index /\ i \in Nat /\ index \in Nat
    BY <1>1 DEF EndEpisode, SessionInv, FileInv, TypeInv
  <2>2. i # index
    BY <2>1
  <2>. QED BY <1>1, <2>2 DEF EndEpisode
<1>2. CASE Save
  BY <1>2, SavedFile DEF Save, SessionInv
<1> QED BY <1>1, <1>2 DEF Next, Program, CloseSession, Kill, vars, StartSession,
       NextEpisode, ResetBridge, FirstObservation, LeaveLoop, Quit, Discard, CheckAction,
       SendAction, ReadReply, Record, Raise, EndProcess, Interrupt, Handle, Lose, Watchdog,
       Estop

\* No file is written again by this session or a later one
\* (_next_episode_idx, recorder.save).
THEOREM FilesCorrect == Spec => FilesStay
BY SessionInvCorrect, FilesStep, PTL DEF Spec, FilesStay
=============================================================================
