----------------------- MODULE DisplayTelemetryProofs -----------------------
\* Type correctness of DisplayTelemetry, for every set of payloads, numbering, limit and
\* number of faults.
EXTENDS DisplayTelemetry, ClockLemmas

LEMMA ConstantTypes ==
    /\ Seqs \subseteq Nat /\ NoSeq \notin Seqs /\ NoSeq \in Nat
    /\ SeqSize \in Nat \ {0} /\ MaxChanges \in Nat /\ MaxFaults \in Nat
    /\ Debounce \in Nat \ {0} /\ ResyncGap \in Nat \ {0}
BY TelemetryAssumption DEF Seqs, NoSeq

\* The count skips 0, which says that there is none.
LEMMA NextSeqType == \A seq \in Seqs \union {0} : NextSeq(seq) \in Seqs
<1> TAKE seq \in Seqs \union {0}
<1>1. SeqSize \in Nat /\ SeqSize > 1 /\ SeqSize \in Nat \ {0} /\ seq + 1 \in Int
  BY TelemetryAssumption DEF Seqs
<1>2. (seq + 1) % SeqSize \in 0..(SeqSize - 1)
  BY <1>1, DivMod
<1> DEFINE next == (seq + 1) % SeqSize
<1> HIDE DEF next
<1>3. next \in 0..(SeqSize - 1) => (IF next = NoSeq THEN 1 ELSE next) \in Seqs
  BY <1>1 DEF Seqs, NoSeq
<1> QED
  BY <1>2, <1>3 DEF next, NextSeq

\* A frame that is sent finds room, one that is heard was in the air.
Frames == Telemetry \union {Heartbeat}

LEMMA SentType ==
    ASSUME TelemetryTypeOK, NEW frame \in Frames, Sent(frame)
    PROVE  air' \in Seq(Frames) /\ Len(air') <= MaxAir /\ faults' \in 0..MaxFaults
<1>1. air \in Seq(Frames) /\ Len(air) < MaxAir /\ faults \in 0..MaxFaults
  BY DEF TelemetryTypeOK, Sent, Frames
<1>2. PICK lost \in BOOLEAN : air' = (IF lost THEN air ELSE Append(air, frame)) /\ Fault(lost)
  BY DEF Sent
<1>3. Append(air, frame) \in Seq(Frames) /\ Len(Append(air, frame)) = Len(air) + 1
  BY <1>1
<1>4. faults' \in 0..MaxFaults
  BY <1>1, <1>2, ConstantTypes DEF Fault
<1>5. Len(air) \in Nat
  BY <1>1
<1> QED
  BY <1>1, <1>2, <1>3, <1>4, <1>5 DEF MaxAir

LEMMA HeardType ==
    ASSUME TelemetryTypeOK, NEW frame, Heard(frame)
    PROVE  air' \in Seq(Frames) /\ Len(air') <= MaxAir
<1>1. air \in Seq(Frames) /\ Len(air) <= MaxAir /\ air # <<>> /\ air' = Tail(air)
  BY DEF TelemetryTypeOK, Heard, Frames
<1>2. Tail(air) \in Seq(Frames) /\ Len(Tail(air)) = Len(air) - 1 /\ Len(air) \in Nat
  BY <1>1
<1> QED
  BY <1>1, <1>2 DEF MaxAir

\* What changes takes the next number, and is sent.
LEMMA PublishType ==
    ASSUME TelemetryTypeOK, NEW payload \in Payloads, Publish(payload)
    PROVE  /\ ctl' \in [up : BOOLEAN, says : Payloads, seq : Seqs, acked : Seqs \union {NoSeq}]
           /\ air' \in Seq(Frames) /\ Len(air') <= MaxAir /\ faults' \in 0..MaxFaults
<1>1. ctl.seq \in Seqs
  BY DEF TelemetryTypeOK
<1>2. NextSeq(ctl.seq) \in Seqs
  BY <1>1, NextSeqType
<1>3. ctl' \in [up : BOOLEAN, says : Payloads, seq : Seqs, acked : Seqs \union {NoSeq}]
  BY <1>2 DEF Publish, TelemetryTypeOK
<1>4. [seq |-> NextSeq(ctl.seq), says |-> payload] \in Frames
  BY <1>2 DEF Frames, Telemetry
<1> QED
  BY <1>3, <1>4, SentType DEF Publish

\* The parts of the type invariant, so that a step can name those it touches.
LinkOK == air \in Seq(Frames) /\ Len(air) <= MaxAir
ControllerOK ==
    /\ ctl \in [up : BOOLEAN, says : Payloads, seq : Seqs, acked : Seqs \union {NoSeq}]
    /\ word \in Payloads \union {Nothing} /\ sent \subseteq {"beat", "again"}
ShownOK ==
    /\ dis \in [has : BOOLEAN, last : Seqs \union {NoSeq},
                shown : Payloads \union {Nothing}, local : Payloads]
    /\ dis.has => dis.last # NoSeq /\ dis.shown # Nothing
StampsOK == since \in 0..Debounce /\ silence \in Never..ResyncGap
TasksOK ==
    /\ wifi \in [says : Payloads, within : BOOLEAN] \union {Idle}
    /\ loop \in {At(place) : place \in {"rest", "mark", "send"}}
                \union [at : {"ack"}, ack : Seqs]
    /\ owed \in Seqs \union {NoSeq}
CountsOK == changes \in 0..MaxChanges /\ faults \in 0..MaxFaults

LEMMA TypeParts ==
    TelemetryTypeOK <=> LinkOK /\ ControllerOK /\ ShownOK /\ StampsOK /\ TasksOK /\ CountsOK
BY DEF TelemetryTypeOK, LinkOK, ControllerOK, ShownOK, StampsOK, TasksOK, CountsOK, Frames

LEMMA AtType == \A place \in {"rest", "mark", "send"} :
    At(place) \in {At(p) : p \in {"rest", "mark", "send"}} \union [at : {"ack"}, ack : Seqs]
OBVIOUS

-----------------------------------------------------------------------------
\* The controller, and the frames and words it exchanges.
LEMMA ControllerStep ==
    ASSUME TelemetryTypeOK,
           \/ Change \/ ApplyWord \/ LoseWord \/ Republish \/ Beat \/ Crash \/ Boot
    PROVE  LinkOK' /\ ControllerOK' /\ CountsOK' /\ UNCHANGED <<dis, stamps, tasks, owed>>
<1> USE DEF LinkOK, ControllerOK, CountsOK
<1>1. LinkOK /\ ControllerOK /\ CountsOK
  BY TypeParts
<1>2. CASE Change
  <2>1. changes' \in 0..MaxChanges
    <3>1. changes < MaxChanges /\ changes' = changes + 1 /\ changes \in 0..MaxChanges
      BY <1>1, <1>2 DEF Change
    <3> QED
      BY <3>1, ConstantTypes
  <2>2. PICK payload \in Payloads : Publish(payload)
    BY <1>2 DEF Change
  <2> QED
    BY <1>1, <1>2, <2>1, <2>2, PublishType DEF Change
<1>3. CASE ApplyWord
  <2>1. word \in Payloads /\ word' = Nothing /\ UNCHANGED <<sent, dis, stamps, tasks, owed, changes>>
    BY <1>1, <1>3 DEF ApplyWord
  <2>2. CASE word = ctl.says
    BY <1>1, <1>3, <2>1, <2>2 DEF ApplyWord
  <2>3. CASE word # ctl.says
    <3>1. Publish(word)
      BY <1>3, <2>3 DEF ApplyWord
    <3> QED
      BY <1>1, <2>1, <3>1, PublishType
  <2> QED
    BY <2>2, <2>3
<1>4. CASE LoseWord
  BY <1>1, <1>4, ConstantTypes DEF LoseWord, Fault
<1>5. CASE Republish
  <2>1. [seq |-> ctl.seq, says |-> ctl.says] \in Frames
    BY <1>1 DEF Frames, Telemetry
  <2>2. LinkOK' /\ faults' \in 0..MaxFaults
    BY <1>5, <2>1, SentType DEF Republish, Repeat
  <2> QED
    BY <1>1, <1>5, <2>2 DEF Republish, Repeat
<1>6. CASE Beat
  <2>1. Heartbeat \in Frames
    BY DEF Frames
  <2>2. LinkOK' /\ faults' \in 0..MaxFaults
    BY <1>6, <2>1, SentType DEF Beat, Repeat
  <2> QED
    BY <1>1, <1>6, <2>2 DEF Beat, Repeat
<1>7. CASE Crash
  <2>1. ctl' \in [up : BOOLEAN, says : Payloads, seq : Seqs, acked : Seqs \union {NoSeq}]
    BY <1>1, <1>7 DEF Crash
  <2>2. faults' \in 0..MaxFaults
    BY <1>1, <1>7, ConstantTypes DEF Crash, Fault
  <2> QED
    BY <1>1, <1>7, <2>1, <2>2 DEF Crash
<1>8. CASE Boot
  <2>1. NextSeq(0) \in Seqs
    BY NextSeqType
  <2>2. PICK payload \in Payloads :
          /\ ctl' = [up |-> TRUE, says |-> payload, seq |-> NextSeq(0), acked |-> NoSeq]
          /\ Sent([seq |-> NextSeq(0), says |-> payload])
    BY <1>8 DEF Boot
  <2>3. [seq |-> NextSeq(0), says |-> payload] \in Frames
    BY <2>1 DEF Frames, Telemetry
  <2>4. LinkOK' /\ faults' \in 0..MaxFaults
    BY <2>2, <2>3, SentType
  <2> QED
    BY <1>1, <1>8, <2>1, <2>2, <2>4 DEF Boot
<1> QED
  BY <1>2, <1>3, <1>4, <1>5, <1>6, <1>7, <1>8

\* The WiFi task: what is shown was heard, so it is never nothing.
LEMMA WifiStep ==
    ASSUME TelemetryTypeOK, WifiTask
    PROVE  TelemetryTypeOK'
<1> USE DEF LinkOK, ControllerOK, ShownOK, StampsOK, TasksOK, CountsOK
<1>1. LinkOK /\ ControllerOK /\ ShownOK /\ StampsOK /\ TasksOK /\ CountsOK
  BY TypeParts
<1> SUFFICES LinkOK' /\ ControllerOK' /\ ShownOK' /\ StampsOK' /\ TasksOK' /\ CountsOK'
  BY DEF TelemetryTypeOK, Frames
<1>2. CASE OnHeartbeat
  <2>1. LinkOK'
    BY <1>2, HeardType DEF OnHeartbeat
  <2>2. ShownOK'
    BY <1>1, <1>2 DEF OnHeartbeat, Resync
  <2>3. StampsOK'
    BY <1>1, <1>2, ConstantTypes DEF OnHeartbeat, Never
  <2> QED
    BY <1>1, <1>2, <2>1, <2>2, <2>3 DEF OnHeartbeat, controller, tasks
<1>3. CASE OnTelemetry
  <2>1. PICK f \in Telemetry :
          /\ Heard(f)
          /\ IF dis.has /\ ~IsNewer(dis.last, f.seq)
             THEN OnOldTelemetry(f) /\ UNCHANGED <<dis, wifi>>
             ELSE /\ dis' = [dis EXCEPT !.has = TRUE, !.last = f.seq, !.shown = f.says]
                  /\ wifi' = [says |-> f.says, within |-> since < Debounce]
                  /\ UNCHANGED owed
          /\ UNCHANGED <<controller, stamps, loop, changes, faults>>
    BY <1>3 DEF OnTelemetry
  <2>2. LinkOK'
    BY <2>1, HeardType
  <2>3. f.seq \in Seqs /\ f.says \in Payloads /\ f.seq # NoSeq /\ f.says # Nothing
    BY ConstantTypes, TelemetryAssumption DEF Telemetry
  <2>4. CASE dis.has /\ ~IsNewer(dis.last, f.seq)
    BY <1>1, <2>1, <2>2, <2>4 DEF OnOldTelemetry, controller, stamps
  <2>5. CASE ~(dis.has /\ ~IsNewer(dis.last, f.seq))
    <3>1. dis' = [dis EXCEPT !.has = TRUE, !.last = f.seq, !.shown = f.says]
          /\ wifi' = [says |-> f.says, within |-> since < Debounce] /\ UNCHANGED owed
      BY <2>1, <2>5
    <3>2. ShownOK'
      BY <1>1, <2>3, <3>1
    <3>3. wifi' \in [says : Payloads, within : BOOLEAN]
      BY <2>3, <3>1
    <3> QED
      BY <1>1, <2>1, <2>2, <3>1, <3>2, <3>3 DEF controller, stamps
  <2> QED
    BY <2>4, <2>5
<1>4. CASE AdoptSettings
  <2>1. wifi.says \in Payloads
    BY <1>1, <1>4 DEF AdoptSettings
  <2>2. ShownOK' /\ owed' \in Seqs \union {NoSeq}
    BY <1>1, <1>4, <2>1 DEF AdoptSettings
  <2> QED
    BY <1>1, <1>4, <2>2 DEF AdoptSettings, controller, stamps
<1> QED
  BY <1>2, <1>3, <1>4 DEF WifiTask

\* The loop task, and its user.
LEMMA LoopStep ==
    ASSUME TelemetryTypeOK, LoopTask \/ Choose
    PROVE  TelemetryTypeOK'
<1> USE DEF LinkOK, ControllerOK, ShownOK, StampsOK, TasksOK, CountsOK
<1>1. LinkOK /\ ControllerOK /\ ShownOK /\ StampsOK /\ TasksOK /\ CountsOK
  BY TypeParts
<1> SUFFICES LinkOK' /\ ControllerOK' /\ ShownOK' /\ StampsOK' /\ TasksOK' /\ CountsOK'
  BY DEF TelemetryTypeOK, Frames
<1>2. CASE MarkInteraction
  BY <1>1, <1>2, ConstantTypes, AtType DEF MarkInteraction, controller
<1>3. CASE SendWord
  BY <1>1, <1>3, AtType DEF SendWord, stamps
<1>4. CASE TakeAck
  <2>1. loop' \in [at : {"ack"}, ack : Seqs]
    BY <1>1, <1>4 DEF TakeAck
  <2> QED
    BY <1>1, <1>4, <2>1 DEF TakeAck, controller, stamps
<1>5. ASSUME loop.at = "ack" PROVE loop.ack \in Seqs
  BY <1>1, <1>5 DEF At
<1>6. CASE SendAck
  <2>1. PICK lost \in BOOLEAN :
          Fault(lost) /\ ctl' = IF lost THEN ctl ELSE Acknowledged(ctl, loop.ack)
    BY <1>6 DEF SendAck
  <2>2. ctl' \in [up : BOOLEAN, says : Payloads, seq : Seqs, acked : Seqs \union {NoSeq}]
    <3>1. loop.ack \in Seqs
      BY <1>5, <1>6 DEF SendAck
    <3>2. ctl' \in {ctl, [ctl EXCEPT !.acked = loop.ack]}
      BY <2>1 DEF Acknowledged
    <3> QED
      BY <1>1, <3>1, <3>2
  <2>3. faults' \in 0..MaxFaults
    BY <1>1, <2>1, ConstantTypes DEF Fault
  <2> QED
    BY <1>1, <1>6, <2>2, <2>3, AtType DEF SendAck, stamps
<1>7. CASE HoldAck
  <2>1. owed' \in Seqs \union {NoSeq}
    BY <1>1, <1>5, <1>7 DEF HoldAck
  <2> QED
    BY <1>1, <1>7, <2>1, AtType DEF HoldAck, controller, stamps
<1>8. CASE Choose
  <2>1. PICK payload \in Payloads : dis' = [dis EXCEPT !.local = payload]
    BY <1>8 DEF Choose
  <2>2. ShownOK'
    BY <1>1, <2>1
  <2>3. changes' \in 0..MaxChanges
    <3>1. changes < MaxChanges /\ changes' = changes + 1 /\ changes \in 0..MaxChanges
      BY <1>1, <1>8 DEF Choose
    <3> QED
      BY <3>1, ConstantTypes
  <2> QED
    BY <1>1, <1>8, <2>2, <2>3, AtType DEF Choose, controller, stamps
<1> QED
  BY <1>2, <1>3, <1>4, <1>6, <1>7, <1>8 DEF LoopTask

LEMMA TypeStep == TelemetryTypeOK /\ [Next]_vars => TelemetryTypeOK'
<1> SUFFICES ASSUME TelemetryTypeOK, [Next]_vars PROVE TelemetryTypeOK'
  OBVIOUS
<1> USE DEF LinkOK, ControllerOK, ShownOK, StampsOK, TasksOK, CountsOK
<1>1. LinkOK /\ ControllerOK /\ ShownOK /\ StampsOK /\ TasksOK /\ CountsOK
  BY TypeParts
<1>2. CASE Change \/ ApplyWord \/ LoseWord \/ Republish \/ Beat \/ Crash \/ Boot
  <2>1. LinkOK' /\ ControllerOK' /\ CountsOK' /\ UNCHANGED <<dis, stamps, tasks, owed>>
    BY <1>2, ControllerStep
  <2>2. ShownOK' /\ StampsOK' /\ TasksOK'
    BY <1>1, <2>1 DEF stamps, tasks
  <2> QED
    BY <2>1, <2>2 DEF TelemetryTypeOK, Frames
<1>3. CASE Restart
  <2>1. LinkOK'
    <3>1. air' = <<>> /\ <<>> \in Seq(Frames) /\ Len(<<>>) = 0
      BY <1>3 DEF Restart
    <3> QED
      BY <3>1 DEF MaxAir
  <2>2. ShownOK'
    BY <1>3, TelemetryAssumption DEF Restart, NewDisplay
  <2>3. StampsOK' /\ CountsOK'
    BY <1>1, <1>3, ConstantTypes DEF Restart, Fault, Never
  <2>4. TasksOK'
    BY <1>3, AtType DEF Restart
  <2>5. ControllerOK'
    BY <1>1, <1>3 DEF Restart, controller
  <2> QED
    BY <2>1, <2>2, <2>3, <2>4, <2>5 DEF TelemetryTypeOK, Frames
<1>4. CASE Tick
  <2>1. StampsOK'
    <3>1. since' = (IF since = Debounce THEN since ELSE since + 1)
          /\ silence' = IF silence \in {Never, ResyncGap} THEN silence ELSE silence + 1
      BY <1>4 DEF Tick
    <3> QED
      BY <1>1, <3>1, ConstantTypes DEF Never
  <2>2. LinkOK' /\ ControllerOK' /\ ShownOK' /\ TasksOK' /\ CountsOK'
    BY <1>1, <1>4 DEF Tick, tasks
  <2> QED
    BY <2>1, <2>2 DEF TelemetryTypeOK, Frames
<1>5. CASE UNCHANGED vars
  BY <1>5 DEF vars, TelemetryTypeOK
<1> QED
  BY <1>2, <1>3, <1>4, <1>5, WifiStep, LoopStep DEF Next

LEMMA TypeInit == Init => TelemetryTypeOK
<1> SUFFICES ASSUME Init PROVE TelemetryTypeOK
  OBVIOUS
<1>1. LinkOK
  BY DEF Init, LinkOK, MaxAir
<1>2. ControllerOK
  BY TelemetryAssumption DEF Init, ControllerOK, Seqs
<1>3. ShownOK
  BY TelemetryAssumption DEF Init, ShownOK, NewDisplay
<1>4. StampsOK /\ CountsOK
  BY ConstantTypes DEF Init, StampsOK, CountsOK, Never
<1>5. TasksOK
  BY AtType DEF Init, TasksOK
<1> QED
  BY <1>1, <1>2, <1>3, <1>4, <1>5, TypeParts

\* Frames, tasks and stamps stay typed, the numbers skip 0, and a display that has a
\* number shows what some telemetry said.
THEOREM TelemetryTypeCorrect == Spec => []TelemetryTypeOK
BY TypeInit, TypeStep, PTL DEF Spec
=============================================================================
