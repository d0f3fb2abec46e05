--------------------------- MODULE CommandPathProofs ---------------------------
(* What holds of the command path for every number of displays, every      *)
(* choice of the users, every size of the ring and of the numbers.         *)
EXTENDS CommandPath, FiniteSetTheorems, TLAPS

Fans == FanInputs \union {"automatic"}
Words == [id : 1 .. MaxWords, seq : 0 .. SeqSize - 1, session : 1 .. MaxSession,
          set : SUBSET Fields, sync : BOOLEAN, mode : Modes, fan : Fans, setpoint : Setpoints]
Frames == [word : Words, tracked : BOOLEAN]
Envelopes == [from : Displays, word : Words]

-----------------------------------------------------------------------------
(* The types, in the groups the actions change together. *)
DisplayTypes ==
  /\ local \in [Displays -> Settings]
  /\ seq_local \in [Displays -> 0 .. SeqSize - 1]
  /\ session \in [Displays -> 1 .. MaxSession] /\ boots \in [Displays -> Nat]
  /\ last_word \in [Displays -> Words \union {NoWord}]
  /\ pending \in [Displays -> Options] /\ unconfirmed \in [Displays -> Options]
  /\ \A d \in Displays : /\ pending[d].sync => pending[d].set = {}
                         /\ unconfirmed[d].sync => unconfirmed[d].set = {}
  /\ retries \in [Displays -> 0 .. MaxRetries]
  /\ tracked \in [Displays -> {"none", "pending", "failed", "delivered"}]
  /\ debounce \in [Displays -> BOOLEAN]
  /\ sent \in [Displays -> 0 .. MaxWords]

(* A word is tracked only while it is the last one handed to the radio. *)
LastTracked(frames) == \A i \in DOMAIN frames : frames[i].tracked => i = Len(frames)

WayTypes ==
  /\ air \in [Displays -> Seq(Frames)]
  /\ \A d \in Displays : LastTracked(air[d])
  /\ ring \in Seq(Envelopes) /\ Len(ring) <= RingSize
  /\ mqtt \in Seq(Envelopes)

ControllerTypes ==
  /\ espnow_command_enabled \in BOOLEAN
  /\ DOMAIN sources \subseteq Displays /\ IsFiniteSet(DOMAIN sources)
  /\ Cardinality(DOMAIN sources) <= MaxSources
  /\ \A d \in DOMAIN sources : sources[d] \in Trackers
  /\ settings \in Settings
  /\ shadow \in [have : BOOLEAN, mode : Modes, fan : Fans, setpoint : Setpoints \union {0}]
  /\ persisted \in [have : BOOLEAN, mode : Modes, fan : Fans,
                    heat : Setpoints \union {0}, cool : Setpoints \union {0}]
  /\ persisted.have => persisted.heat \in Setpoints /\ persisted.cool \in Setpoints
  /\ applied \in [Displays -> [id : 0 .. MaxWords, session : 0 .. MaxSession, turn : {0, 1}]]

HistoryTypes ==
  /\ DOMAIN want = Displays /\ \A d \in Displays : DOMAIN want[d] = Fields
  /\ restarts \in 0 .. MaxRestarts

PathTypes == DisplayTypes /\ WayTypes /\ ControllerTypes /\ HistoryTypes

LEMMA TypesSuffice == PathTypes => PathTypeOK
<1> SUFFICES ASSUME PathTypes PROVE PathTypeOK
  OBVIOUS
<1>1. ASSUME NEW d \in Displays
      PROVE  Cardinality({ i \in DOMAIN air[d] : air[d][i].tracked }) <= 1
  <2> DEFINE places == { i \in DOMAIN air[d] : air[d][i].tracked }
  <2>1. places \subseteq {Len(air[d])}
    BY DEF PathTypes, WayTypes, LastTracked
  <2>2. IsFiniteSet({Len(air[d])}) /\ Cardinality({Len(air[d])}) = 1
    BY FS_Singleton
  <2>3. Cardinality(places) <= 1
    <3> HIDE DEF places
    <3> QED
      BY <2>1, <2>2, FS_Subset
  <2> QED
    BY <2>3
<1>2. \A d \in Displays : \A o \in {pending[d], unconfirmed[d]} : o.sync => o.set = {}
  BY DEF PathTypes, DisplayTypes
<1> QED
  BY <1>1, <1>2 DEF PathTypes, DisplayTypes, WayTypes, ControllerTypes, PathTypeOK

-----------------------------------------------------------------------------
(* Settings, options and numbers. *)
LEMMA TargetIs ==
  ASSUME NEW s \in Settings
  PROVE  Target(s) \in Setpoints
BY DEF Target, Settings

LEMMA IntoBinIs ==
  ASSUME NEW s \in Settings, NEW mode, NEW sp \in Setpoints
  PROVE  /\ IntoBin(s, mode, sp) \in Settings
         /\ IntoBin(s, mode, sp).mode = s.mode /\ IntoBin(s, mode, sp).fan = s.fan
BY DEF IntoBin, Settings

LEMMA ObeyIs ==
  ASSUME NEW s \in Settings, NEW word, word.mode \in Modes, word.fan \in Fans,
         "setpoint" \in word.set => word.setpoint \in Setpoints
  PROVE  Obey(s, word) \in Settings
<1> DEFINE mode == IF "mode" \in word.set THEN word.mode ELSE s.mode
           fan == IF "fan" \in word.set THEN word.fan ELSE s.fan
           new == [s EXCEPT !.mode = mode, !.fan = fan]
<1>1. new \in Settings
  BY DEF Settings, Fans
<1>2. Obey(s, word) = IF word.sync THEN s
                      ELSE IF "setpoint" \in word.set THEN IntoBin(new, mode, word.setpoint)
                      ELSE new
  BY DEF Obey
<1> HIDE DEF new, mode
<1> QED
  BY <1>1, <1>2, IntoBinIs

LEMMA MergeIs ==
  ASSUME NEW a \in Options, NEW b \in Options
  PROVE  /\ Merge(a, b) \in Options /\ Merge(a, b).set = a.set \union b.set
         /\ Merge(a, b).sync => Merge(a, b).set = {}
         /\ Merge(a, b) = NoOpts /\ (b.sync => b.set = {}) => b = NoOpts
<1> DEFINE set == a.set \union b.set
           sync == (a.sync \/ b.sync) /\ set = {}
<1>1. set \in SUBSET Fields /\ sync \in BOOLEAN /\ (sync => set = {})
  BY DEF Options
<1>2. Merge(a, b) = [set |-> set, sync |-> sync]
  BY DEF Merge
<1>3. Merge(a, b) = NoOpts /\ (b.sync => b.set = {}) => b = NoOpts
  <2> SUFFICES ASSUME Merge(a, b) = NoOpts PROVE b = NoOpts
    OBVIOUS
  <2>1. [set |-> set, sync |-> sync] = [set |-> {}, sync |-> FALSE]
    BY <1>2 DEF NoOpts
  <2>2. set = {} /\ ~sync
    <3> HIDE DEF set, sync
    <3> QED
      BY <2>1, <1>1
  <2>3. b.set = {} /\ b.sync = FALSE
    BY <2>2 DEF Options
  <2> QED
    BY <2>3 DEF Options, NoOpts
<1> HIDE DEF set, sync
<1>4. Merge(a, b).set = set /\ (Merge(a, b).sync => Merge(a, b).set = {})
      /\ Merge(a, b) \in Options
  BY <1>1, <1>2 DEF Options
<1> QED
  BY <1>3, <1>4 DEF set

LEMMA NumbersAre ==
  /\ \A seq \in 0 .. SeqSize - 1 : NextSeq(seq) \in 0 .. SeqSize - 1
  /\ NextSeq(0) \in 0 .. SeqSize - 1
  /\ \A s \in Nat : NextSession(s) \in 1 .. MaxSession
BY RingAssumption DEF NextSeq, NextSession

LEMMA InitiallyIs ==
  ASSUME NEW sp \in Setpoints
  PROVE  Initially(sp) \in Settings
BY DEF Initially, Settings, Modes

-----------------------------------------------------------------------------
(* What a send does. *)
Untracked(frames) == [i \in DOMAIN frames |-> [frames[i] EXCEPT !.tracked = FALSE]]

WordOf(d, opts, settled, seq, sess) ==
  [id |-> sent[d] + 1, seq |-> seq, session |-> sess, set |-> opts.set, sync |-> opts.sync,
   mode |-> settled.mode, fan |-> settled.fan, setpoint |-> Target(settled)]

Throttled(d, opts, open) ==
  /\ pending' = [pending EXCEPT ![d] = opts] /\ unconfirmed' = [unconfirmed EXCEPT ![d] = open]
  /\ tracked' = [tracked EXCEPT ![d] = "none"] /\ air' = [air EXCEPT ![d] = Untracked(air[d])]

Accepted(d, opts, word) ==
  /\ pending' = [pending EXCEPT ![d] = NoOpts] /\ unconfirmed' = [unconfirmed EXCEPT ![d] = opts]
  /\ tracked' = [tracked EXCEPT ![d] = "pending"]
  /\ air' = [air EXCEPT ![d] = Append(Untracked(air[d]), [word |-> word, tracked |-> TRUE])]

Rejected(d, opts) ==
  /\ pending' = [pending EXCEPT ![d] = NoOpts] /\ unconfirmed' = [unconfirmed EXCEPT ![d] = opts]
  /\ tracked' = [tracked EXCEPT ![d] = "failed"] /\ air' = [air EXCEPT ![d] = Untracked(air[d])]

Numbered(d, word) ==
  /\ sent[d] < MaxWords /\ sent' = [sent EXCEPT ![d] = sent[d] + 1]
  /\ seq_local' = [seq_local EXCEPT ![d] = word.seq]
  /\ last_word' = [last_word EXCEPT ![d] = word]

Fates(d, opts, word, open) ==
  Throttled(d, opts, open) \/ Accepted(d, opts, word) \/ Rejected(d, opts)

LEMMA SendIs ==
  ASSUME NEW d, NEW opts, NEW settled, NEW seq, NEW sess, NEW open,
         Send(d, opts, settled, seq, sess, open)
  PROVE  /\ Numbered(d, WordOf(d, opts, settled, seq, sess))
         /\ Fates(d, opts, WordOf(d, opts, settled, seq, sess), open)
<1> DEFINE word == WordOf(d, opts, settled, seq, sess)
<1>1. word.seq = seq
  BY DEF WordOf
<1>2. Numbered(d, word)
  BY <1>1 DEF Send, Numbered, WordOf
<1>3. Fates(d, opts, word, open)
  BY DEF Send, Fates, Throttled, Accepted, Rejected, WordOf, Untracked
<1> QED
  BY <1>2, <1>3

LEMMA WordOfIs ==
  ASSUME DisplayTypes, NEW d \in Displays, NEW opts \in Options, NEW settled \in Settings,
         NEW seq \in 0 .. SeqSize - 1, NEW sess \in 1 .. MaxSession, sent[d] < MaxWords
  PROVE  WordOf(d, opts, settled, seq, sess) \in Words
<1>1. sent[d] + 1 \in 1 .. MaxWords
  BY PathAssumption DEF DisplayTypes
<1>2. opts.set \in SUBSET Fields /\ opts.sync \in BOOLEAN
  BY DEF Options
<1>3. settled.mode \in Modes /\ settled.fan \in Fans /\ Target(settled) \in Setpoints
  BY TargetIs DEF Settings, Fans
<1> QED
  BY <1>1, <1>2, <1>3 DEF WordOf, Words

LEMMA UntrackedIs ==
  ASSUME NEW frames \in Seq(Frames)
  PROVE  /\ Untracked(frames) \in Seq(Frames) /\ Len(Untracked(frames)) = Len(frames)
         /\ \A i \in 1 .. Len(frames) : /\ Untracked(frames)[i].word = frames[i].word
                                        /\ Untracked(frames)[i].tracked = FALSE
<1>1. ASSUME NEW i \in 1 .. Len(frames)
      PROVE  /\ [frames[i] EXCEPT !.tracked = FALSE] \in Frames
             /\ [frames[i] EXCEPT !.tracked = FALSE].word = frames[i].word
             /\ [frames[i] EXCEPT !.tracked = FALSE].tracked = FALSE
  <2> DEFINE frame == frames[i]
  <2>0. frame \in Frames
    OBVIOUS
  <2> HIDE DEF frame
  <2>1. frame \in [word : Words, tracked : BOOLEAN]
    BY <2>0 DEF Frames
  <2> DEFINE no == FALSE
  <2> HIDE DEF no
  <2>2. [frame EXCEPT !.tracked = no] = [word |-> frame.word, tracked |-> no]
    BY <2>1
  <2>3. frame.word \in Words /\ FALSE \in BOOLEAN
    BY <2>1
  <2> QED
    BY <2>2, <2>3 DEF Frames, frame, no
<1>2. Untracked(frames) = [i \in 1 .. Len(frames) |-> [frames[i] EXCEPT !.tracked = FALSE]]
  BY DEF Untracked
<1>3. Untracked(frames) \in Seq(Frames) /\ Len(Untracked(frames)) = Len(frames)
  BY <1>1, <1>2
<1> QED
  BY <1>1, <1>2, <1>3

(* What a send changes keeps its type. *)
SendTypes ==
  /\ seq_local \in [Displays -> 0 .. SeqSize - 1]
  /\ last_word \in [Displays -> Words \union {NoWord}]
  /\ pending \in [Displays -> Options] /\ unconfirmed \in [Displays -> Options]
  /\ \A d \in Displays : /\ pending[d].sync => pending[d].set = {}
                         /\ unconfirmed[d].sync => unconfirmed[d].set = {}
  /\ tracked \in [Displays -> {"none", "pending", "failed", "delivered"}]
  /\ sent \in [Displays -> 0 .. MaxWords]
  /\ air \in [Displays -> Seq(Frames)]
  /\ \A d \in Displays : LastTracked(air[d])

LEMMA NoOptsIs == NoOpts \in Options /\ NoOpts.sync = FALSE /\ NoOpts.set = {}
BY DEF NoOpts, Options

LEMMA SendKeepsTypes ==
  ASSUME PathTypes, NEW d \in Displays, NEW opts \in Options, opts.sync => opts.set = {},
         NEW settled \in Settings, NEW seq \in 0 .. SeqSize - 1, NEW sess \in 1 .. MaxSession,
         NEW open \in Options, open.sync => open.set = {},
         Send(d, opts, settled, seq, sess, open)
  PROVE  SendTypes'
<1> DEFINE word == WordOf(d, opts, settled, seq, sess)
<1>1. Numbered(d, word) /\ Fates(d, opts, word, open)
  BY SendIs, Zenon
<1>2. word \in Words /\ word.seq = seq
  <2>1. word \in Words
    <3>1. sent[d] \in 0 .. MaxWords /\ sent[d] < MaxWords /\ MaxWords \in Nat
      BY <1>1, PathAssumption DEF Numbered, PathTypes, DisplayTypes
    <3> QED
      BY <3>1, WordOfIs DEF PathTypes
  <2> QED
    BY <2>1 DEF WordOf
<1> HIDE DEF word
<1>3. /\ seq_local' \in [Displays -> 0 .. SeqSize - 1]
      /\ last_word' \in [Displays -> Words \union {NoWord}]
      /\ sent' \in [Displays -> 0 .. MaxWords]
  <2>1. /\ seq_local \in [Displays -> 0 .. SeqSize - 1]
        /\ last_word \in [Displays -> Words \union {NoWord}]
        /\ sent \in [Displays -> 0 .. MaxWords]
    BY DEF PathTypes, DisplayTypes
  <2>2. seq_local' \in [Displays -> 0 .. SeqSize - 1]
    BY <1>1, <1>2, <2>1 DEF Numbered
  <2>3. last_word' \in [Displays -> Words \union {NoWord}]
    BY <1>1, <1>2, <2>1 DEF Numbered
  <2>4. sent' \in [Displays -> 0 .. MaxWords]
    <3>1. sent[d] \in 0 .. MaxWords /\ sent[d] < MaxWords /\ MaxWords \in Nat
      BY <1>1, <2>1, PathAssumption DEF Numbered
    <3>2. sent[d] + 1 \in 0 .. MaxWords
      BY <3>1
    <3> QED
      BY <1>1, <2>1, <3>2 DEF Numbered
  <2> QED
    BY <2>2, <2>3, <2>4
<1> USE DEF PathTypes, DisplayTypes, WayTypes
<1>4. \A e \in Displays : e # d => LastTracked(air'[e]) /\ air'[e] = air[e]
  BY <1>1 DEF Fates, Throttled, Accepted, Rejected
<1>5. air' \in [Displays -> Seq(Frames)] /\ LastTracked(air'[d])
  <2> DEFINE frames == Untracked(air[d])
             frame == [word |-> word, tracked |-> TRUE]
  <2>1. /\ frames \in Seq(Frames) /\ LastTracked(frames)
        /\ \A i \in 1 .. Len(frames) : ~frames[i].tracked
    <3>1. air[d] \in Seq(Frames)
      OBVIOUS
    <3>2. frames \in Seq(Frames) /\ \A i \in 1 .. Len(frames) : frames[i].tracked = FALSE
      BY <3>1, UntrackedIs
    <3> HIDE DEF frames
    <3> QED
      BY <3>2 DEF LastTracked
  <2>2. frame \in Frames
    BY <1>2 DEF Frames
  <2> HIDE DEF frames, frame
  <2>3. Append(frames, frame) \in Seq(Frames) /\ LastTracked(Append(frames, frame))
    BY <2>1, <2>2 DEF LastTracked
  <2>4. air' = [air EXCEPT ![d] = frames] \/ air' = [air EXCEPT ![d] = Append(frames, frame)]
    BY <1>1 DEF Fates, Throttled, Accepted, Rejected, frames, frame
  <2> QED
    BY <2>1, <2>3, <2>4
<1>6. pending' = [pending EXCEPT ![d] = opts] \/ pending' = [pending EXCEPT ![d] = NoOpts]
  BY <1>1 DEF Fates, Throttled, Accepted, Rejected
<1>7. unconfirmed' = [unconfirmed EXCEPT ![d] = opts] \/ unconfirmed' = [unconfirmed EXCEPT ![d] = open]
  BY <1>1 DEF Fates, Throttled, Accepted, Rejected
<1>8. tracked' \in [Displays -> {"none", "pending", "failed", "delivered"}]
  BY <1>1 DEF Fates, Throttled, Accepted, Rejected
<1>9. /\ pending' \in [Displays -> Options]
      /\ \A e \in Displays : pending'[e] \in {pending[e], opts, NoOpts}
  BY <1>6, NoOptsIs
<1>10. /\ unconfirmed' \in [Displays -> Options]
       /\ \A e \in Displays : unconfirmed'[e] \in {unconfirmed[e], opts, open}
  BY <1>7
<1>11. \A e \in Displays : /\ pending'[e].sync => pending'[e].set = {}
                           /\ unconfirmed'[e].sync => unconfirmed'[e].set = {}
  BY <1>9, <1>10, NoOptsIs
<1> QED
  BY <1>3, <1>4, <1>5, <1>8, <1>9, <1>10, <1>11 DEF SendTypes

-----------------------------------------------------------------------------
(* Type correctness, action by action. *)
LEMMA ForgetIs ==
  ASSUME NEW wishes, NEW set
  PROVE  DOMAIN Forget(wishes, set) = Fields
BY DEF Forget

LEMMA ControllerSame ==
  ASSUME ControllerTypes, UNCHANGED controllerVars
  PROVE  ControllerTypes'
BY DEF ControllerTypes, controllerVars

LEMMA DisplaySame ==
  ASSUME DisplayTypes, UNCHANGED <<displayVars, boots>>
  PROVE  DisplayTypes'
BY DEF DisplayTypes, displayVars

LEMMA WaySame ==
  ASSUME WayTypes, UNCHANGED <<air, ring, mqtt>>
  PROVE  WayTypes'
BY DEF WayTypes

LEMMA WishesForgotten ==
  ASSUME HistoryTypes, NEW d \in Displays, NEW wishes, NEW set, NEW word,
         \/ UNCHANGED want
         \/ want' = [want EXCEPT ![d] = Forget(wishes, set)]
         \/ want' = [want EXCEPT ![d] = Grant(wishes, word)]
         \/ want' = [want EXCEPT ![d] = NothingWanted],
         restarts' \in 0 .. MaxRestarts
  PROVE  HistoryTypes'
<1>1. DOMAIN Grant(wishes, word) = Fields /\ DOMAIN Forget(wishes, set) = Fields
  BY ForgetIs DEF Grant
<1>2. DOMAIN NothingWanted = Fields
  BY DEF NothingWanted
<1> QED
  BY <1>1, <1>2 DEF HistoryTypes

(* A send, with the few display variables it leaves to its caller. *)
LEMMA SendTypesSuffice ==
  ASSUME PathTypes, SendTypes',
         local' \in [Displays -> Settings], session' \in [Displays -> 1 .. MaxSession],
         boots' \in [Displays -> Nat], retries' \in [Displays -> 0 .. MaxRetries],
         debounce' \in [Displays -> BOOLEAN], ring' = ring, mqtt' = mqtt
  PROVE  DisplayTypes' /\ WayTypes'
BY DEF PathTypes, DisplayTypes, WayTypes, SendTypes

LEMMA TransmitKeepsTypes ==
  ASSUME PathTypes, NEW d \in Displays, NEW requested \in Options, NEW settled \in Settings,
         NEW owed \in Options, NEW open \in Options, open.sync => open.set = {},
         Transmit(d, requested, settled, owed, open)
  PROVE  SendTypes'
<1> DEFINE opts == Merge(Merge(requested, owed), open)
           seq == NextSeq(seq_local[d])
           sess == session[d]
<1>1. opts \in Options /\ (opts.sync => opts.set = {})
  BY MergeIs
<1>2. Send(d, opts, settled, seq, sess, open)
  BY DEF Transmit
<1>3. seq \in 0 .. SeqSize - 1 /\ sess \in 1 .. MaxSession
  BY NumbersAre DEF PathTypes, DisplayTypes
<1> HIDE DEF opts, seq, sess
<1> QED
  BY <1>1, <1>2, <1>3, SendKeepsTypes

LEMMA ChosenIs ==
  ASSUME DisplayTypes, NEW d \in Displays, NEW f \in FieldInputs, NEW value \in Choices(f)
  PROVE  Chosen(d, f, value) \in Settings
<1>1. f \in Fields /\ ModeInputs \subseteq Modes
  BY PathAssumption
<1>2. local[d] \in Settings
  BY DEF DisplayTypes
<1>3. CASE f = "mode"
  BY <1>1, <1>2, <1>3 DEF Chosen, Choices, Settings
<1>4. CASE f = "fan"
  BY <1>2, <1>4 DEF Chosen, Choices, Settings
<1>5. CASE f = "setpoint"
  BY <1>2, <1>5 DEF Chosen, Choices, Settings
<1>6. CASE f = "filter"
  BY <1>2, <1>6 DEF Chosen
<1> QED
  BY <1>1, <1>3, <1>4, <1>5, <1>6 DEF Fields

LEMMA SetLocalTypes ==
  ASSUME PathTypes, NEW d \in Displays, NEW f \in FieldInputs, NEW value \in Choices(f),
         SetLocal(d, f, value)
  PROVE  PathTypes'
<1> DEFINE request == [set |-> {f}, sync |-> FALSE]
<1>0. f \in Fields /\ MaxRetries \in Nat
  BY PathAssumption
<1>1. /\ local' = [local EXCEPT ![d] = Chosen(d, f, value)] /\ local \in [Displays -> Settings]
      /\ Transmit(d, request, local'[d], pending[d], unconfirmed[d])
  BY DEF SetLocal, PathTypes, DisplayTypes
<1>2. Chosen(d, f, value) \in Settings
  BY ChosenIs DEF PathTypes
<1>3. local' \in [Displays -> Settings] /\ local'[d] \in Settings
  BY <1>1, <1>2
<1>4. request \in Options
  BY <1>0 DEF Options
<1>5. /\ pending[d] \in Options /\ unconfirmed[d] \in Options
      /\ unconfirmed[d].sync => unconfirmed[d].set = {}
  BY DEF PathTypes, DisplayTypes
<1> HIDE DEF request
<1>6. SendTypes'
  BY <1>1, <1>3, <1>4, <1>5, TransmitKeepsTypes
<1>7. /\ session' \in [Displays -> 1 .. MaxSession] /\ boots' \in [Displays -> Nat]
      /\ retries' \in [Displays -> 0 .. MaxRetries] /\ debounce' \in [Displays -> BOOLEAN]
      /\ ring' = ring /\ mqtt' = mqtt
  BY <1>0 DEF SetLocal, PathTypes, DisplayTypes
<1>8. DisplayTypes' /\ WayTypes'
  BY <1>3, <1>6, <1>7, SendTypesSuffice
<1>9. ControllerTypes'
  BY ControllerSame DEF SetLocal, PathTypes
<1>10. HistoryTypes'
  <2>1. HistoryTypes /\ want' = [want EXCEPT ![d][f] = value] /\ restarts' = restarts
    BY DEF SetLocal, PathTypes
  <2> QED
    BY <2>1 DEF HistoryTypes
<1> QED
  BY <1>8, <1>9, <1>10 DEF PathTypes

LEMMA RequestSyncTypes ==
  ASSUME PathTypes, NEW d \in Displays, RequestSync(d)
  PROVE  PathTypes'
<1>1. SyncOpts \in Options
  BY DEF SyncOpts, Options
<1>2. Transmit(d, SyncOpts, local[d], pending[d], unconfirmed[d])
  BY DEF RequestSync
<1>3. /\ pending[d] \in Options /\ unconfirmed[d] \in Options /\ local[d] \in Settings
      /\ unconfirmed[d].sync => unconfirmed[d].set = {}
  BY DEF PathTypes, DisplayTypes
<1>4. SendTypes'
  BY <1>1, <1>2, <1>3, TransmitKeepsTypes
<1>5. /\ session' \in [Displays -> 1 .. MaxSession] /\ boots' \in [Displays -> Nat]
      /\ retries' \in [Displays -> 0 .. MaxRetries] /\ debounce' \in [Displays -> BOOLEAN]
      /\ ring' = ring /\ mqtt' = mqtt /\ local' \in [Displays -> Settings]
  BY PathAssumption DEF RequestSync, PathTypes, DisplayTypes
<1>6. DisplayTypes' /\ WayTypes'
  BY <1>4, <1>5, SendTypesSuffice
<1>7. ControllerTypes'
  BY ControllerSame DEF RequestSync, PathTypes
<1>8. HistoryTypes'
  BY DEF RequestSync, PathTypes, HistoryTypes
<1> QED
  BY <1>6, <1>7, <1>8 DEF PathTypes

LEMMA SendPendingTypes ==
  ASSUME PathTypes, NEW d \in Displays, SendPending(d)
  PROVE  PathTypes'
<1> DEFINE retry == MayRetry(d)
           open == IF retry \/ tracked[d] = "pending" THEN unconfirmed[d] ELSE NoOpts
           owed == IF retry THEN Merge(pending[d], unconfirmed[d]) ELSE pending[d]
<1>1. /\ pending[d] \in Options /\ unconfirmed[d] \in Options /\ local[d] \in Settings
      /\ pending[d].sync => pending[d].set = {}
      /\ unconfirmed[d].sync => unconfirmed[d].set = {}
  BY DEF PathTypes, DisplayTypes
<1>2. /\ open \in Options /\ owed \in Options
      /\ (open.sync => open.set = {}) /\ (owed.sync => owed.set = {})
  BY <1>1, MergeIs, NoOptsIs
<1>3. \/ Transmit(d, owed, local[d], owed, open)
      \/ /\ tracked' = [tracked EXCEPT ![d] = IF @ = "pending" THEN @ ELSE "none"]
         /\ pending' = [pending EXCEPT ![d] = owed]
         /\ unconfirmed' = [unconfirmed EXCEPT ![d] = open]
         /\ UNCHANGED <<seq_local, last_word, air, sent>>
  BY DEF SendPending
<1>4. SendTypes'
  <2> HIDE DEF open, owed, retry
  <2>1. CASE Transmit(d, owed, local[d], owed, open)
    BY <1>1, <1>2, <2>1, TransmitKeepsTypes
  <2>2. CASE /\ tracked' = [tracked EXCEPT ![d] = IF @ = "pending" THEN @ ELSE "none"]
             /\ pending' = [pending EXCEPT ![d] = owed]
             /\ unconfirmed' = [unconfirmed EXCEPT ![d] = open]
             /\ UNCHANGED <<seq_local, last_word, air, sent>>
    BY <1>2, <2>2 DEF PathTypes, DisplayTypes, WayTypes, SendTypes
  <2> QED
    BY <1>3, <2>1, <2>2
<1>5. retries' \in [Displays -> 0 .. MaxRetries]
  <2>1. retries' = [retries EXCEPT ![d] = IF retry THEN @ + 1 ELSE @]
    BY DEF SendPending
  <2>2. retry => retries[d] < MaxRetries
    BY DEF MayRetry
  <2> HIDE DEF retry
  <2> QED
    BY <2>1, <2>2, PathAssumption DEF PathTypes, DisplayTypes
<1>6. /\ session' \in [Displays -> 1 .. MaxSession] /\ boots' \in [Displays -> Nat]
      /\ debounce' \in [Displays -> BOOLEAN]
      /\ ring' = ring /\ mqtt' = mqtt /\ local' \in [Displays -> Settings]
  BY DEF SendPending, PathTypes, DisplayTypes
<1>7. DisplayTypes' /\ WayTypes'
  BY <1>4, <1>5, <1>6, SendTypesSuffice
<1>8. ControllerTypes'
  BY ControllerSame DEF SendPending, PathTypes
<1>9. HistoryTypes'
  <2>1. /\ HistoryTypes /\ restarts' \in 0 .. MaxRestarts
        /\ \/ UNCHANGED want
           \/ want' = [want EXCEPT ![d] = Forget(want[d], unconfirmed[d].set)]
    BY DEF SendPending, PathTypes, HistoryTypes
  <2> QED
    BY <2>1, WishesForgotten
<1> QED
  BY <1>7, <1>8, <1>9 DEF PathTypes

(* What a send callback does to the ring. *)
LEMMA CopiesAre ==
  ASSUME NEW S, NEW item \in S, NEW n \in Nat
  PROVE  /\ [i \in 1 .. n |-> item] \in Seq(S) /\ Len([i \in 1 .. n |-> item]) = n
         /\ \A i \in 1 .. n : [k \in 1 .. n |-> item][i] = item
<1> DEFINE s == [i \in 1 .. n |-> item]
<1>1. s \in [1 .. n -> S]
  OBVIOUS
<1>2. s \in Seq(S)
  BY <1>1
<1> QED
  BY <1>1, <1>2

LEMMA CopiesArrive ==
  ASSUME WayTypes, NEW d \in Displays, NEW copies \in 0 .. 2, air[d] # <<>>,
         NEW fits, fits = IF Len(ring) + copies > RingSize THEN RingSize - Len(ring) ELSE copies,
         ring' = ring \o [i \in 1 .. fits |-> [from |-> d, word |-> Head(air[d]).word]],
         air' = [air EXCEPT ![d] = Tail(@)], mqtt' = mqtt
  PROVE  WayTypes'
<1> DEFINE word == Head(air[d]).word
           item == [from |-> d, word |-> word]
           new == [i \in 1 .. fits |-> item]
<1>1. air[d] \in Seq(Frames) /\ ring \in Seq(Envelopes) /\ Len(ring) \in Nat
      /\ Len(ring) <= RingSize /\ RingSize \in Nat
  BY PathAssumption DEF WayTypes
<1>2. Head(air[d]) \in Frames
  BY <1>1
<1>3. word \in Words
  BY <1>2 DEF Frames
<1>4. item \in Envelopes
  BY <1>3 DEF Envelopes
<1> HIDE DEF item
<1>5. fits \in Nat /\ Len(ring) + fits <= RingSize
  BY <1>1
<1>6. new \in Seq(Envelopes) /\ Len(new) = fits
  BY <1>4, <1>5, CopiesAre
<1> HIDE DEF new
<1>7. ring' = ring \o new
  BY DEF new, item
<1>8. ring' \in Seq(Envelopes) /\ Len(ring') <= RingSize
  <2>1. ring \o new \in Seq(Envelopes) /\ Len(ring \o new) = Len(ring) + Len(new)
    BY <1>1, <1>6
  <2> QED
    BY <1>5, <1>6, <1>7, <2>1
<1>9. /\ Tail(air[d]) \in Seq(Frames) /\ Len(Tail(air[d])) = Len(air[d]) - 1
      /\ \A i \in 1 .. Len(Tail(air[d])) : Tail(air[d])[i] = air[d][i + 1]
  <2> DEFINE old == air[d]
  <2>1. old \in Seq(Frames) /\ old # <<>>
    BY <1>1
  <2> HIDE DEF old
  <2>2. /\ Tail(old) \in Seq(Frames) /\ Len(Tail(old)) = Len(old) - 1
        /\ \A i \in 1 .. Len(Tail(old)) : Tail(old)[i] = old[i + 1]
    BY <2>1
  <2> QED
    BY <2>2 DEF old
<1>10. LastTracked(Tail(air[d]))
  <2> DEFINE old == air[d]
             rest == Tail(old)
  <2>1. old \in Seq(Frames) /\ LastTracked(old)
    BY DEF WayTypes
  <2>2. /\ rest \in Seq(Frames) /\ Len(rest) = Len(old) - 1
        /\ \A i \in 1 .. Len(rest) : rest[i] = old[i + 1]
    BY <1>9
  <2> HIDE DEF old, rest
  <2>3. ASSUME NEW i \in 1 .. Len(rest), rest[i].tracked
        PROVE  i = Len(rest)
    <3>1. i + 1 \in 1 .. Len(old) /\ old[i + 1].tracked
      BY <2>1, <2>2, <2>3
    <3>2. i + 1 = Len(old) /\ i \in Nat /\ Len(old) \in Nat
      BY <2>1, <3>1 DEF LastTracked
    <3> QED
      BY <2>2, <3>2
  <2>4. LastTracked(rest)
    <3>1. DOMAIN rest = 1 .. Len(rest)
      BY <2>2
    <3> QED
      BY <2>3, <3>1 DEF LastTracked
  <2> QED
    BY <2>4 DEF rest, old
<1>11. air' \in [Displays -> Seq(Frames)] /\ \A e \in Displays : LastTracked(air'[e])
  BY <1>9, <1>10 DEF WayTypes
<1> QED
  BY <1>8, <1>11 DEF WayTypes

LEMMA SendCallbackTypes ==
  ASSUME PathTypes, NEW d \in Displays, NEW copies \in 0 .. 2, NEW ack \in BOOLEAN,
         NEW called \in BOOLEAN, SendCallback(d, copies, ack, called)
  PROVE  PathTypes'
<1> DEFINE fits == IF Len(ring) + copies > RingSize THEN RingSize - Len(ring) ELSE copies
           frame == Head(air[d])
<1>1. /\ air[d] # <<>> /\ air' = [air EXCEPT ![d] = Tail(@)] /\ mqtt' = mqtt
      /\ ring' = ring \o [i \in 1 .. fits |-> [from |-> d, word |-> Head(air[d]).word]]
  BY DEF SendCallback
<1>2. WayTypes'
  <2> HIDE DEF fits
  <2> QED
    BY <1>1, CopiesArrive DEF PathTypes, fits
<1>3. tracked' \in [Displays -> {"none", "pending", "failed", "delivered"}]
  <2>1. tracked' = [tracked EXCEPT ![d] = IF ~frame.tracked \/ ~called THEN @
                                          ELSE IF ack THEN "delivered" ELSE "failed"]
    BY DEF SendCallback
  <2> HIDE DEF frame
  <2>2. tracked' = [tracked EXCEPT ![d] = tracked[d]] \/ tracked' = [tracked EXCEPT ![d] = "delivered"]
        \/ tracked' = [tracked EXCEPT ![d] = "failed"]
    BY <2>1
  <2> QED
    BY <2>2 DEF PathTypes, DisplayTypes
<1>4. DisplayTypes'
  BY <1>3 DEF SendCallback, PathTypes, DisplayTypes
<1>5. ControllerTypes'
  BY ControllerSame DEF SendCallback, PathTypes
<1>6. HistoryTypes'
  <2>1. /\ HistoryTypes /\ restarts' \in 0 .. MaxRestarts
        /\ \/ UNCHANGED want
           \/ want' = [want EXCEPT ![d] = Forget(want[d], frame.word.set)]
    BY DEF SendCallback, PathTypes, HistoryTypes
  <2> QED
    BY <2>1, WishesForgotten
<1> QED
  BY <1>2, <1>4, <1>5, <1>6 DEF PathTypes

LEMMA ResyncTrackerTypes ==
  ASSUME PathTypes, NEW d \in Displays, ResyncTracker(d)
  PROVE  PathTypes'
<1>1. DisplayTypes'
  BY DEF ResyncTracker, PathTypes, DisplayTypes
<1>2. WayTypes' /\ ControllerTypes' /\ HistoryTypes'
  BY WaySame, ControllerSame DEF ResyncTracker, PathTypes, HistoryTypes
<1> QED
  BY <1>1, <1>2 DEF PathTypes

LEMMA PublishTypes ==
  ASSUME PathTypes, NEW d \in Displays, PublishPackedCommand(d)
  PROVE  PathTypes'
<1>1. last_word[d] \in Words
  BY DEF PublishPackedCommand, PathTypes, DisplayTypes
<1>2. [from |-> d, word |-> last_word[d]] \in Envelopes
  BY <1>1 DEF Envelopes
<1>3. mqtt' = Append(mqtt, [from |-> d, word |-> last_word[d]])
  BY DEF PublishPackedCommand
<1>4. mqtt' \in Seq(Envelopes)
  BY <1>2, <1>3 DEF PathTypes, WayTypes
<1>5. WayTypes'
  BY <1>4 DEF PublishPackedCommand, PathTypes, WayTypes
<1>6. DisplayTypes' /\ ControllerTypes' /\ HistoryTypes'
  BY DisplaySame, ControllerSame DEF PublishPackedCommand, PathTypes, HistoryTypes, displayVars
<1> QED
  BY <1>5, <1>6 DEF PathTypes

LEMMA HearControllerTypes ==
  ASSUME PathTypes, NEW d \in Displays, HearController(d)
  PROVE  PathTypes'
<1> DEFINE told == [local[d] EXCEPT !.mode = settings.mode, !.fan = settings.fan]
<1>1. told \in Settings /\ Target(settings) \in Setpoints
  BY TargetIs DEF PathTypes, DisplayTypes, ControllerTypes, Settings
<1>2. local' = [local EXCEPT ![d] = IntoBin(told, settings.mode, Target(settings))]
  BY DEF HearController
<1> HIDE DEF told
<1>3. IntoBin(told, settings.mode, Target(settings)) \in Settings
  BY <1>1, IntoBinIs
<1>4. DisplayTypes'
  BY <1>2, <1>3 DEF HearController, PathTypes, DisplayTypes
<1>5. WayTypes' /\ ControllerTypes' /\ HistoryTypes'
  BY WaySame, ControllerSame DEF HearController, PathTypes, HistoryTypes
<1> QED
  BY <1>4, <1>5 DEF PathTypes

LEMMA DebounceOverTypes ==
  ASSUME PathTypes, NEW d \in Displays, DebounceOver(d)
  PROVE  PathTypes'
<1>1. DisplayTypes'
  BY DEF DebounceOver, PathTypes, DisplayTypes
<1>2. WayTypes' /\ ControllerTypes' /\ HistoryTypes'
  BY WaySame, ControllerSame DEF DebounceOver, PathTypes, HistoryTypes
<1> QED
  BY <1>1, <1>2 DEF PathTypes

LEMMA StartOverTypes ==
  ASSUME PathTypes, NEW d \in Displays, NEW settled \in Settings, NEW sess \in 1 .. MaxSession,
         StartOver(d, settled, sess), boots' \in [Displays -> Nat]
  PROVE  PathTypes'
<1>1. SyncOpts \in Options /\ (SyncOpts.sync => SyncOpts.set = {})
  BY DEF SyncOpts, Options
<1>2. Send(d, SyncOpts, settled, NextSeq(0), sess, NoOpts) /\ NextSeq(0) \in 0 .. SeqSize - 1
  BY NumbersAre DEF StartOver
<1>3. SendTypes'
  BY <1>1, <1>2, NoOptsIs, SendKeepsTypes
<1>4. /\ session' \in [Displays -> 1 .. MaxSession] /\ retries' \in [Displays -> 0 .. MaxRetries]
      /\ debounce' \in [Displays -> BOOLEAN] /\ local' \in [Displays -> Settings]
      /\ ring' = ring /\ mqtt' = mqtt
  BY PathAssumption DEF StartOver, PathTypes, DisplayTypes
<1>5. DisplayTypes' /\ WayTypes'
  BY <1>3, <1>4, SendTypesSuffice
<1>6. ControllerTypes'
  BY ControllerSame DEF StartOver, PathTypes
<1>7. HistoryTypes'
  <2>1. /\ HistoryTypes /\ want' = [want EXCEPT ![d] = NothingWanted]
        /\ restarts < MaxRestarts /\ restarts' = restarts + 1
    BY DEF StartOver, PathTypes
  <2>2. restarts' \in 0 .. MaxRestarts
    BY <2>1, PathAssumption DEF HistoryTypes
  <2> QED
    BY <2>1, <2>2, WishesForgotten
<1> QED
  BY <1>5, <1>6, <1>7 DEF PathTypes

LEMMA ResetLocalSequenceTypes ==
  ASSUME PathTypes, NEW d \in Displays, ResetLocalSequence(d)
  PROVE  PathTypes'
<1>1. local[d] \in Settings /\ session[d] \in Nat /\ boots' \in [Displays -> Nat]
  BY DEF ResetLocalSequence, PathTypes, DisplayTypes
<1>2. NextSession(session[d]) \in 1 .. MaxSession
  BY <1>1, NumbersAre
<1> QED
  BY <1>1, <1>2, StartOverTypes DEF ResetLocalSequence

LEMMA RestartDisplayTypes ==
  ASSUME PathTypes, NEW d \in Displays, RestartDisplay(d)
  PROVE  PathTypes'
<1>1. PICK sp \in Setpoints :
        StartOver(d, Initially(sp), NextSession(boots'[d] % MaxSession))
  BY DEF RestartDisplay
<1>2. boots' \in [Displays -> Nat]
  BY DEF RestartDisplay, PathTypes, DisplayTypes
<1>3. boots'[d] % MaxSession \in Nat
  BY <1>2, RingAssumption
<1>4. NextSession(boots'[d] % MaxSession) \in 1 .. MaxSession
  BY <1>3, NumbersAre
<1> QED
  BY <1>1, <1>2, <1>4, InitiallyIs, StartOverTypes

LEMMA RememberIs ==
  ASSUME NEW new \in Settings, Remember(new)
  PROVE  /\ shadow' \in [have : BOOLEAN, mode : Modes, fan : Fans, setpoint : Setpoints \union {0}]
         /\ persisted' \in [have : BOOLEAN, mode : Modes, fan : Fans,
                            heat : Setpoints \union {0}, cool : Setpoints \union {0}]
         /\ persisted'.have => persisted'.heat \in Setpoints /\ persisted'.cool \in Setpoints
<1> DEFINE yes == TRUE
<1>1. yes \in BOOLEAN /\ Target(new) \in Setpoints
  BY TargetIs
<1>2. /\ shadow' = [have |-> yes, mode |-> new.mode, fan |-> new.fan, setpoint |-> Target(new)]
      /\ persisted' = [have |-> yes, mode |-> new.mode, fan |-> new.fan,
                       heat |-> new.heat, cool |-> new.cool]
  BY DEF Remember
<1> HIDE DEF yes
<1>3. new.mode \in Modes /\ new.fan \in Fans /\ new.heat \in Setpoints /\ new.cool \in Setpoints
  BY DEF Settings, Fans
<1> QED
  BY <1>1, <1>2, <1>3

LEMMA TrackedSources ==
  ASSUME ControllerTypes, NEW d \in Displays, NEW word \in Words, IsAccepted(d, word),
         sources' = [e \in DOMAIN sources \union {d} |->
                       IF e = d THEN [seq |-> word.seq, session |-> word.session] ELSE sources[e]]
  PROVE  /\ DOMAIN sources' \subseteq Displays /\ IsFiniteSet(DOMAIN sources')
         /\ Cardinality(DOMAIN sources') <= MaxSources
         /\ \A e \in DOMAIN sources' : sources'[e] \in Trackers
<1> DEFINE old == DOMAIN sources
<1>1. IsFiniteSet(old) /\ old \subseteq Displays /\ Cardinality(old) <= MaxSources
      /\ DOMAIN sources' = old \union {d}
  BY DEF ControllerTypes
<1>2. [seq |-> word.seq, session |-> word.session] \in Trackers
  BY DEF Words, Trackers
<1>3. \A e \in DOMAIN sources' : sources'[e] \in Trackers
  BY <1>1, <1>2 DEF ControllerTypes
<1>4. d \in old \/ Cardinality(old) < MaxSources
  BY DEF IsAccepted
<1> HIDE DEF old
<1>5. IsFiniteSet(old \union {d}) /\ Cardinality(old \union {d}) <= MaxSources
  <2>1. CASE d \in old
    <3>1. old \union {d} = old
      BY <2>1
    <3> QED
      BY <3>1, <1>1
  <2>2. CASE d \notin old
    <3>1. /\ Cardinality(old \union {d}) = Cardinality(old) + 1 /\ Cardinality(old) \in Nat
          /\ IsFiniteSet(old \union {d})
      BY <1>1, <2>2, FS_AddElement, FS_CardinalityType
    <3> QED
      BY <3>1, <2>2, <1>4, PathAssumption
  <2> QED
    BY <2>1, <2>2
<1> QED
  BY <1>1, <1>3, <1>5

LEMMA ApplyWordTypes ==
  ASSUME ControllerTypes, HistoryTypes, NEW d \in Displays, NEW word \in Words,
         NEW viaMqtt \in BOOLEAN, ApplyWord(d, word, viaMqtt),
         espnow_command_enabled' = espnow_command_enabled, restarts' = restarts
  PROVE  ControllerTypes' /\ HistoryTypes'
<1>1. restarts' \in 0 .. MaxRestarts
  BY DEF HistoryTypes
<1>2. CASE /\ ~IsAccepted(d, word)
           /\ want' = IF word.id < applied[d].id THEN [want EXCEPT ![d] = Forget(@, word.set)]
                      ELSE want
           /\ UNCHANGED <<sources, settings, shadow, persisted, applied>>
  <2>1. ControllerTypes'
    BY <1>2, ControllerSame DEF controllerVars
  <2>2. UNCHANGED want \/ want' = [want EXCEPT ![d] = Forget(want[d], word.set)]
    BY <1>2
  <2>3. HistoryTypes'
    BY <1>1, <2>2, WishesForgotten
  <2> QED
    BY <2>1, <2>3
<1>3. CASE /\ IsAccepted(d, word)
           /\ sources' = [e \in DOMAIN sources \union {d} |->
                            IF e = d THEN [seq |-> word.seq, session |-> word.session]
                            ELSE sources[e]]
           /\ settings' = Obey(settings, word)
           /\ IF viaMqtt THEN Remember(settings') ELSE UNCHANGED <<shadow, persisted>>
           /\ applied' = [applied EXCEPT ![d] = [id |-> word.id, session |-> word.session,
                                                 turn |-> IF word.id = @.id THEN 1 - @.turn ELSE 0]]
           /\ want' = [want EXCEPT ![d] = Grant(@, word)]
  <2>1. /\ word.mode \in Modes /\ word.fan \in Fans /\ word.setpoint \in Setpoints
        /\ word.id \in 1 .. MaxWords /\ word.session \in 1 .. MaxSession
    BY DEF Words
  <2>2. settings' \in Settings
    BY <1>3, <2>1, ObeyIs DEF ControllerTypes
  <2>3. /\ shadow' \in [have : BOOLEAN, mode : Modes, fan : Fans, setpoint : Setpoints \union {0}]
        /\ persisted' \in [have : BOOLEAN, mode : Modes, fan : Fans,
                           heat : Setpoints \union {0}, cool : Setpoints \union {0}]
        /\ persisted'.have => persisted'.heat \in Setpoints /\ persisted'.cool \in Setpoints
    <3>1. CASE viaMqtt
      <4>1. Remember(settings')
        BY <1>3, <3>1
      <4> QED
        BY <2>2, <4>1, RememberIs
    <3>2. CASE ~viaMqtt
      BY <1>3, <3>2 DEF ControllerTypes
    <3> QED
      BY <3>1, <3>2
  <2>4. /\ DOMAIN sources' \subseteq Displays /\ IsFiniteSet(DOMAIN sources')
        /\ Cardinality(DOMAIN sources') <= MaxSources
        /\ \A e \in DOMAIN sources' : sources'[e] \in Trackers
    BY <1>3, TrackedSources
  <2>5. applied' \in [Displays -> [id : 0 .. MaxWords, session : 0 .. MaxSession, turn : {0, 1}]]
    <3> DEFINE turn == IF word.id = applied[d].id THEN 1 - applied[d].turn ELSE 0
    <3>1. turn \in {0, 1}
      BY DEF ControllerTypes
    <3>2. applied' = [applied EXCEPT ![d] = [id |-> word.id, session |-> word.session,
                                             turn |-> turn]]
      BY <1>3
    <3> HIDE DEF turn
    <3>3. word.id \in 0 .. MaxWords /\ word.session \in 0 .. MaxSession
      BY <2>1
    <3> QED
      BY <3>1, <3>2, <3>3 DEF ControllerTypes
  <2>6. ControllerTypes'
    BY <2>2, <2>3, <2>4, <2>5 DEF ControllerTypes
  <2>7. want' = [want EXCEPT ![d] = Grant(want[d], word)]
    BY <1>3
  <2>8. HistoryTypes'
    BY <1>1, <2>7, WishesForgotten
  <2> QED
    BY <2>6, <2>8
<1> QED
  BY <1>2, <1>3 DEF ApplyWord

LEMMA HeadIs ==
  ASSUME NEW queue \in Seq(Envelopes), queue # <<>>
  PROVE  /\ Head(queue).from \in Displays /\ Head(queue).word \in Words
         /\ Tail(queue) \in Seq(Envelopes) /\ Len(Tail(queue)) <= Len(queue)
<1>1. Head(queue) \in Envelopes
  OBVIOUS
<1>2. Head(queue).from \in Displays /\ Head(queue).word \in Words
  BY <1>1 DEF Envelopes
<1> QED
  BY <1>2

LEMMA DrainRingTypes ==
  ASSUME PathTypes, DrainRing
  PROVE  PathTypes'
<1> DEFINE in == Head(ring)
<1>1. /\ ring # <<>> /\ ring' = Tail(ring) /\ air' = air /\ mqtt' = mqtt
      /\ espnow_command_enabled' = espnow_command_enabled /\ restarts' = restarts
  BY DEF DrainRing
<1>2. in.from \in Displays /\ in.word \in Words /\ WayTypes'
  BY <1>1, HeadIs, PathAssumption DEF PathTypes, WayTypes
<1>3. DisplayTypes'
  BY DisplaySame DEF DrainRing, PathTypes, displayVars
<1>4. \/ ApplyWord(in.from, in.word, FALSE)
      \/ /\ want' = [want EXCEPT ![in.from] = Forget(@, in.word.set)]
         /\ UNCHANGED <<sources, settings, shadow, persisted, applied>>
  BY DEF DrainRing
<1> HIDE DEF in
<1>5. ControllerTypes' /\ HistoryTypes'
  <2>1. CASE ApplyWord(in.from, in.word, FALSE)
    <3>1. FALSE \in BOOLEAN
      OBVIOUS
    <3> QED
      BY <1>1, <1>2, <2>1, <3>1, ApplyWordTypes DEF PathTypes
  <2>2. CASE /\ want' = [want EXCEPT ![in.from] = Forget(@, in.word.set)]
             /\ UNCHANGED <<sources, settings, shadow, persisted, applied>>
    <3>1. ControllerTypes'
      BY <1>1, <2>2, ControllerSame DEF PathTypes, controllerVars
    <3>2. HistoryTypes /\ restarts' \in 0 .. MaxRestarts
      BY <1>1 DEF PathTypes, HistoryTypes
    <3>3. want' = [want EXCEPT ![in.from] = Forget(want[in.from], in.word.set)]
      BY <2>2
    <3>4. HistoryTypes'
      BY <1>2, <3>2, <3>3, WishesForgotten
    <3> QED
      BY <3>1, <3>4
  <2> QED
    BY <1>4, <2>1, <2>2
<1> QED
  BY <1>2, <1>3, <1>5 DEF PathTypes

LEMMA DrainPackedCommandTypes ==
  ASSUME PathTypes, DrainPackedCommand
  PROVE  PathTypes'
<1> DEFINE in == Head(mqtt)
<1>1. /\ mqtt # <<>> /\ mqtt' = Tail(mqtt) /\ air' = air /\ ring' = ring
      /\ espnow_command_enabled' = espnow_command_enabled /\ restarts' = restarts
      /\ ApplyWord(in.from, in.word, TRUE)
  BY DEF DrainPackedCommand
<1>2. in.from \in Displays /\ in.word \in Words /\ WayTypes'
  BY <1>1, HeadIs DEF PathTypes, WayTypes
<1>3. DisplayTypes'
  BY DisplaySame DEF DrainPackedCommand, PathTypes, displayVars
<1> HIDE DEF in
<1>4. ControllerTypes' /\ HistoryTypes'
  <2>1. TRUE \in BOOLEAN
    OBVIOUS
  <2> QED
    BY <1>1, <1>2, <2>1, ApplyWordTypes DEF PathTypes
<1> QED
  BY <1>2, <1>3, <1>4 DEF PathTypes

LEMMA LosePackedCommandTypes ==
  ASSUME PathTypes, LosePackedCommand
  PROVE  PathTypes'
<1>1. mqtt # <<>> /\ mqtt' = Tail(mqtt) /\ air' = air /\ ring' = ring
  BY DEF LosePackedCommand
<1>2. WayTypes'
  BY <1>1, HeadIs DEF PathTypes, WayTypes
<1>3. DisplayTypes' /\ ControllerTypes' /\ HistoryTypes'
  BY DisplaySame, ControllerSame DEF LosePackedCommand, PathTypes, HistoryTypes, displayVars
<1> QED
  BY <1>2, <1>3 DEF PathTypes

LEMMA SetCommandGateTypes ==
  ASSUME PathTypes, NEW enabled \in BOOLEAN, SetCommandGate(enabled)
  PROVE  PathTypes'
<1>1. DisplayTypes' /\ WayTypes' /\ HistoryTypes'
  BY DisplaySame, WaySame DEF SetCommandGate, PathTypes, HistoryTypes, displayVars
<1>2. espnow_command_enabled' \in BOOLEAN
  BY DEF SetCommandGate
<1>3. ControllerTypes'
  BY <1>2 DEF SetCommandGate, PathTypes, ControllerTypes
<1> QED
  BY <1>1, <1>3 DEF PathTypes

(* A Home Assistant word, whose setpoint may still be the empty one of a   *)
(* shadow nobody has set, as long as it does not carry it.                 *)
LEMMA HaWordTypes ==
  ASSUME PathTypes, NEW set, NEW sync, NEW shown, NEW base \in Settings,
         shown.mode \in Modes, shown.fan \in Fans,
         "setpoint" \in set => shown.setpoint \in Setpoints,
         HaWord(set, sync, shown, base)
  PROVE  PathTypes'
<1> DEFINE word == [set |-> set, sync |-> sync, mode |-> shown.mode, fan |-> shown.fan,
                    setpoint |-> shown.setpoint]
<1>1. settings' = Obey(base, word) /\ Remember(settings')
  BY DEF HaWord
<1>2. word.mode \in Modes /\ word.fan \in Fans
      /\ ("setpoint" \in word.set => word.setpoint \in Setpoints)
  OBVIOUS
<1> HIDE DEF word
<1>3. settings' \in Settings
  BY <1>1, <1>2, ObeyIs
<1>4. /\ shadow' \in [have : BOOLEAN, mode : Modes, fan : Fans, setpoint : Setpoints \union {0}]
      /\ persisted' \in [have : BOOLEAN, mode : Modes, fan : Fans,
                         heat : Setpoints \union {0}, cool : Setpoints \union {0}]
      /\ persisted'.have => persisted'.heat \in Setpoints /\ persisted'.cool \in Setpoints
  BY <1>1, <1>3, RememberIs
<1>5. ControllerTypes'
  BY <1>3, <1>4 DEF HaWord, PathTypes, ControllerTypes
<1>6. DisplayTypes' /\ WayTypes' /\ HistoryTypes'
  BY DisplaySame, WaySame DEF HaWord, PathTypes, HistoryTypes, displayVars
<1> QED
  BY <1>5, <1>6 DEF PathTypes

LEMMA HaSetTypes ==
  ASSUME PathTypes, NEW f \in HaInputs, NEW value \in Choices(f), HaSet(f, value)
  PROVE  PathTypes'
<1>1. f \in Fields /\ ModeInputs \subseteq Modes
  BY PathAssumption
<1>2. /\ shadow \in [have : BOOLEAN, mode : Modes, fan : Fans, setpoint : Setpoints \union {0}]
      /\ settings \in Settings
  BY DEF PathTypes, ControllerTypes
<1>3. shadow.mode \in Modes /\ shadow.fan \in Fans
  BY <1>2
<1>4. CASE f = "mode"
  <2> DEFINE shown == [shadow EXCEPT !.mode = value]
  <2>1. HaWord({f}, FALSE, shown, settings) /\ value \in Modes
    BY <1>1, <1>4 DEF HaSet, Choices
  <2>2. shown.mode \in Modes /\ shown.fan \in Fans
    BY <1>2, <2>1
  <2> HIDE DEF shown
  <2> QED
    BY <1>2, <1>4, <2>1, <2>2, HaWordTypes
<1>5. CASE f = "fan"
  <2> DEFINE shown == [shadow EXCEPT !.fan = value]
  <2>1. HaWord({f}, FALSE, shown, settings) /\ value \in Fans
    BY <1>5 DEF HaSet, Choices, Fans
  <2>2. shown.mode \in Modes /\ shown.fan \in Fans
    BY <1>2, <2>1
  <2> HIDE DEF shown
  <2> QED
    BY <1>2, <1>5, <2>1, <2>2, HaWordTypes
<1>6. CASE f = "setpoint"
  <2> DEFINE shown == [shadow EXCEPT !.setpoint = value]
             base == IF shadow.mode = "off" THEN [settings EXCEPT !.heat = value] ELSE settings
  <2>1. HaWord({f}, FALSE, shown, base) /\ value \in Setpoints
    BY <1>6 DEF HaSet, Choices
  <2>2. /\ shown.mode \in Modes /\ shown.fan \in Fans /\ shown.setpoint \in Setpoints
        /\ base \in Settings
    BY <1>2, <2>1 DEF Settings
  <2> HIDE DEF shown, base
  <2> QED
    BY <2>1, <2>2, HaWordTypes
<1>7. CASE f = "filter"
  <2>1. HaWord({f}, FALSE, shadow, settings)
    BY <1>7 DEF HaSet
  <2> QED
    BY <1>2, <1>3, <1>7, <2>1, HaWordTypes
<1> QED
  BY <1>1, <1>4, <1>5, <1>6, <1>7 DEF Fields

LEMMA HaSyncTypes ==
  ASSUME PathTypes, HaSync
  PROVE  PathTypes'
<1>1. shadow.mode \in Modes /\ shadow.fan \in Fans /\ settings \in Settings
  BY DEF PathTypes, ControllerTypes
<1>2. HaWord({}, TRUE, shadow, settings)
  BY DEF HaSync
<1> QED
  BY <1>1, <1>2, HaWordTypes

LEMMA NoSources ==
  ASSUME sources' = [d \in {} |-> NewTracker]
  PROVE  /\ DOMAIN sources' = {} /\ IsFiniteSet(DOMAIN sources')
         /\ Cardinality(DOMAIN sources') <= MaxSources
<1>1. DOMAIN sources' = {}
  OBVIOUS
<1> QED
  BY <1>1, FS_EmptySet, PathAssumption

LEMMA ResetRemoteSequenceTypes ==
  ASSUME PathTypes, ResetRemoteSequence
  PROVE  PathTypes'
<1>1. DisplayTypes' /\ WayTypes'
  BY DisplaySame, WaySame DEF ResetRemoteSequence, PathTypes, displayVars
<1>2. NeverApplied \in [id : 0 .. MaxWords, session : 0 .. MaxSession, turn : {0, 1}]
  BY PathAssumption, RingAssumption DEF NeverApplied
<1>3. ControllerTypes'
  <2>1. applied' \in [Displays -> [id : 0 .. MaxWords, session : 0 .. MaxSession, turn : {0, 1}]]
    BY <1>2 DEF ResetRemoteSequence
  <2>2. sources' = [d \in {} |-> NewTracker]
    BY DEF ResetRemoteSequence
  <2> QED
    BY <2>1, <2>2, NoSources DEF ResetRemoteSequence, PathTypes, ControllerTypes
<1>4. HistoryTypes'
  BY PathAssumption DEF ResetRemoteSequence, PathTypes, HistoryTypes
<1> QED
  BY <1>1, <1>3, <1>4 DEF PathTypes

LEMMA RestartControllerTypes ==
  ASSUME PathTypes, RestartController
  PROVE  PathTypes'
<1>1. DisplayTypes'
  BY DisplaySame DEF RestartController, PathTypes, displayVars
<1>2. WayTypes'
  <2>1. ring' = <<>> /\ mqtt' = <<>> /\ air' = air
    BY DEF RestartController
  <2>2. <<>> \in Seq(Envelopes) /\ Len(<<>>) = 0
    OBVIOUS
  <2> QED
    BY <2>1, <2>2, PathAssumption DEF PathTypes, WayTypes
<1>3. /\ settings' \in Settings
      /\ shadow' \in [have : BOOLEAN, mode : Modes, fan : Fans, setpoint : Setpoints \union {0}]
  <2>1. CASE /\ persisted.have
             /\ settings' = [mode |-> persisted.mode, fan |-> persisted.fan,
                             heat |-> persisted.heat, cool |-> persisted.cool]
             /\ shadow' = [have |-> TRUE, mode |-> persisted.mode, fan |-> persisted.fan,
                           setpoint |-> Target(settings')]
    <3>1. /\ persisted.mode \in Modes /\ persisted.fan \in Fans
          /\ persisted.heat \in Setpoints /\ persisted.cool \in Setpoints
      BY <2>1 DEF PathTypes, ControllerTypes
    <3>2. settings' \in Settings
      BY <2>1, <3>1 DEF Settings, Fans
    <3>3. Target(settings') \in Setpoints \union {0}
      BY <3>2, TargetIs
    <3> DEFINE yes == TRUE
    <3>4. yes \in BOOLEAN /\ shadow' = [have |-> yes, mode |-> persisted.mode,
                                         fan |-> persisted.fan, setpoint |-> Target(settings')]
      BY <2>1
    <3> HIDE DEF yes
    <3> QED
      BY <3>1, <3>2, <3>3, <3>4
  <2>2. CASE /\ ~persisted.have
             /\ \E sp \in Setpoints : settings' = Initially(sp)
             /\ shadow' = NoShadow
    <3> DEFINE no == FALSE
    <3>1. no \in BOOLEAN
          /\ shadow' = [have |-> no, mode |-> "off", fan |-> "automatic", setpoint |-> 0]
      BY <2>2 DEF NoShadow
    <3> HIDE DEF no
    <3>2. shadow' \in [have : BOOLEAN, mode : Modes, fan : Fans, setpoint : Setpoints \union {0}]
      BY <3>1 DEF Modes, Fans
    <3> QED
      BY <2>2, <3>2, InitiallyIs
  <2> QED
    BY <2>1, <2>2 DEF RestartController
<1>4. applied' \in [Displays -> [id : 0 .. MaxWords, session : 0 .. MaxSession, turn : {0, 1}]]
  <2>1. applied' = [d \in Displays |-> [applied[d] EXCEPT !.session = 0]]
    BY DEF RestartController
  <2>2. \A d \in Displays : applied[d] \in [id : 0 .. MaxWords, session : 0 .. MaxSession,
                                             turn : {0, 1}]
    BY DEF PathTypes, ControllerTypes
  <2>3. ASSUME NEW x \in [id : 0 .. MaxWords, session : 0 .. MaxSession, turn : {0, 1}]
        PROVE  [x EXCEPT !.session = 0] \in [id : 0 .. MaxWords, session : 0 .. MaxSession,
                                              turn : {0, 1}]
    BY RingAssumption
  <2>4. \A d \in Displays : [applied[d] EXCEPT !.session = 0]
                              \in [id : 0 .. MaxWords, session : 0 .. MaxSession, turn : {0, 1}]
    BY <2>2, <2>3
  <2> QED
    BY <2>1, <2>4
<1>5. ControllerTypes'
  <2>1. sources' = [d \in {} |-> NewTracker] /\ espnow_command_enabled' = TRUE
        /\ persisted' = persisted
    BY DEF RestartController
  <2>2. TRUE \in BOOLEAN
    OBVIOUS
  <2> QED
    BY <1>3, <1>4, <2>1, <2>2, NoSources DEF PathTypes, ControllerTypes
<1>6. HistoryTypes'
  BY PathAssumption DEF RestartController, PathTypes, HistoryTypes, NothingWanted
<1> QED
  BY <1>1, <1>2, <1>5, <1>6 DEF PathTypes

LEMMA InitTypes ==
  Init => PathTypes
<1> SUFFICES ASSUME Init PROVE PathTypes
  OBVIOUS
<1> USE DEF Init
<1>1. PICK sp \in Setpoints : local = [d \in Displays |-> Initially(sp)] /\ settings = Initially(sp)
  OBVIOUS
<1>2. local \in [Displays -> Settings] /\ settings \in Settings
  BY <1>1, InitiallyIs
<1>3. NextSession(0) \in 1 .. MaxSession /\ 0 \in 0 .. SeqSize - 1
  BY NumbersAre, RingAssumption
<1>4. DisplayTypes
  <2>1. /\ pending \in [Displays -> Options] /\ unconfirmed \in [Displays -> Options]
        /\ \A d \in Displays : pending[d] = NoOpts /\ unconfirmed[d] = NoOpts
    BY NoOptsIs
  <2>2. /\ session \in [Displays -> 1 .. MaxSession]
        /\ seq_local \in [Displays -> 0 .. SeqSize - 1]
    BY <1>3
  <2>3. /\ boots \in [Displays -> Nat] /\ last_word \in [Displays -> Words \union {NoWord}]
        /\ retries \in [Displays -> 0 .. MaxRetries]
        /\ tracked \in [Displays -> {"none", "pending", "failed", "delivered"}]
        /\ debounce \in [Displays -> BOOLEAN] /\ sent \in [Displays -> 0 .. MaxWords]
    BY PathAssumption
  <2> QED
    BY <1>2, <2>1, <2>2, <2>3, NoOptsIs DEF DisplayTypes
<1>5. WayTypes
  <2>1. <<>> \in Seq(Frames) /\ <<>> \in Seq(Envelopes) /\ Len(<<>>) = 0 /\ LastTracked(<<>>)
    BY DEF LastTracked
  <2> QED
    BY <2>1, PathAssumption DEF WayTypes
<1>6. ControllerTypes
  <2>1. /\ DOMAIN sources = {} /\ IsFiniteSet(DOMAIN sources)
        /\ Cardinality(DOMAIN sources) <= MaxSources
    BY FS_EmptySet, PathAssumption
  <2>2. applied \in [Displays -> [id : 0 .. MaxWords, session : 0 .. MaxSession, turn : {0, 1}]]
    BY PathAssumption, RingAssumption DEF NeverApplied
  <2> DEFINE no == FALSE
  <2>3. /\ no \in BOOLEAN
        /\ shadow = [have |-> no, mode |-> "off", fan |-> "automatic", setpoint |-> 0]
        /\ persisted = [have |-> no, mode |-> "off", fan |-> "automatic", heat |-> 0, cool |-> 0]
        /\ ~persisted.have
    BY DEF NoShadow, NothingSaved
  <2> HIDE DEF no
  <2>4. /\ shadow \in [have : BOOLEAN, mode : Modes, fan : Fans, setpoint : Setpoints \union {0}]
        /\ persisted \in [have : BOOLEAN, mode : Modes, fan : Fans,
                          heat : Setpoints \union {0}, cool : Setpoints \union {0}]
    BY <2>3 DEF Modes, Fans
  <2>5. espnow_command_enabled \in BOOLEAN
    OBVIOUS
  <2> QED
    BY <1>2, <2>1, <2>2, <2>3, <2>4, <2>5 DEF ControllerTypes
<1>7. HistoryTypes
  BY PathAssumption DEF HistoryTypes, NothingWanted
<1> QED
  BY <1>4, <1>5, <1>6, <1>7 DEF PathTypes

LEMMA NextTypes ==
  PathTypes /\ [Next]_vars => PathTypes'
<1> SUFFICES ASSUME PathTypes, [Next]_vars PROVE PathTypes'
  OBVIOUS
<1>1. CASE UNCHANGED vars
  BY <1>1 DEF vars, displayVars, controllerVars, PathTypes, DisplayTypes, WayTypes,
              ControllerTypes, HistoryTypes
<1>2. CASE ControllerNext
  BY <1>2, DrainRingTypes, DrainPackedCommandTypes, LosePackedCommandTypes, SetCommandGateTypes,
     HaSetTypes, HaSyncTypes, ResetRemoteSequenceTypes, RestartControllerTypes
     DEF ControllerNext
<1>3. ASSUME NEW d \in Displays, DisplayNext(d)
      PROVE  PathTypes'
  BY <1>3, SetLocalTypes, RequestSyncTypes, SendPendingTypes, SendCallbackTypes,
     ResyncTrackerTypes, PublishTypes, HearControllerTypes, DebounceOverTypes,
     ResetLocalSequenceTypes, RestartDisplayTypes DEF DisplayNext
<1> QED
  BY <1>1, <1>2, <1>3 DEF Next

(* The settings, options and trackers stay what they are for any displays, *)
(* any choices and any sizes, and the code's limits hold: the retries of a *)
(* change, the ring, the source slots (kMaxCommandSources), a sync request *)
(* only on its own (merge_send_options), one word tracked at a time.       *)
THEOREM PathTypeCorrect == Spec => []PathTypeOK
<1>1. Spec => []PathTypes
  BY InitTypes, NextTypes, PTL DEF Spec
<1>2. PathTypes => PathTypeOK
  BY TypesSuffice
<1> QED
  BY <1>1, <1>2, PTL

-----------------------------------------------------------------------------
(* The order of a display's words.  While its sequence has not gone half   *)
(* round the ring, and while every start gives it a session it never had,  *)
(* what its numbers say of two words is what their age says.               *)
SequenceHolds == 2 * MaxWords <= SeqSize
SessionsHold ==
  /\ MaxRestarts < MaxSession
  /\ {"boot", "reset"} \subseteq DisplayStarts => MaxRestarts <= 1

(* A word on its way, or one that may be put on its way again.             *)
Flies(d, w) ==
  \/ \E i \in 1 .. Len(air[d]) : air[d][i].word = w
  \/ \E i \in 1 .. Len(ring) : ring[i].from = d /\ ring[i].word = w
  \/ \E i \in 1 .. Len(mqtt) : mqtt[i].from = d /\ mqtt[i].word = w
  \/ last_word[d] = w

Agree(v, w) ==
  v.session = w.session => /\ v.id < w.id => v.seq < w.seq
                           /\ v.id = w.id => v.seq = w.seq
                           /\ v.id > w.id => v.seq > w.seq

(* The word a tracker was set by. *)
Stamp(d) == [id |-> applied[d].id, seq |-> sources[d].seq, session |-> sources[d].session]

SentTrue(d) ==
  /\ seq_local[d] <= sent[d]
  /\ \A w \in Words : Flies(d, w) =>
       /\ w.id <= sent[d] /\ w.session <= session[d] /\ w.seq >= 1 /\ w.seq <= w.id
       /\ w.session = session[d] => w.seq <= seq_local[d]
  /\ \A v \in Words : \A w \in Words : Flies(d, v) /\ Flies(d, w) =>
       Agree(v, w) /\ (v.id = w.id => v = w)

TrackerTrue(d) ==
  /\ d \in DOMAIN sources <=> applied[d].session # 0
  /\ applied[d].id <= sent[d]
  /\ d \in DOMAIN sources =>
       /\ Stamp(d).session = applied[d].session /\ Stamp(d).session <= session[d]
       /\ Stamp(d).seq >= 1 /\ Stamp(d).seq <= Stamp(d).id
       /\ Stamp(d).session = session[d] => Stamp(d).seq <= seq_local[d]
       /\ \A w \in Words : Flies(d, w) => Agree(w, Stamp(d))

OrderTrue(d) == SentTrue(d) /\ TrackerTrue(d)

StartsTrue(d) ==
  /\ session[d] <= 1 + restarts
  /\ "boot" \in DisplayStarts /\ restarts < MaxRestarts => boots[d] = session[d] - 1

PathOrder == \A d \in Displays : OrderTrue(d) /\ StartsTrue(d)

(* A display none of whose words changed. *)
Fewer(d) == \A w \in Words : Flies(d, w)' => Flies(d, w)
SameNumbers(d) == sent'[d] = sent[d] /\ session'[d] = session[d] /\ seq_local'[d] = seq_local[d]
SameTracker(d) ==
  /\ d \in DOMAIN sources' <=> d \in DOMAIN sources
  /\ d \in DOMAIN sources => sources'[d] = sources[d]
  /\ applied'[d] = applied[d]

LEMMA SentKept ==
  ASSUME NEW d \in Displays, SentTrue(d), Fewer(d), SameNumbers(d)
  PROVE  SentTrue(d)'
BY DEF SentTrue, Fewer, SameNumbers

LEMMA TrackerKept ==
  ASSUME NEW d \in Displays, TrackerTrue(d), Fewer(d), SameNumbers(d), SameTracker(d)
  PROVE  TrackerTrue(d)'
<1>1. d \in DOMAIN sources => Stamp(d)' = Stamp(d)
  BY DEF SameTracker, Stamp
<1> QED
  BY <1>1 DEF TrackerTrue, Fewer, SameNumbers, SameTracker

LEMMA OrderKept ==
  ASSUME NEW d \in Displays, OrderTrue(d), Fewer(d), SameNumbers(d), SameTracker(d)
  PROVE  OrderTrue(d)'
BY SentKept, TrackerKept DEF OrderTrue

(* A new word: the next number of its session, or the first of a new one.  *)
NumberedNext(d, word) ==
  /\ word.session = session'[d]
  /\ \/ session'[d] = session[d] /\ word.seq = NextSeq(seq_local[d])
     \/ session'[d] > session[d] /\ word.seq = NextSeq(0)

LEMMA OrderSent ==
  ASSUME PathTypes, SequenceHolds, NEW d \in Displays, NEW word \in Words, OrderTrue(d),
         Numbered(d, word), word.id = sent[d] + 1, NumberedNext(d, word), session'[d] \in Nat,
         \A w \in Words : Flies(d, w)' => Flies(d, w) \/ w = word,
         SameTracker(d)
  PROVE  OrderTrue(d)'
<1> DEFINE n == sent[d]
           s == seq_local[d]
           new == session'[d]
           old == session[d]
<1>1. /\ n \in Nat /\ n < MaxWords /\ s \in 0 .. SeqSize - 1 /\ s <= n /\ old \in Nat /\ new \in Nat
      /\ sent'[d] = n + 1 /\ seq_local'[d] = word.seq
  <2>1. sent[d] \in Nat /\ seq_local[d] \in 0 .. SeqSize - 1 /\ session[d] \in Nat
    BY PathAssumption DEF PathTypes, DisplayTypes
  <2>2. sent[d] < MaxWords /\ seq_local[d] <= sent[d]
    BY DEF Numbered, OrderTrue, SentTrue
  <2>3. sent'[d] = sent[d] + 1 /\ seq_local'[d] = word.seq
    BY DEF Numbered, PathTypes, DisplayTypes
  <2> QED
    BY <2>1, <2>2, <2>3
<1>2. (s + 1) % SeqSize = s + 1 /\ (0 + 1) % SeqSize = 1
  <2>1. SeqSize \in Nat /\ MaxWords \in Nat /\ s + 1 < SeqSize /\ 1 < SeqSize
    BY <1>1, RingAssumption, PathAssumption DEF SequenceHolds
  <2> HIDE DEF s
  <2> QED
    BY <1>1, <2>1
<1>3. /\ word.session = new
      /\ (new = old /\ word.seq = s + 1) \/ (new > old /\ word.seq = 1)
  BY <1>2 DEF NumberedNext, NextSeq
<1>4. /\ word.id = n + 1 /\ word.seq <= n + 1 /\ word.seq >= 1 /\ word.seq \in Nat
      /\ word.session \in Nat
  <2> HIDE DEF n, s, new, old
  <2> QED
    BY <1>1, <1>3 DEF n
<1>5. ASSUME NEW w \in Words, w.id <= n, w.session <= old, w.session = old => w.seq <= s
      PROVE  Agree(w, word) /\ Agree(word, w) /\ w.id # word.id
  <2>1. w.id \in Nat /\ w.seq \in Nat /\ w.session \in Nat
    BY DEF Words
  <2> HIDE DEF n, s, new, old
  <2> QED
    BY <1>1, <1>3, <1>4, <1>5, <2>1 DEF Agree
<1>6. ASSUME NEW w \in Words, Flies(d, w)
      PROVE  /\ w.id <= n /\ w.session <= old /\ w.seq >= 1 /\ w.seq <= w.id
             /\ w.session = old => w.seq <= s
  BY <1>6 DEF OrderTrue, SentTrue
<1>7. \A w \in Words : w.id \in Nat /\ w.seq \in Nat /\ w.session \in Nat
  BY DEF Words
<1>8. SentTrue(d)'
  <2>1. seq_local'[d] <= sent'[d]
    BY <1>1, <1>4
  <2>2. ASSUME NEW w \in Words, Flies(d, w)'
        PROVE  /\ w.id <= sent'[d] /\ w.session <= session'[d] /\ w.seq >= 1 /\ w.seq <= w.id
               /\ w.session = session'[d] => w.seq <= seq_local'[d]
    <3>1. CASE w = word
      BY <1>1, <1>3, <1>4, <3>1
    <3>2. CASE Flies(d, w)
      <4>1. /\ w.id <= n /\ w.session <= old /\ w.seq >= 1 /\ w.seq <= w.id
            /\ w.session = old => w.seq <= s
        BY <1>6, <3>2
      <4> HIDE DEF n, s, new, old
      <4>2. /\ w.id <= n + 1 /\ w.session <= new /\ w.seq >= 1
            /\ w.seq <= w.id
            /\ w.session = new => w.seq <= word.seq
        BY <1>1, <1>3, <1>7, <4>1
      <4> QED
        BY <1>1, <4>2 DEF new
    <3> QED
      BY <2>2, <3>1, <3>2
  <2>3. ASSUME NEW v \in Words, NEW w \in Words, Flies(d, v)', Flies(d, w)'
        PROVE  Agree(v, w) /\ (v.id = w.id => v = w)
    <3>1. (v = word \/ Flies(d, v)) /\ (w = word \/ Flies(d, w))
      BY <2>3
    <3>2. Agree(word, word)
      BY <1>7 DEF Agree
    <3>3. Flies(d, v) => Agree(v, word) /\ v.id # word.id
      BY <1>5, <1>6
    <3>4. Flies(d, w) => Agree(word, w) /\ w.id # word.id
      BY <1>5, <1>6
    <3>5. Flies(d, v) /\ Flies(d, w) => Agree(v, w) /\ (v.id = w.id => v = w)
      BY DEF OrderTrue, SentTrue
    <3> QED
      BY <3>1, <3>2, <3>3, <3>4, <3>5
  <2> QED
    BY <2>1, <2>2, <2>3 DEF SentTrue
<1>9. TrackerTrue(d)'
  <2>1. TrackerTrue(d) /\ applied[d].id \in Nat
    BY PathAssumption DEF OrderTrue, PathTypes, ControllerTypes
  <2>2. applied'[d] = applied[d] /\ (d \in DOMAIN sources' <=> d \in DOMAIN sources)
    BY DEF SameTracker
  <2>3. applied'[d].id <= sent'[d]
    <3>1. applied[d].id <= n
      BY <2>1 DEF TrackerTrue
    <3> QED
      BY <1>1, <2>1, <2>2, <3>1
  <2>4. ASSUME d \in DOMAIN sources
        PROVE  /\ Stamp(d)'.session = applied'[d].session /\ Stamp(d)'.session <= session'[d]
               /\ Stamp(d)'.seq >= 1 /\ Stamp(d)'.seq <= Stamp(d)'.id
               /\ Stamp(d)'.session = session'[d] => Stamp(d)'.seq <= seq_local'[d]
               /\ \A w \in Words : Flies(d, w)' => Agree(w, Stamp(d)')
    <3> DEFINE t == Stamp(d)
    <3>1. Stamp(d)' = t
      BY <2>4 DEF SameTracker, Stamp
    <3>2. /\ t.session = applied[d].session /\ t.session <= old /\ t.seq >= 1 /\ t.seq <= t.id
          /\ t.session = old => t.seq <= s
          /\ \A w \in Words : Flies(d, w) => Agree(w, t)
      BY <2>1, <2>4 DEF TrackerTrue
    <3>3. t.id = applied[d].id /\ t.id <= n /\ t.id \in Nat
      BY <2>1 DEF TrackerTrue, Stamp
    <3>4. sources[d] \in Trackers
      BY <2>4 DEF PathTypes, ControllerTypes
    <3>5. t.seq \in Nat /\ t.session \in Nat
      BY <3>4 DEF Stamp, Trackers
    <3> HIDE DEF t
    <3>6. t.session <= new /\ (t.session = new => t.seq <= word.seq) /\ Agree(word, t)
      <4> HIDE DEF n, s, new, old
      <4> QED
        BY <1>1, <1>3, <1>4, <3>2, <3>3, <3>5 DEF Agree
    <3> QED
      BY <1>1, <2>2, <3>1, <3>2, <3>6
  <2> QED
    BY <2>1, <2>2, <2>3, <2>4 DEF TrackerTrue
<1> QED
  BY <1>8, <1>9 DEF OrderTrue

(* A word applied becomes the stamp of its tracker. *)
LEMMA OrderApplied ==
  ASSUME NEW d \in Displays, NEW word \in Words, OrderTrue(d), Fewer(d), SameNumbers(d),
         Flies(d, word), d \in DOMAIN sources',
         sources'[d] = [seq |-> word.seq, session |-> word.session],
         applied'[d].id = word.id, applied'[d].session = word.session
  PROVE  OrderTrue(d)'
<1>1. SentTrue(d)'
  BY SentKept DEF OrderTrue
<1>2. /\ word.id <= sent[d] /\ word.session <= session[d] /\ word.seq >= 1 /\ word.seq <= word.id
      /\ word.session = session[d] => word.seq <= seq_local[d]
      /\ \A w \in Words : Flies(d, w) => Agree(w, word)
  BY DEF OrderTrue, SentTrue
<1>3. Stamp(d)' = [id |-> word.id, seq |-> word.seq, session |-> word.session]
  BY DEF Stamp
<1>4. word.session # 0
  BY DEF Words
<1>5. \A w \in Words : Flies(d, w)' => Agree(w, Stamp(d)')
  BY <1>2, <1>3 DEF Fewer, Agree
<1>6. TrackerTrue(d)'
  BY <1>2, <1>3, <1>4, <1>5 DEF TrackerTrue, SameNumbers
<1> QED
  BY <1>1, <1>6 DEF OrderTrue

LEMMA OrderForgotten ==
  ASSUME NEW d \in Displays, OrderTrue(d), Fewer(d), SameNumbers(d), d \notin DOMAIN sources',
         applied'[d].session = 0, applied'[d].id <= sent[d]
  PROVE  OrderTrue(d)'
<1>1. SentTrue(d)'
  BY SentKept DEF OrderTrue
<1> QED
  BY <1>1 DEF OrderTrue, TrackerTrue, SameNumbers

-----------------------------------------------------------------------------
(* Which words an action can put on their way. *)
LEMMA FewerSame ==
  ASSUME NEW e \in Displays, air'[e] = air[e], ring' = ring, mqtt' = mqtt,
         last_word'[e] = last_word[e]
  PROVE  Fewer(e)
BY DEF Fewer, Flies

LEMMA FewerTail ==
  ASSUME WayTypes, NEW e \in Displays, air'[e] = air[e], last_word'[e] = last_word[e],
         \/ ring # <<>> /\ ring' = Tail(ring) /\ mqtt' = mqtt
         \/ mqtt # <<>> /\ mqtt' = Tail(mqtt) /\ ring' = ring
  PROVE  Fewer(e)
<1>1. ring \in Seq(Envelopes) /\ mqtt \in Seq(Envelopes)
  BY DEF WayTypes
<1>2. ASSUME NEW queue \in Seq(Envelopes), queue # <<>>, NEW i \in 1 .. Len(Tail(queue))
      PROVE  i + 1 \in 1 .. Len(queue) /\ Tail(queue)[i] = queue[i + 1]
  BY <1>2
<1>3. CASE ring # <<>> /\ ring' = Tail(ring) /\ mqtt' = mqtt
  <2>1. \A i \in 1 .. Len(ring') : i + 1 \in 1 .. Len(ring) /\ ring'[i] = ring[i + 1]
    BY <1>1, <1>2, <1>3
  <2> QED
    BY <1>3, <2>1 DEF Fewer, Flies
<1>4. CASE mqtt # <<>> /\ mqtt' = Tail(mqtt) /\ ring' = ring
  <2>1. \A i \in 1 .. Len(mqtt') : i + 1 \in 1 .. Len(mqtt) /\ mqtt'[i] = mqtt[i + 1]
    BY <1>1, <1>2, <1>4
  <2> QED
    BY <1>4, <2>1 DEF Fewer, Flies
<1> QED
  BY <1>3, <1>4

LEMMA ConcatIs ==
  ASSUME NEW S, NEW s \in Seq(S), NEW t \in Seq(S)
  PROVE  /\ s \o t \in Seq(S) /\ Len(s \o t) = Len(s) + Len(t)
         /\ \A i \in 1 .. Len(s) + Len(t) :
              \/ i \in 1 .. Len(s) /\ (s \o t)[i] = s[i]
              \/ i - Len(s) \in 1 .. Len(t) /\ (s \o t)[i] = t[i - Len(s)]
<1>1. Len(s) \in Nat /\ Len(t) \in Nat /\ s \o t \in Seq(S) /\ Len(s \o t) = Len(s) + Len(t)
  OBVIOUS
<1>2. ASSUME NEW i \in 1 .. Len(s) + Len(t)
      PROVE  (s \o t)[i] = IF i <= Len(s) THEN s[i] ELSE t[i - Len(s)]
  BY <1>1
<1> QED
  BY <1>1, <1>2

LEMMA FewerCallback ==
  ASSUME WayTypes, NEW d \in Displays, NEW copies \in 0 .. 2, NEW ack \in BOOLEAN,
         NEW called \in BOOLEAN, SendCallback(d, copies, ack, called), NEW e \in Displays
  PROVE  Fewer(e)
<1> DEFINE word == Head(air[d]).word
           fits == IF Len(ring) + copies > RingSize THEN RingSize - Len(ring) ELSE copies
           item == [from |-> d, word |-> word]
           new == [i \in 1 .. fits |-> item]
<1>1. /\ air[d] # <<>> /\ air' = [air EXCEPT ![d] = Tail(@)] /\ mqtt' = mqtt
      /\ ring' = ring \o new /\ last_word' = last_word
  BY DEF SendCallback
<1>2. /\ air[d] \in Seq(Frames) /\ air[e] \in Seq(Frames) /\ ring \in Seq(Envelopes)
      /\ Len(ring) <= RingSize /\ RingSize \in Nat /\ air \in [Displays -> Seq(Frames)]
  BY PathAssumption DEF WayTypes
<1>3. Head(air[d]) \in Frames
  BY <1>1, <1>2
<1>4. item \in Envelopes /\ item.from = d /\ item.word = word
  BY <1>3 DEF Frames, Envelopes
<1>5. fits \in Nat
  BY <1>2
<1> HIDE DEF fits, item
<1>6. new \in Seq(Envelopes) /\ Len(new) = fits /\ \A i \in 1 .. fits : new[i] = item
  BY <1>4, <1>5, CopiesAre
<1> HIDE DEF new
<1>7. \A i \in 1 .. Len(ring') : (i \in 1 .. Len(ring) /\ ring'[i] = ring[i]) \/ ring'[i] = item
  BY <1>1, <1>2, <1>6, ConcatIs
<1>8. 1 \in 1 .. Len(air[d]) /\ air[d][1].word = word
  BY <1>1, <1>2
<1>9. \A i \in 1 .. Len(air'[e]) : \E k \in 1 .. Len(air[e]) : air'[e][i] = air[e][k]
  <2>1. CASE e = d
    <3> DEFINE old == air[d]
    <3>1. old \in Seq(Frames) /\ old # <<>> /\ air'[e] = Tail(old) /\ air[e] = old
      BY <1>1, <1>2, <2>1
    <3> HIDE DEF old
    <3>2. \A i \in 1 .. Len(Tail(old)) : i + 1 \in 1 .. Len(old) /\ Tail(old)[i] = old[i + 1]
      BY <3>1
    <3> QED
      BY <3>1, <3>2
  <2>2. CASE e # d
    BY <1>1, <1>2, <2>2
  <2> QED
    BY <2>1, <2>2
<1> SUFFICES ASSUME NEW w \in Words, Flies(e, w)'
             PROVE  Flies(e, w)
  BY DEF Fewer
<1>10. CASE \E i \in 1 .. Len(air'[e]) : air'[e][i].word = w
  BY <1>9, <1>10 DEF Flies
<1>11. CASE \E i \in 1 .. Len(ring') : ring'[i].from = e /\ ring'[i].word = w
  BY <1>4, <1>7, <1>8, <1>11 DEF Flies
<1>12. CASE (\E i \in 1 .. Len(mqtt') : mqtt'[i].from = e /\ mqtt'[i].word = w) \/ last_word'[e] = w
  BY <1>1, <1>12 DEF Flies
<1> QED
  BY <1>10, <1>11, <1>12 DEF Flies

LEMMA FewerPublished ==
  ASSUME PathTypes, NEW d \in Displays, PublishPackedCommand(d), NEW e \in Displays
  PROVE  Fewer(e)
<1> DEFINE item == [from |-> d, word |-> last_word[d]]
<1>1. /\ air' = air /\ ring' = ring /\ last_word' = last_word /\ mqtt' = Append(mqtt, item)
      /\ item.from = d /\ item.word = last_word[d] /\ mqtt \in Seq(Envelopes)
  BY DEF PublishPackedCommand, displayVars, PathTypes, WayTypes
<1> HIDE DEF item
<1>2. \A i \in 1 .. Len(mqtt') : (i \in 1 .. Len(mqtt) /\ mqtt'[i] = mqtt[i]) \/ mqtt'[i] = item
  BY <1>1
<1> QED
  BY <1>1, <1>2 DEF Fewer, Flies

(* Only the word just built is new. *)
LEMMA FliesSent ==
  ASSUME PathTypes, NEW d \in Displays, NEW opts, NEW open, NEW word \in Words,
         Numbered(d, word), Fates(d, opts, word, open), ring' = ring, mqtt' = mqtt
  PROVE  /\ \A w \in Words : Flies(d, w)' => Flies(d, w) \/ w = word
         /\ \A e \in Displays : e # d => Fewer(e) /\ sent'[e] = sent[e] /\ seq_local'[e] = seq_local[e]
<1> DEFINE frames == Untracked(air[d])
           frame == [word |-> word, tracked |-> TRUE]
<1>1. air[d] \in Seq(Frames) /\ air \in [Displays -> Seq(Frames)]
  BY DEF PathTypes, WayTypes
<1>2. /\ frames \in Seq(Frames) /\ Len(frames) = Len(air[d])
      /\ \A i \in 1 .. Len(frames) : frames[i].word = air[d][i].word
  BY <1>1, UntrackedIs
<1>3. frame.word = word /\ frame \in Frames
  BY DEF Frames
<1>4. air' = [air EXCEPT ![d] = frames] \/ air' = [air EXCEPT ![d] = Append(frames, frame)]
  BY DEF Fates, Throttled, Accepted, Rejected
<1>5. last_word' = [last_word EXCEPT ![d] = word] /\ last_word \in [Displays -> Words \union {NoWord}]
  BY DEF Numbered, PathTypes, DisplayTypes
<1> HIDE DEF frames, frame
<1>6. \A i \in 1 .. Len(Append(frames, frame)) :
        \/ i \in 1 .. Len(frames) /\ Append(frames, frame)[i] = frames[i]
        \/ Append(frames, frame)[i] = frame
  BY <1>2, <1>3
<1>7. \A i \in 1 .. Len(air'[d]) :
        (i \in 1 .. Len(air[d]) /\ air'[d][i].word = air[d][i].word) \/ air'[d][i].word = word
  BY <1>1, <1>2, <1>3, <1>4, <1>6
<1>8. \A w \in Words : Flies(d, w)' => Flies(d, w) \/ w = word
  BY <1>5, <1>7 DEF Flies
<1>9. ASSUME NEW e \in Displays, e # d
      PROVE  Fewer(e) /\ sent'[e] = sent[e] /\ seq_local'[e] = seq_local[e]
  <2>1. air'[e] = air[e] /\ last_word'[e] = last_word[e]
    BY <1>1, <1>4, <1>5, <1>9
  <2>2. sent'[e] = sent[e] /\ seq_local'[e] = seq_local[e]
    BY <1>9 DEF Numbered, PathTypes, DisplayTypes
  <2> QED
    BY <2>1, <2>2, FewerSame
<1> QED
  BY <1>8, <1>9

-----------------------------------------------------------------------------
(* The order of the words, action by action. *)
LEMMA QuietOrder ==
  ASSUME PathOrder, \A e \in Displays : Fewer(e),
         UNCHANGED <<sent, session, seq_local, boots, sources, applied, restarts>>
  PROVE  PathOrder'
<1> SUFFICES ASSUME NEW e \in Displays PROVE OrderTrue(e)' /\ StartsTrue(e)'
  BY DEF PathOrder
<1>1. OrderTrue(e) /\ StartsTrue(e)
  BY DEF PathOrder
<1>2. SameNumbers(e) /\ SameTracker(e)
  BY DEF SameNumbers, SameTracker
<1>3. OrderTrue(e)'
  BY <1>1, <1>2, OrderKept
<1> QED
  BY <1>1, <1>3 DEF StartsTrue

LEMMA SendOrder ==
  ASSUME PathTypes, PathOrder, SequenceHolds, NEW d \in Displays, NEW opts \in Options,
         NEW settled \in Settings, NEW seq \in 0 .. SeqSize - 1, NEW sess \in 1 .. MaxSession,
         NEW open, Send(d, opts, settled, seq, sess, open), ring' = ring, mqtt' = mqtt,
         session' = [session EXCEPT ![d] = sess],
         \/ sess = session[d] /\ seq = NextSeq(seq_local[d])
         \/ sess > session[d] /\ seq = NextSeq(0),
         UNCHANGED <<sources, applied>>
  PROVE  \A e \in Displays : OrderTrue(e)'
<1> DEFINE word == WordOf(d, opts, settled, seq, sess)
<1>1. Numbered(d, word) /\ Fates(d, opts, word, open)
  BY SendIs
<1>2. word \in Words
  BY <1>1, WordOfIs DEF Numbered, PathTypes
<1>3. word.id = sent[d] + 1 /\ word.session = sess /\ word.seq = seq
  BY DEF WordOf
<1> HIDE DEF word
<1>4. /\ \A w \in Words : Flies(d, w)' => Flies(d, w) \/ w = word
      /\ \A e \in Displays : e # d => Fewer(e) /\ sent'[e] = sent[e] /\ seq_local'[e] = seq_local[e]
  BY <1>1, <1>2, FliesSent
<1>5. session'[d] = sess /\ (\A e \in Displays : e # d => session'[e] = session[e])
  BY DEF PathTypes, DisplayTypes
<1>6. \A e \in Displays : OrderTrue(e) /\ SameTracker(e)
  BY DEF PathOrder, SameTracker
<1>7. NumberedNext(d, word) /\ session'[d] \in Nat
  BY <1>3, <1>5 DEF NumberedNext
<1>8. OrderTrue(d)'
  BY <1>1, <1>2, <1>3, <1>4, <1>6, <1>7, OrderSent
<1>9. ASSUME NEW e \in Displays, e # d
      PROVE  OrderTrue(e)'
  <2>1. Fewer(e) /\ SameNumbers(e)
    BY <1>4, <1>5, <1>9 DEF SameNumbers
  <2> QED
    BY <1>6, <2>1, OrderKept
<1> QED
  BY <1>8, <1>9

LEMMA StartsKept ==
  ASSUME PathOrder, UNCHANGED <<session, boots, restarts>>, NEW e \in Displays
  PROVE  StartsTrue(e)'
BY DEF PathOrder, StartsTrue

LEMMA TransmitOrder ==
  ASSUME PathTypes, PathOrder, SequenceHolds, NEW d \in Displays, NEW requested \in Options,
         NEW settled \in Settings, NEW owed \in Options, NEW open \in Options,
         Transmit(d, requested, settled, owed, open), ring' = ring, mqtt' = mqtt,
         UNCHANGED <<sources, applied, session, boots, restarts>>
  PROVE  PathOrder'
<1> DEFINE opts == Merge(Merge(requested, owed), open)
           seq == NextSeq(seq_local[d])
           sess == session[d]
<1>1. opts \in Options
  BY MergeIs
<1>2. Send(d, opts, settled, seq, sess, open)
  BY DEF Transmit
<1>3. seq \in 0 .. SeqSize - 1 /\ sess \in 1 .. MaxSession
  BY NumbersAre DEF PathTypes, DisplayTypes
<1>4. session' = [session EXCEPT ![d] = sess]
  BY DEF PathTypes, DisplayTypes
<1>5. \A e \in Displays : OrderTrue(e)'
  <2>1. sess = session[d] /\ seq = NextSeq(seq_local[d])
    OBVIOUS
  <2> HIDE DEF opts, seq, sess
  <2> QED
    BY <1>1, <1>2, <1>3, <1>4, <2>1, SendOrder
<1> QED
  BY <1>5, StartsKept DEF PathOrder

LEMMA SetLocalOrder ==
  ASSUME PathTypes, PathOrder, SequenceHolds, NEW d \in Displays, NEW f \in FieldInputs,
         NEW value \in Choices(f), SetLocal(d, f, value)
  PROVE  PathOrder'
<1> DEFINE request == [set |-> {f}, sync |-> FALSE]
<1>1. /\ local' = [local EXCEPT ![d] = Chosen(d, f, value)]
      /\ Transmit(d, request, local'[d], pending[d], unconfirmed[d])
      /\ ring' = ring /\ mqtt' = mqtt /\ UNCHANGED <<sources, applied, session, boots, restarts>>
  BY DEF SetLocal, controllerVars
<1>2. local'[d] \in Settings
  BY <1>1, ChosenIs DEF PathTypes, DisplayTypes
<1>3. request \in Options
  BY PathAssumption DEF Options
<1>4. pending[d] \in Options /\ unconfirmed[d] \in Options
  BY DEF PathTypes, DisplayTypes
<1> HIDE DEF request
<1> QED
  BY <1>1, <1>2, <1>3, <1>4, TransmitOrder

LEMMA RequestSyncOrder ==
  ASSUME PathTypes, PathOrder, SequenceHolds, NEW d \in Displays, RequestSync(d)
  PROVE  PathOrder'
<1>1. /\ Transmit(d, SyncOpts, local[d], pending[d], unconfirmed[d]) /\ SyncOpts \in Options
      /\ ring' = ring /\ mqtt' = mqtt /\ UNCHANGED <<sources, applied, session, boots, restarts>>
  BY DEF RequestSync, controllerVars, SyncOpts, Options
<1>2. pending[d] \in Options /\ unconfirmed[d] \in Options /\ local[d] \in Settings
  BY DEF PathTypes, DisplayTypes
<1> QED
  BY <1>1, <1>2, TransmitOrder

LEMMA SendPendingOrder ==
  ASSUME PathTypes, PathOrder, SequenceHolds, NEW d \in Displays, SendPending(d)
  PROVE  PathOrder'
<1> DEFINE retry == MayRetry(d)
           open == IF retry \/ tracked[d] = "pending" THEN unconfirmed[d] ELSE NoOpts
           owed == IF retry THEN Merge(pending[d], unconfirmed[d]) ELSE pending[d]
<1>1. pending[d] \in Options /\ unconfirmed[d] \in Options /\ local[d] \in Settings
  BY DEF PathTypes, DisplayTypes
<1>2. open \in Options /\ owed \in Options
  BY <1>1, MergeIs, NoOptsIs
<1>3. /\ Transmit(d, owed, local[d], owed, open) \/ UNCHANGED <<seq_local, last_word, air, sent>>
      /\ ring' = ring /\ mqtt' = mqtt /\ UNCHANGED <<sources, applied, session, boots, restarts>>
  BY DEF SendPending, controllerVars
<1> HIDE DEF retry, open, owed
<1>4. CASE Transmit(d, owed, local[d], owed, open)
  BY <1>1, <1>2, <1>3, <1>4, TransmitOrder
<1>5. CASE UNCHANGED <<seq_local, last_word, air, sent>>
  <2>1. \A e \in Displays : Fewer(e)
    BY <1>3, <1>5, FewerSame
  <2> QED
    BY <1>3, <1>5, <2>1, QuietOrder
<1> QED
  BY <1>3, <1>4, <1>5

LEMMA SendCallbackOrder ==
  ASSUME PathTypes, PathOrder, NEW d \in Displays, NEW copies \in 0 .. 2, NEW ack \in BOOLEAN,
         NEW called \in BOOLEAN, SendCallback(d, copies, ack, called)
  PROVE  PathOrder'
<1>1. \A e \in Displays : Fewer(e)
  BY FewerCallback DEF PathTypes
<1>2. UNCHANGED <<sent, session, seq_local, boots, sources, applied, restarts>>
  BY DEF SendCallback, controllerVars
<1> QED
  BY <1>1, <1>2, QuietOrder

LEMMA PublishOrder ==
  ASSUME PathTypes, PathOrder, NEW d \in Displays, PublishPackedCommand(d)
  PROVE  PathOrder'
<1>1. \A e \in Displays : Fewer(e)
  BY FewerPublished
<1>2. UNCHANGED <<sent, session, seq_local, boots, sources, applied, restarts>>
  BY DEF PublishPackedCommand, displayVars, controllerVars
<1> QED
  BY <1>1, <1>2, QuietOrder

(* The actions that touch neither the words nor the trackers. *)
LEMMA ElsewhereOrder ==
  ASSUME PathTypes, PathOrder,
         \/ \E d \in Displays : ResyncTracker(d) \/ HearController(d) \/ DebounceOver(d)
         \/ \E enabled \in BOOLEAN : SetCommandGate(enabled)
         \/ \E set, sync, shown, base : HaWord(set, sync, shown, base)
  PROVE  PathOrder'
<1>1. UNCHANGED <<air, ring, mqtt, last_word, sent, session, seq_local, boots, sources, applied,
                  restarts>>
  BY DEF ResyncTracker, HearController, DebounceOver, SetCommandGate, HaWord, displayVars,
         controllerVars
<1>2. \A e \in Displays : Fewer(e)
  BY <1>1, FewerSame
<1> QED
  BY <1>1, <1>2, QuietOrder

LEMMA StartOverOrder ==
  ASSUME PathTypes, PathOrder, SequenceHolds, NEW d \in Displays, NEW settled \in Settings,
         NEW sess \in 1 .. MaxSession, StartOver(d, settled, sess), sess > session[d]
  PROVE  \A e \in Displays : OrderTrue(e)'
<1>1. SyncOpts \in Options /\ NextSeq(0) \in 0 .. SeqSize - 1
  BY NumbersAre DEF SyncOpts, Options
<1>2. /\ Send(d, SyncOpts, settled, NextSeq(0), sess, NoOpts) /\ ring' = ring /\ mqtt' = mqtt
      /\ session' = [session EXCEPT ![d] = sess] /\ UNCHANGED <<sources, applied>>
  BY DEF StartOver, controllerVars
<1> QED
  BY <1>1, <1>2, SendOrder

LEMMA ResetLocalSequenceOrder ==
  ASSUME PathTypes, PathOrder, SequenceHolds, SessionsHold, "reset" \in DisplayStarts,
         NEW d \in Displays, ResetLocalSequence(d)
  PROVE  PathOrder'
<1> DEFINE old == session[d]
           sess == NextSession(old)
<1>1. /\ StartOver(d, local[d], sess) /\ boots' = boots /\ local[d] \in Settings
      /\ restarts < MaxRestarts /\ restarts' = restarts + 1
      /\ session' = [session EXCEPT ![d] = sess]
  BY DEF ResetLocalSequence, StartOver, PathTypes, DisplayTypes
<1>2. old \in Nat /\ old <= 1 + restarts /\ restarts \in Nat /\ old >= 1
  BY PathAssumption DEF PathOrder, StartsTrue, PathTypes, DisplayTypes, HistoryTypes
<1>3. old < MaxSession /\ MaxSession \in Nat
  BY <1>1, <1>2, PathAssumption, RingAssumption DEF SessionsHold
<1>4. sess = old + 1
  <2> HIDE DEF old
  <2> QED
    BY <1>2, <1>3 DEF NextSession
<1>5. \A e \in Displays : OrderTrue(e)'
  <2>1. sess \in 1 .. MaxSession /\ sess > old
    BY <1>2, <1>3, <1>4
  <2> HIDE DEF sess
  <2> QED
    BY <1>1, <2>1, StartOverOrder DEF old
<1>6. ASSUME NEW e \in Displays
      PROVE  StartsTrue(e)'
  <2>1. /\ session[e] <= 1 + restarts /\ session[e] \in Nat
    BY DEF PathOrder, StartsTrue, PathTypes, DisplayTypes
  <2>2. session'[e] = IF e = d THEN sess ELSE session[e]
    BY <1>1 DEF PathTypes, DisplayTypes
  <2>3. session'[e] <= 1 + restarts'
    BY <1>1, <1>2, <1>4, <2>1, <2>2
  <2>4. "boot" \in DisplayStarts => ~(restarts' < MaxRestarts)
    BY <1>1, <1>2, PathAssumption DEF SessionsHold
  <2> QED
    BY <2>3, <2>4 DEF StartsTrue
<1> QED
  BY <1>5, <1>6 DEF PathOrder

LEMMA RestartDisplayOrder ==
  ASSUME PathTypes, PathOrder, SequenceHolds, SessionsHold, "boot" \in DisplayStarts,
         NEW d \in Displays, RestartDisplay(d)
  PROVE  PathOrder'
<1> DEFINE old == session[d]
           count == boots[d] + 1
           sess == NextSession(count % MaxSession)
<1>1. PICK sp \in Setpoints : StartOver(d, Initially(sp), NextSession(boots'[d] % MaxSession))
  BY DEF RestartDisplay
<1>2. boots' = [boots EXCEPT ![d] = count] /\ boots'[d] = count /\ boots[d] \in Nat
  BY DEF RestartDisplay, PathTypes, DisplayTypes
<1>3. /\ StartOver(d, Initially(sp), sess)
      /\ restarts < MaxRestarts /\ restarts' = restarts + 1
      /\ session' = [session EXCEPT ![d] = sess]
  BY <1>1, <1>2 DEF StartOver
<1>4. old \in Nat /\ old <= 1 + restarts /\ restarts \in Nat /\ boots[d] = old - 1
  BY <1>3, PathAssumption DEF PathOrder, StartsTrue, PathTypes, DisplayTypes, HistoryTypes
<1>5. old < MaxSession /\ MaxSession \in Nat /\ count = old
  BY <1>2, <1>3, <1>4, PathAssumption, RingAssumption DEF SessionsHold
<1>6. sess = old + 1
  <2>1. count % MaxSession = old
    <3> HIDE DEF old, count
    <3> QED
      BY <1>4, <1>5
  <2> HIDE DEF count, old
  <2> QED
    BY <1>4, <1>5, <2>1 DEF NextSession
<1>7. \A e \in Displays : OrderTrue(e)'
  <2>1. sess \in 1 .. MaxSession /\ sess > old
    BY <1>4, <1>5, <1>6
  <2> HIDE DEF sess
  <2> QED
    BY <1>3, <2>1, InitiallyIs, StartOverOrder DEF old
<1>8. ASSUME NEW e \in Displays
      PROVE  StartsTrue(e)'
  <2>1. /\ session[e] <= 1 + restarts /\ session[e] \in Nat /\ boots[e] = session[e] - 1
    BY <1>3 DEF PathOrder, StartsTrue, PathTypes, DisplayTypes
  <2>2. /\ session'[e] = IF e = d THEN sess ELSE session[e]
        /\ boots'[e] = IF e = d THEN count ELSE boots[e]
    BY <1>2, <1>3 DEF PathTypes, DisplayTypes
  <2>3. session'[e] <= 1 + restarts' /\ boots'[e] = session'[e] - 1
    <3> HIDE DEF sess, count, old
    <3> QED
      BY <1>3, <1>4, <1>5, <1>6, <2>1, <2>2
  <2> QED
    BY <2>3 DEF StartsTrue
<1> QED
  BY <1>7, <1>8 DEF PathOrder

(* Applying a word that flies; the rest of the state is the caller's. *)
LEMMA ApplyWordOrder ==
  ASSUME PathTypes, PathOrder, NEW d \in Displays, NEW word \in Words, Flies(d, word),
         NEW viaMqtt, ApplyWord(d, word, viaMqtt), \A e \in Displays : Fewer(e),
         UNCHANGED <<sent, session, seq_local, boots, restarts>>
  PROVE  PathOrder'
<1>1. CASE UNCHANGED <<sources, applied>>
  BY <1>1, QuietOrder
<1>2. CASE /\ sources' = [e \in DOMAIN sources \union {d} |->
                            IF e = d THEN [seq |-> word.seq, session |-> word.session]
                            ELSE sources[e]]
           /\ applied' = [applied EXCEPT ![d] = [id |-> word.id, session |-> word.session,
                                                 turn |-> IF word.id = @.id THEN 1 - @.turn ELSE 0]]
  <2>1. \A e \in Displays : OrderTrue(e) /\ SameNumbers(e) /\ Fewer(e)
    BY DEF PathOrder, SameNumbers
  <2>2. OrderTrue(d)'
    <3>1. /\ d \in DOMAIN sources' /\ sources'[d] = [seq |-> word.seq, session |-> word.session]
          /\ applied'[d].id = word.id /\ applied'[d].session = word.session
      BY <1>2 DEF PathTypes, ControllerTypes
    <3> QED
      BY <2>1, <3>1, OrderApplied
  <2>3. ASSUME NEW e \in Displays, e # d
        PROVE  OrderTrue(e)'
    <3>1. SameTracker(e)
      BY <1>2, <2>3 DEF SameTracker, PathTypes, ControllerTypes
    <3> QED
      BY <2>1, <3>1, OrderKept
  <2> QED
    BY <2>2, <2>3, StartsKept DEF PathOrder
<1> QED
  BY <1>1, <1>2 DEF ApplyWord

LEMMA DrainRingOrder ==
  ASSUME PathTypes, PathOrder, DrainRing
  PROVE  PathOrder'
<1> DEFINE in == Head(ring)
<1>1. /\ ring # <<>> /\ ring' = Tail(ring) /\ air' = air /\ mqtt' = mqtt /\ last_word' = last_word
      /\ UNCHANGED <<sent, session, seq_local, boots, restarts>>
      /\ ApplyWord(in.from, in.word, FALSE) \/ UNCHANGED <<sources, applied>>
  BY DEF DrainRing, displayVars
<1>2. \A e \in Displays : Fewer(e)
  BY <1>1, FewerTail DEF PathTypes
<1>3. in.from \in Displays /\ in.word \in Words /\ in = ring[1] /\ 1 \in 1 .. Len(ring)
  BY <1>1, HeadIs DEF PathTypes, WayTypes
<1> HIDE DEF in
<1>4. Flies(in.from, in.word)
  BY <1>3 DEF Flies
<1>5. CASE ApplyWord(in.from, in.word, FALSE)
  BY <1>1, <1>2, <1>3, <1>4, <1>5, ApplyWordOrder
<1>6. CASE UNCHANGED <<sources, applied>>
  BY <1>1, <1>2, <1>6, QuietOrder
<1> QED
  BY <1>1, <1>5, <1>6

LEMMA DrainMqttOrder ==
  ASSUME PathTypes, PathOrder, DrainPackedCommand \/ LosePackedCommand
  PROVE  PathOrder'
<1> DEFINE in == Head(mqtt)
<1>1. /\ mqtt # <<>> /\ mqtt' = Tail(mqtt) /\ air' = air /\ ring' = ring /\ last_word' = last_word
      /\ UNCHANGED <<sent, session, seq_local, boots, restarts>>
      /\ ApplyWord(in.from, in.word, TRUE) \/ UNCHANGED <<sources, applied>>
  BY DEF DrainPackedCommand, LosePackedCommand, displayVars, controllerVars
<1>2. \A e \in Displays : Fewer(e)
  BY <1>1, FewerTail DEF PathTypes
<1>3. in.from \in Displays /\ in.word \in Words /\ in = mqtt[1] /\ 1 \in 1 .. Len(mqtt)
  BY <1>1, HeadIs DEF PathTypes, WayTypes
<1> HIDE DEF in
<1>4. Flies(in.from, in.word)
  BY <1>3 DEF Flies
<1>5. CASE ApplyWord(in.from, in.word, TRUE)
  BY <1>1, <1>2, <1>3, <1>4, <1>5, ApplyWordOrder
<1>6. CASE UNCHANGED <<sources, applied>>
  BY <1>1, <1>2, <1>6, QuietOrder
<1> QED
  BY <1>1, <1>5, <1>6

(* The controller forgets its trackers. *)
LEMMA ForgottenOrder ==
  ASSUME PathTypes, PathOrder, ResetRemoteSequence \/ RestartController
  PROVE  PathOrder'
<1>1. /\ restarts < MaxRestarts /\ restarts' = restarts + 1
      /\ UNCHANGED <<sent, session, seq_local, boots, air, last_word>>
      /\ DOMAIN sources' = {}
      /\ \/ ring' = <<>> /\ mqtt' = <<>>
         \/ ring' = ring /\ mqtt' = mqtt
  BY DEF ResetRemoteSequence, RestartController, displayVars
<1>2. \A e \in Displays : Fewer(e)
  BY <1>1 DEF Fewer, Flies
<1>3. ASSUME NEW e \in Displays
      PROVE  applied'[e].session = 0 /\ applied'[e].id <= sent[e]
  <2>1. applied[e].id <= sent[e] /\ sent[e] \in Nat
        /\ applied[e] \in [id : 0 .. MaxWords, session : 0 .. MaxSession, turn : {0, 1}]
    BY DEF PathOrder, OrderTrue, TrackerTrue, PathTypes, DisplayTypes, ControllerTypes
  <2>2. applied'[e] = NeverApplied \/ applied'[e] = [applied[e] EXCEPT !.session = 0]
    BY DEF ResetRemoteSequence, RestartController
  <2> QED
    BY <2>1, <2>2 DEF NeverApplied
<1>4. ASSUME NEW e \in Displays
      PROVE  OrderTrue(e)' /\ StartsTrue(e)'
  <2>1. OrderTrue(e) /\ StartsTrue(e) /\ SameNumbers(e) /\ Fewer(e)
    BY <1>1, <1>2 DEF PathOrder, SameNumbers
  <2>2. OrderTrue(e)'
    BY <1>1, <1>3, <2>1, OrderForgotten
  <2>3. restarts \in Nat /\ session[e] \in Nat /\ MaxRestarts \in Nat
    BY PathAssumption DEF PathTypes, DisplayTypes, HistoryTypes
  <2>4. StartsTrue(e)'
    BY <1>1, <2>1, <2>3 DEF StartsTrue
  <2> QED
    BY <2>2, <2>4
<1> QED
  BY <1>4 DEF PathOrder

LEMMA InitOrder ==
  Init => PathOrder
<1> SUFFICES ASSUME Init, NEW e \in Displays PROVE OrderTrue(e) /\ StartsTrue(e)
  BY DEF PathOrder
<1>1. \A w \in Words : ~Flies(e, w)
  BY DEF Init, Flies, Words, NoWord
<1>2. session[e] \in Nat /\ session[e] = 1 /\ restarts = 0 /\ boots[e] = 0 /\ seq_local[e] = 0
      /\ sent[e] = 0
  BY RingAssumption DEF Init, NextSession
<1>3. DOMAIN sources = {} /\ applied[e].session = 0 /\ applied[e].id = 0
  BY DEF Init, NeverApplied
<1> QED
  BY <1>1, <1>2, <1>3 DEF OrderTrue, SentTrue, TrackerTrue, StartsTrue

LEMMA HaSetIsHaWord ==
  ASSUME NEW f \in HaInputs, NEW value, HaSet(f, value)
  PROVE  \E set, sync, shown, base : HaWord(set, sync, shown, base)
<1>1. f \in Fields
  BY PathAssumption
<1>2. CASE f = "mode"
  BY <1>2 DEF HaSet
<1>3. CASE f = "fan"
  BY <1>3 DEF HaSet
<1>4. CASE f = "setpoint"
  BY <1>4 DEF HaSet
<1>5. CASE f = "filter"
  BY <1>5 DEF HaSet
<1> QED
  BY <1>1, <1>2, <1>3, <1>4, <1>5 DEF Fields

LEMMA NextOrder ==
  ASSUME SequenceHolds, SessionsHold
  PROVE  PathTypes /\ PathOrder /\ [Next]_vars => PathOrder'
<1> SUFFICES ASSUME PathTypes, PathOrder, [Next]_vars PROVE PathOrder'
  OBVIOUS
<1>1. CASE UNCHANGED vars
  <2>1. UNCHANGED <<air, ring, mqtt, last_word, sent, session, seq_local, boots, sources, applied,
                    restarts>>
    BY <1>1 DEF vars, displayVars, controllerVars
  <2> QED
    BY <2>1, FewerSame, QuietOrder
<1>2. CASE ControllerNext
  <2>1. ASSUME NEW f \in HaInputs, NEW value, HaSet(f, value)
        PROVE  \E set, sync, shown, base : HaWord(set, sync, shown, base)
    BY <2>1, HaSetIsHaWord
  <2>2. HaSync => \E set, sync, shown, base : HaWord(set, sync, shown, base)
    BY DEF HaSync
  <2> QED
    BY <1>2, <2>1, <2>2, DrainRingOrder, DrainMqttOrder, ElsewhereOrder, ForgottenOrder
       DEF ControllerNext
<1>3. ASSUME NEW d \in Displays, DisplayNext(d)
      PROVE  PathOrder'
  BY <1>3, SetLocalOrder, RequestSyncOrder, SendPendingOrder, SendCallbackOrder, PublishOrder,
     ElsewhereOrder, ResetLocalSequenceOrder, RestartDisplayOrder DEF DisplayNext
<1> QED
  BY <1>1, <1>2, <1>3 DEF Next

-----------------------------------------------------------------------------
(* What the controller takes and refuses. *)
SourcesFit == IsFiniteSet(Displays) /\ Cardinality(Displays) <= MaxSources

(* On the ring, half of which holds every number sent, newer means larger. *)
LEMMA NewerIsLarger ==
  ASSUME SequenceHolds, NEW a \in 1 .. MaxWords, NEW b \in 1 .. MaxWords
  PROVE  IsNewerSeq(a, b) <=> a < b
<1> DEFINE half == SeqSize \div 2
           gap == (b - a) % SeqSize
<1>1. /\ SeqSize \in Nat /\ MaxWords \in Nat /\ 2 * MaxWords <= SeqSize /\ a \in Nat /\ b \in Nat
      /\ a >= 1 /\ b >= 1 /\ a <= MaxWords /\ b <= MaxWords
  BY RingAssumption, PathAssumption DEF SequenceHolds
<1>2. half \in Nat /\ MaxWords <= half /\ 2 * half <= SeqSize
  BY <1>1
<1>3. gap = IF a <= b THEN b - a ELSE SeqSize + b - a
  <2>1. CASE a <= b
    <3>1. b - a \in 0 .. SeqSize - 1
      BY <1>1, <2>1
    <3> QED
      BY <1>1, <2>1, <3>1
  <2>2. CASE ~(a <= b)
    <3>1. SeqSize + (b - a) \in 0 .. SeqSize - 1
      BY <1>1, <2>2
    <3>2. (b - a) % SeqSize = SeqSize + (b - a)
      BY <1>1, <2>2, <3>1
    <3> QED
      BY <1>1, <2>2, <3>2
  <2> QED
    BY <2>1, <2>2
<1>4. IsNewerSeq(a, b) <=> gap \in 1 .. half
  BY DEF IsNewerSeq
<1> HIDE DEF gap, half
<1> QED
  BY <1>1, <1>2, <1>3, <1>4

(* Two numbers of one display compare as the controller compares them.     *)
LEMMA FlyingIsNewer ==
  ASSUME PathTypes, SequenceHolds, NEW d \in Displays, OrderTrue(d), d \in DOMAIN sources,
         NEW w \in Words, Flies(d, w)
  PROVE  /\ sources[d].seq # 0
         /\ IsNewerSeq(sources[d].seq, w.seq) <=> sources[d].seq < w.seq
<1>1. /\ w.seq >= 1 /\ w.seq <= w.id /\ w.id <= sent[d]
      /\ Stamp(d).seq >= 1 /\ Stamp(d).seq <= Stamp(d).id /\ applied[d].id <= sent[d]
  BY DEF OrderTrue, SentTrue, TrackerTrue
<1>2. /\ sent[d] \in 0 .. MaxWords /\ MaxWords \in Nat /\ w.seq \in Nat /\ w.id \in Nat
      /\ applied[d].id \in Nat
  BY PathAssumption DEF PathTypes, DisplayTypes, ControllerTypes, Words
<1>3. sources[d] \in Trackers
  BY DEF PathTypes, ControllerTypes
<1>4. sources[d].seq \in Nat /\ Stamp(d).seq = sources[d].seq /\ Stamp(d).id = applied[d].id
  BY <1>3 DEF Trackers, Stamp
<1>5. w.seq \in 1 .. MaxWords /\ sources[d].seq \in 1 .. MaxWords
  BY <1>1, <1>2, <1>4
<1> QED
  BY <1>5, NewerIsLarger

(* A word accepted within the session of its tracker is newer than the     *)
(* word that set it.                                                       *)
LEMMA AcceptedIsNewer ==
  ASSUME PathTypes, SequenceHolds, NEW d \in Displays, OrderTrue(d), NEW w \in Words,
         Flies(d, w), IsAccepted(d, w), applied[d].session # 0, w.session = applied[d].session
  PROVE  w.id > applied[d].id
<1>1. d \in DOMAIN sources /\ Stamp(d).session = applied[d].session /\ Agree(w, Stamp(d))
  BY DEF OrderTrue, TrackerTrue
<1>2. sources[d].session = w.session /\ Stamp(d).seq = sources[d].seq /\ Stamp(d).id = applied[d].id
  BY <1>1 DEF Stamp
<1>3. sources[d].seq # 0 /\ (IsNewerSeq(sources[d].seq, w.seq) <=> sources[d].seq < w.seq)
  BY <1>1, FlyingIsNewer
<1>4. sources[d].seq < w.seq
  BY <1>1, <1>2, <1>3 DEF IsAccepted, IsFresh
<1>5. w.id \in Nat /\ applied[d].id \in Nat /\ w.seq \in Nat /\ sources[d] \in Trackers
  BY <1>1 DEF Words, PathTypes, ControllerTypes
<1>6. sources[d].seq \in Nat
  BY <1>5 DEF Trackers
<1> QED
  BY <1>1, <1>2, <1>4, <1>5, <1>6 DEF Agree

(* A word newer than the last one applied is accepted. *)
LEMMA NewerIsAccepted ==
  ASSUME PathTypes, SequenceHolds, SourcesFit, NEW d \in Displays, OrderTrue(d), NEW w \in Words,
         Flies(d, w), w.id > applied[d].id
  PROVE  IsAccepted(d, w)
<1>1. CASE d \in DOMAIN sources
  <2>1. Agree(w, Stamp(d)) /\ Stamp(d).seq = sources[d].seq /\ Stamp(d).id = applied[d].id
        /\ Stamp(d).session = sources[d].session
    BY <1>1 DEF OrderTrue, TrackerTrue, Stamp
  <2>2. IsNewerSeq(sources[d].seq, w.seq) <=> sources[d].seq < w.seq
    BY <1>1, FlyingIsNewer
  <2>3. w.id \in Nat /\ applied[d].id \in Nat /\ w.seq \in Nat /\ sources[d] \in Trackers
        /\ w.session # 0
    BY <1>1 DEF Words, PathTypes, ControllerTypes
  <2>4. sources[d].seq \in Nat
    BY <2>3 DEF Trackers
  <2>5. w.session = sources[d].session => sources[d].seq < w.seq
    BY <2>1, <2>3, <2>4 DEF Agree
  <2> QED
    BY <1>1, <2>2, <2>3, <2>5 DEF IsAccepted, IsFresh
<1>2. CASE d \notin DOMAIN sources
  <2> DEFINE old == DOMAIN sources
  <2>1. IsFiniteSet(old) /\ old \subseteq Displays
    BY DEF PathTypes, ControllerTypes
  <2>2. Cardinality(old \union {d}) = Cardinality(old) + 1 /\ Cardinality(old) \in Nat
    BY <1>2, <2>1, FS_AddElement, FS_CardinalityType
  <2>3. old \union {d} \subseteq Displays
    BY <2>1
  <2>4. Cardinality(old \union {d}) <= Cardinality(Displays) /\ Cardinality(Displays) \in Nat
    BY <2>3, FS_Subset, FS_CardinalityType DEF SourcesFit
  <2> HIDE DEF old
  <2>5. Cardinality(old) < MaxSources
    BY <2>2, <2>4, PathAssumption DEF SourcesFit
  <2> QED
    BY <1>2, <2>5 DEF IsAccepted, old
<1> QED
  BY <1>1, <1>2

(* Only the controller's own steps change what is applied, and a word is   *)
(* drained from a queue it flew in.                                        *)
LEMMA AppliedOnlyBy ==
  ASSUME PathTypes, [Next]_vars, NEW d \in Displays, applied'[d] # applied[d],
         applied'[d].session = applied[d].session, applied[d].session # 0
  PROVE  \E w \in Words : Flies(d, w) /\ IsAccepted(d, w) /\ applied'[d].id = w.id
                          /\ applied'[d].session = w.session
<1>1. ASSUME NEW from \in Displays, NEW w \in Words, NEW viaMqtt, ApplyWord(from, w, viaMqtt),
             Flies(from, w)
      PROVE  Flies(d, w) /\ IsAccepted(d, w) /\ applied'[d].id = w.id /\ applied'[d].session = w.session
  <2>1. /\ IsAccepted(from, w)
        /\ applied' = [applied EXCEPT ![from] = [id |-> w.id, session |-> w.session,
                                                turn |-> IF w.id = @.id THEN 1 - @.turn ELSE 0]]
    BY <1>1 DEF ApplyWord
  <2>2. from = d
    BY <2>1 DEF PathTypes, ControllerTypes
  <2> QED
    BY <1>1, <2>1, <2>2 DEF PathTypes, ControllerTypes
<1>2. ASSUME NEW queue \in Seq(Envelopes), queue # <<>>
      PROVE  Head(queue) = queue[1] /\ 1 \in 1 .. Len(queue)
  BY <1>2
<1>3. CASE DrainRing
  <2>1. ring # <<>> /\ ring \in Seq(Envelopes) /\ ApplyWord(Head(ring).from, Head(ring).word, FALSE)
    BY <1>3 DEF DrainRing, PathTypes, WayTypes
  <2>2. Flies(Head(ring).from, Head(ring).word)
    BY <1>2, <2>1 DEF Flies
  <2> QED
    BY <1>1, <2>1, <2>2, HeadIs
<1>4. CASE DrainPackedCommand
  <2>1. mqtt # <<>> /\ mqtt \in Seq(Envelopes) /\ ApplyWord(Head(mqtt).from, Head(mqtt).word, TRUE)
    BY <1>4 DEF DrainPackedCommand, PathTypes, WayTypes
  <2>2. Flies(Head(mqtt).from, Head(mqtt).word)
    BY <1>2, <2>1 DEF Flies
  <2> QED
    BY <1>1, <2>1, <2>2, HeadIs
<1>5. CASE ResetRemoteSequence \/ RestartController
  <2>1. applied'[d] = NeverApplied \/ applied'[d] = [applied[d] EXCEPT !.session = 0]
    BY <1>5 DEF ResetRemoteSequence, RestartController
  <2>2. applied[d] \in [id : 0 .. MaxWords, session : 0 .. MaxSession, turn : {0, 1}]
    BY DEF PathTypes, ControllerTypes
  <2>3. applied'[d].session = 0
    BY <2>1, <2>2 DEF NeverApplied
  <2> QED
    BY <2>3
<1>6. applied' = applied \/ DrainRing \/ DrainPackedCommand \/ ResetRemoteSequence \/ RestartController
  <2>1. ASSUME NEW f \in HaInputs, NEW value, HaSet(f, value)
        PROVE  applied' = applied
    <3>1. f \in Fields
      BY PathAssumption
    <3> QED
      BY <2>1, <3>1 DEF HaSet, HaWord, Fields
  <2>2. HaSync => applied' = applied
    BY DEF HaSync, HaWord
  <2>3. ControllerNext => applied' = applied \/ DrainRing \/ DrainPackedCommand \/ ResetRemoteSequence
                                             \/ RestartController
    BY <2>1, <2>2 DEF ControllerNext, LosePackedCommand, SetCommandGate, controllerVars
  <2>4. ASSUME NEW e \in Displays, DisplayNext(e)
        PROVE  applied' = applied
    BY <2>4 DEF DisplayNext, SetLocal, RequestSync, SendPending, SendCallback, ResyncTracker,
       PublishPackedCommand, HearController, DebounceOver, ResetLocalSequence, RestartDisplay,
       StartOver, controllerVars
  <2> QED
    BY <2>3, <2>4 DEF Next, vars, controllerVars
<1> QED
  BY <1>3, <1>4, <1>5, <1>6

(* Within one session of a display, as far back as the controller knows of *)
(* it, no word is applied again and none after a newer one, whichever path *)
(* each copy took: for any displays, losses, duplicates and delays, while  *)
(* a display has not sent half the ring and its sessions do not repeat.    *)
THEOREM StaleAlwaysRejected ==
  ASSUME SequenceHolds, SessionsHold
  PROVE  Spec => StaleRejected
<1> DEFINE Older == \A d \in Displays :
                      applied'[d] # applied[d] /\ applied'[d].session = applied[d].session
                      /\ applied[d].session # 0
                        => applied'[d].id > applied[d].id
<1>1. PathTypes /\ PathOrder /\ [Next]_vars => [Older]_vars
  <2> SUFFICES ASSUME PathTypes, PathOrder, [Next]_vars, NEW d \in Displays,
                      applied'[d] # applied[d], applied'[d].session = applied[d].session,
                      applied[d].session # 0
               PROVE  applied'[d].id > applied[d].id
    OBVIOUS
  <2>1. PICK w \in Words : Flies(d, w) /\ IsAccepted(d, w) /\ applied'[d].id = w.id
                           /\ applied'[d].session = w.session
    BY AppliedOnlyBy
  <2>2. OrderTrue(d)
    BY DEF PathOrder
  <2> QED
    BY <2>1, <2>2, AcceptedIsNewer
<1>2. Init => PathTypes /\ PathOrder
  BY InitTypes, InitOrder
<1>3. PathTypes /\ PathOrder /\ [Next]_vars => (PathTypes /\ PathOrder)'
  BY NextTypes, NextOrder
<1> QED
  BY <1>1, <1>2, <1>3, PTL DEF Spec, StaleRejected

(* Only draining the ring takes a word from it, apart from a restart. *)
LEMMA TailOnlyByDrain ==
  ASSUME PathTypes, [Next]_vars, ring # <<>>, ring' = Tail(ring), restarts' = restarts
  PROVE  DrainRing
<1>1. ring \in Seq(Envelopes) /\ Len(ring) \in Nat /\ Len(ring') = Len(ring) - 1
  BY DEF PathTypes, WayTypes
<1>2. ring' # ring
  <2> SUFFICES ASSUME ring' = ring PROVE FALSE
    OBVIOUS
  <2>1. Len(ring') = Len(ring)
    OBVIOUS
  <2> QED
    BY <1>1, <2>1
<1>3. ASSUME NEW d \in Displays, NEW copies \in 0 .. 2, NEW ack, NEW called,
             SendCallback(d, copies, ack, called)
      PROVE  FALSE
  <2> DEFINE word == Head(air[d]).word
             fits == IF Len(ring) + copies > RingSize THEN RingSize - Len(ring) ELSE copies
             item == [from |-> d, word |-> word]
             new == [i \in 1 .. fits |-> item]
  <2>1. /\ ring' = ring \o new /\ air[d] # <<>> /\ air[d] \in Seq(Frames)
        /\ Len(ring) <= RingSize /\ RingSize \in Nat
    BY <1>3, PathAssumption DEF SendCallback, PathTypes, WayTypes
  <2>2. Head(air[d]) \in Frames
    BY <2>1
  <2>3. item \in Envelopes /\ fits \in Nat
    BY <1>1, <2>1, <2>2 DEF Frames, Envelopes
  <2> HIDE DEF item, fits
  <2>4. new \in Seq(Envelopes) /\ Len(new) = fits
    BY <2>3, CopiesAre
  <2> HIDE DEF new
  <2>5. Len(ring') = Len(ring) + fits
    BY <1>1, <2>1, <2>4, ConcatIs
  <2> QED
    BY <1>1, <2>3, <2>5
<1>4. ASSUME NEW f \in HaInputs, NEW value, HaSet(f, value)
      PROVE  FALSE
  <2>1. f \in Fields
    BY PathAssumption
  <2> QED
    BY <1>2, <1>4, <2>1 DEF HaSet, HaWord, Fields
<1>5. HaSync => FALSE
  BY <1>2 DEF HaSync, HaWord
<1>6. ControllerNext => DrainRing
  <2>1. restarts \in Nat
    BY PathAssumption DEF PathTypes, HistoryTypes
  <2>2. ResetRemoteSequence \/ RestartController => restarts' = restarts + 1
    BY DEF ResetRemoteSequence, RestartController
  <2>3. ~ResetRemoteSequence /\ ~RestartController
    BY <2>1, <2>2
  <2>4. ~DrainPackedCommand /\ ~LosePackedCommand /\ \A enabled \in BOOLEAN : ~SetCommandGate(enabled)
    BY <1>2 DEF DrainPackedCommand, LosePackedCommand, SetCommandGate
  <2> QED
    BY <1>4, <1>5, <2>3, <2>4 DEF ControllerNext
<1>7. ASSUME NEW d \in Displays, DisplayNext(d)
      PROVE  FALSE
  BY <1>2, <1>3, <1>7 DEF DisplayNext, SetLocal, RequestSync, SendPending, ResyncTracker,
     PublishPackedCommand, HearController, DebounceOver, ResetLocalSequence, RestartDisplay,
     StartOver
<1> QED
  BY <1>2, <1>6, <1>7 DEF Next, vars

(* A word newer than everything applied from its display is applied when   *)
(* the ring is drained, however often its sender started over: the codec   *)
(* promises that a reboot is not taken for a replay                        *)
(* (include/espnow_cmd_word.h:22).  It holds for any number of displays    *)
(* the controller has source slots for.                                    *)
THEOREM NewerAlwaysApplied ==
  ASSUME SequenceHolds, SessionsHold, SourcesFit
  PROVE  Spec => NewerWordApplied
<1> DEFINE Drained == \A d \in Displays :
                        (ring # <<>> /\ ring' = Tail(ring) /\ restarts' = restarts
                         /\ espnow_command_enabled /\ Head(ring).from = d
                         /\ Head(ring).word.id > applied[d].id)
                          => applied'[d].id = Head(ring).word.id
<1>1. PathTypes /\ PathOrder /\ [Next]_vars => [Drained]_vars
  <2> SUFFICES ASSUME PathTypes, PathOrder, [Next]_vars, NEW d \in Displays, ring # <<>>,
                      ring' = Tail(ring), restarts' = restarts, espnow_command_enabled,
                      Head(ring).from = d, Head(ring).word.id > applied[d].id
               PROVE  applied'[d].id = Head(ring).word.id
    OBVIOUS
  <2> DEFINE word == Head(ring).word
  <2>1. ApplyWord(d, word, FALSE)
    BY TailOnlyByDrain DEF DrainRing
  <2>2. word \in Words /\ ring \in Seq(Envelopes)
    BY HeadIs DEF PathTypes, WayTypes
  <2>3. Head(ring) = ring[1] /\ 1 \in 1 .. Len(ring)
    BY <2>2
  <2>4. Flies(d, word)
    BY <2>3 DEF Flies
  <2> HIDE DEF word
  <2>5. IsAccepted(d, word)
    BY <2>2, <2>4, NewerIsAccepted DEF PathOrder, word
  <2>6. applied' = [applied EXCEPT ![d] = [id |-> word.id, session |-> word.session,
                                           turn |-> IF word.id = @.id THEN 1 - @.turn ELSE 0]]
    BY <2>1, <2>5 DEF ApplyWord
  <2> QED
    BY <2>6 DEF PathTypes, ControllerTypes, word
<1>2. Init => PathTypes /\ PathOrder
  BY InitTypes, InitOrder
<1>3. PathTypes /\ PathOrder /\ [Next]_vars => (PathTypes /\ PathOrder)'
  BY NextTypes, NextOrder
<1> QED
  BY <1>1, <1>2, <1>3, PTL DEF Spec, NewerWordApplied

-----------------------------------------------------------------------------
(* The choices of the users.  A choice not yet applied is what the display *)
(* shows, is what every word that may still be sent or repeated says, and  *)
(* is owed, unconfirmed or in a frame the controller is about to drain.    *)
(* The setpoint is the exception: it is kept per mode, and a change of the *)
(* mode before its word is sent replaces the one that is sent.             *)
SetpointApart == ~({"mode", "setpoint"} \subseteq FieldInputs)

(* What settings show for a field. *)
Shown(s, f) ==
  CASE f = "mode" -> s.mode
    [] f = "fan" -> s.fan
    [] f = "setpoint" -> Target(s)
    [] f = "filter" -> TRUE

(* A word of the display waits in the controller's ring. *)
Waits(d, w) == \E i \in 1 .. Len(ring) : ring[i].from = d /\ ring[i].word = w

(* One of them will grant the choice of the field. *)
InRing(d, f) ==
  \E w \in Words : /\ Waits(d, w) /\ f \in w.set
                   /\ Carried(w, f) = want[d][f] /\ w.id # applied[d].id

WishTrue(d) ==
  \A f \in Fields : want[d][f] # Unset =>
    /\ f \in FieldInputs /\ Shown(local[d], f) = want[d][f]
    /\ last_word[d] # NoWord /\ f \in last_word[d].set =>
         Carried(last_word[d], f) = want[d][f] /\ last_word[d].id # applied[d].id
    /\ f \in pending[d].set \/ f \in unconfirmed[d].set \/ InRing(d, f)
    /\ tracked[d] = "delivered" =>
         f \in pending[d].set \/ InRing(d, f) \/ f \notin unconfirmed[d].set

(* The frame whose outcome is awaited is the last one and holds the last   *)
(* word; nothing is unconfirmed that is not awaited, reported or owed.     *)
Quiet(d) ==
  /\ pending[d] = NoOpts /\ unconfirmed[d] = NoOpts /\ tracked[d] = "none" /\ air[d] = <<>>
  /\ \A w \in Words : ~Waits(d, w)

TrackTrue(d) ==
  /\ \A i \in 1 .. Len(air[d]) : air[d][i].tracked =>
       /\ i = Len(air[d]) /\ tracked[d] = "pending" /\ air[d][i].word = last_word[d]
       /\ last_word[d].set = unconfirmed[d].set
  /\ tracked[d] = "none" => unconfirmed[d].set \subseteq pending[d].set
  /\ ~debounce[d] => Quiet(d)

Wished(d) == want[d] = [f \in Fields |-> want[d][f]]

PathWishes == \A d \in Displays : WishTrue(d) /\ TrackTrue(d) /\ Wished(d)

LEMMA QuietIsSettled ==
  ASSUME PathTypes, NEW d \in Displays
  PROVE  Settled(d) <=> Quiet(d)
<1>1. ring \in Seq(Envelopes) /\ DOMAIN ring = 1 .. Len(ring)
  BY DEF PathTypes, WayTypes
<1>2. \A i \in 1 .. Len(ring) : ring[i] \in Envelopes
  BY <1>1
<1>3. \A i \in 1 .. Len(ring) : ring[i].word \in Words
  BY <1>2 DEF Envelopes
<1>4. (\A i \in DOMAIN ring : ring[i].from # d) <=> (\A w \in Words : ~Waits(d, w))
  BY <1>1, <1>3 DEF Waits
<1> QED
  BY <1>4 DEF Settled, Quiet

LEMMA QuietWantsNothing ==
  ASSUME NEW d \in Displays, WishTrue(d), Wished(d), Quiet(d)
  PROVE  want[d] = NothingWanted
<1>1. \A f \in Fields : want[d][f] = Unset
  BY NoOptsIs DEF WishTrue, Quiet, InRing
<1>2. want[d] = [f \in Fields |-> want[d][f]]
  BY DEF Wished
<1> QED
  BY <1>1, <1>2 DEF NothingWanted

(* What an action of the controller leaves of a display. *)
SameDisplay(d) ==
  /\ local'[d] = local[d] /\ last_word'[d] = last_word[d] /\ pending'[d] = pending[d]
  /\ unconfirmed'[d] = unconfirmed[d] /\ tracked'[d] = tracked[d] /\ debounce'[d] = debounce[d]
  /\ air'[d] = air[d]

LEMMA TrackKept ==
  ASSUME NEW d \in Displays, TrackTrue(d), SameDisplay(d),
         \A w \in Words : Waits(d, w)' => Waits(d, w)
  PROVE  TrackTrue(d)'
BY DEF TrackTrue, SameDisplay, Quiet

(* The choices that remain are still in the ring, and not in a word just   *)
(* applied.                                                                *)
StillWished(d, f) ==
  /\ want'[d][f] = want[d][f]
  /\ InRing(d, f) => InRing(d, f)'
  /\ last_word[d] # NoWord /\ f \in last_word[d].set => last_word[d].id # applied'[d].id

LEMMA WishKept ==
  ASSUME NEW d \in Displays, WishTrue(d), SameDisplay(d),
         \A f \in Fields : want'[d][f] # Unset => StillWished(d, f)
  PROVE  WishTrue(d)'
<1> SUFFICES ASSUME NEW f \in Fields, want'[d][f] # Unset
             PROVE  /\ f \in FieldInputs /\ Shown(local'[d], f) = want'[d][f]
                    /\ last_word'[d] # NoWord /\ f \in last_word'[d].set =>
                         Carried(last_word'[d], f) = want'[d][f] /\ last_word'[d].id # applied'[d].id
                    /\ f \in pending'[d].set \/ f \in unconfirmed'[d].set \/ InRing(d, f)'
                    /\ tracked'[d] = "delivered" =>
                         f \in pending'[d].set \/ InRing(d, f)' \/ f \notin unconfirmed'[d].set
  BY DEF WishTrue
<1>1. StillWished(d, f)
  OBVIOUS
<1>2. Shown(local'[d], f) = Shown(local[d], f)
  BY DEF SameDisplay
<1>3. want[d][f] # Unset
  BY <1>1 DEF StillWished
<1> QED
  BY <1>1, <1>2, <1>3 DEF WishTrue, SameDisplay, StillWished

(* A display an action leaves alone. *)
LEMMA DisplayKept ==
  ASSUME NEW d \in Displays, WishTrue(d), TrackTrue(d), Wished(d), SameDisplay(d),
         want'[d] = want[d], applied'[d] = applied[d],
         \A w \in Words : Waits(d, w)' <=> Waits(d, w)
  PROVE  WishTrue(d)' /\ TrackTrue(d)' /\ Wished(d)'
<1>1. \A f \in Fields : want'[d][f] # Unset => StillWished(d, f)
  <2> SUFFICES ASSUME NEW f \in Fields, want'[d][f] # Unset PROVE StillWished(d, f)
    OBVIOUS
  <2>1. InRing(d, f) => InRing(d, f)'
    BY DEF InRing
  <2>2. last_word[d] # NoWord /\ f \in last_word[d].set => last_word[d].id # applied'[d].id
    BY DEF WishTrue
  <2> QED
    BY <2>1, <2>2 DEF StillWished
<1>2. Wished(d)'
  BY DEF Wished
<1> QED
  BY <1>1, <1>2, WishKept, TrackKept

-----------------------------------------------------------------------------
(* The choices, action by action: sending. *)
LEMMA CarriedIs ==
  ASSUME NEW d, NEW opts, NEW settled, NEW seq, NEW sess, NEW f \in Fields
  PROVE  Carried(WordOf(d, opts, settled, seq, sess), f) = Shown(settled, f)
<1>1. CASE f = "mode"
  BY <1>1 DEF Carried, WordOf, Shown
<1>2. CASE f = "fan"
  BY <1>2 DEF Carried, WordOf, Shown
<1>3. CASE f = "setpoint"
  BY <1>3 DEF Carried, WordOf, Shown
<1>4. CASE f = "filter"
  BY <1>4 DEF Carried, Shown
<1> QED
  BY <1>1, <1>2, <1>3, <1>4 DEF Fields

(* The choice is in the word just built, or in one already in the ring. *)
SentAlong(d, opts, f) ==
  /\ f \in FieldInputs /\ Shown(local'[d], f) = want'[d][f]
  /\ f \in opts.set \/ (want'[d][f] = want[d][f] /\ InRing(d, f))

LEMMA WishSent ==
  ASSUME PathTypes, NEW d \in Displays, OrderTrue(d), NEW opts, NEW open, NEW word \in Words,
         Numbered(d, word), Fates(d, opts, word, open), word.id = sent[d] + 1,
         word.set = opts.set, open.set \subseteq opts.set, applied' = applied, debounce'[d],
         \A w \in Words : Waits(d, w)' <=> Waits(d, w),
         \A f \in Fields : Carried(word, f) = Shown(local'[d], f),
         \A f \in Fields : want'[d][f] # Unset => SentAlong(d, opts, f)
  PROVE  WishTrue(d)' /\ TrackTrue(d)'
<1>1. last_word'[d] = word /\ sent[d] \in Nat /\ applied[d].id \in Nat /\ applied[d].id <= sent[d]
  BY PathAssumption DEF Numbered, PathTypes, DisplayTypes, ControllerTypes, OrderTrue, TrackerTrue
<1>2. /\ \/ pending'[d] = opts /\ unconfirmed'[d] = open /\ tracked'[d] = "none"
         \/ unconfirmed'[d] = opts /\ tracked'[d] \in {"pending", "failed"}
      /\ \/ air'[d] = Untracked(air[d])
         \/ /\ tracked'[d] = "pending" /\ unconfirmed'[d] = opts
            /\ air'[d] = Append(Untracked(air[d]), [word |-> word, tracked |-> TRUE])
  BY DEF Fates, Throttled, Accepted, Rejected, PathTypes, DisplayTypes, WayTypes
<1>3. ASSUME NEW f \in Fields, InRing(d, f), want'[d][f] = want[d][f]
      PROVE  InRing(d, f)'
  BY <1>3 DEF InRing
<1>4. WishTrue(d)'
  <2> SUFFICES ASSUME NEW f \in Fields, want'[d][f] # Unset
               PROVE  /\ f \in FieldInputs /\ Shown(local'[d], f) = want'[d][f]
                      /\ Carried(last_word'[d], f) = want'[d][f] /\ last_word'[d].id # applied'[d].id
                      /\ f \in pending'[d].set \/ f \in unconfirmed'[d].set \/ InRing(d, f)'
                      /\ tracked'[d] # "delivered"
    BY DEF WishTrue
  <2>1. SentAlong(d, opts, f) /\ Carried(word, f) = Shown(local'[d], f)
    OBVIOUS
  <2>2. word.id # applied[d].id
    BY <1>1
  <2>3. f \in opts.set \/ InRing(d, f)'
    BY <1>3, <2>1 DEF SentAlong
  <2> QED
    BY <1>1, <1>2, <2>1, <2>2, <2>3 DEF SentAlong
<1>5. TrackTrue(d)'
  <2> DEFINE frames == Untracked(air[d])
             frame == [word |-> word, tracked |-> TRUE]
  <2>1. air[d] \in Seq(Frames)
    BY DEF PathTypes, WayTypes
  <2>2. frames \in Seq(Frames) /\ \A i \in 1 .. Len(frames) : frames[i].tracked = FALSE
    BY <2>1, UntrackedIs
  <2>3. frame \in Frames /\ frame.word = word
    BY DEF Frames
  <2>4. air'[d] = frames \/ (air'[d] = Append(frames, frame) /\ tracked'[d] = "pending"
                             /\ unconfirmed'[d] = opts)
    BY <1>2
  <2> HIDE DEF frames, frame
  <2>5. ASSUME NEW i \in 1 .. Len(air'[d]), air'[d][i].tracked
        PROVE  /\ i = Len(air'[d]) /\ tracked'[d] = "pending" /\ air'[d][i].word = word
               /\ unconfirmed'[d] = opts
    <3>1. CASE air'[d] = frames
      BY <2>2, <2>5, <3>1
    <3>2. CASE air'[d] = Append(frames, frame) /\ tracked'[d] = "pending" /\ unconfirmed'[d] = opts
      <4>1. /\ Len(air'[d]) = Len(frames) + 1 /\ Len(frames) \in Nat
            /\ i \in 1 .. Len(frames) => air'[d][i] = frames[i]
            /\ i = Len(frames) + 1 => air'[d][i] = frame
        BY <2>2, <2>3, <3>2
      <4>2. i \notin 1 .. Len(frames)
        BY <2>2, <2>5, <4>1
      <4> QED
        BY <2>3, <3>2, <4>1, <4>2
    <3> QED
      BY <2>4, <3>1, <3>2
  <2>6. tracked'[d] = "none" => unconfirmed'[d].set \subseteq pending'[d].set
    BY <1>2
  <2> QED
    BY <1>1, <2>5, <2>6 DEF TrackTrue
<1> QED
  BY <1>4, <1>5

(* The other displays, while one sends. *)
LEMMA OthersSame ==
  ASSUME PathTypes, NEW d \in Displays, NEW opts, NEW word, NEW open, Numbered(d, word),
         Fates(d, opts, word, open), NEW e \in Displays, e # d,
         local'[e] = local[e], debounce'[e] = debounce[e]
  PROVE  SameDisplay(e)
BY DEF Numbered, Fates, Throttled, Accepted, Rejected, SameDisplay, PathTypes, DisplayTypes, WayTypes

(* A send of d, with what its caller does to d's settings and wishes. *)
LEMMA SendWishes ==
  ASSUME PathTypes, PathOrder, PathWishes, NEW d \in Displays, NEW opts \in Options,
         NEW seq \in 0 .. SeqSize - 1, NEW sess \in 1 .. MaxSession, NEW open,
         open.set \subseteq opts.set, local'[d] \in Settings,
         Send(d, opts, local'[d], seq, sess, open),
         ring' = ring, applied' = applied, debounce'[d],
         \A f \in Fields : want'[d][f] # Unset => SentAlong(d, opts, f),
         Wished(d)',
         \A e \in Displays : e # d => local'[e] = local[e] /\ debounce'[e] = debounce[e]
                                      /\ want'[e] = want[e]
  PROVE  PathWishes'
<1> DEFINE word == WordOf(d, opts, local'[d], seq, sess)
<1>1. Numbered(d, word) /\ Fates(d, opts, word, open)
  BY SendIs
<1>2. word \in Words
  BY <1>1, WordOfIs DEF Numbered, PathTypes
<1>3. word.id = sent[d] + 1 /\ word.set = opts.set
  BY DEF WordOf
<1>4. \A f \in Fields : Carried(word, f) = Shown(local'[d], f)
  BY CarriedIs
<1>5. \A e \in Displays : \A w \in Words : Waits(e, w)' <=> Waits(e, w)
  BY DEF Waits
<1> HIDE DEF word
<1>6. WishTrue(d)' /\ TrackTrue(d)'
  BY <1>1, <1>2, <1>3, <1>4, <1>5, WishSent DEF PathOrder
<1>7. ASSUME NEW e \in Displays, e # d
      PROVE  WishTrue(e)' /\ TrackTrue(e)' /\ Wished(e)'
  <2>1. SameDisplay(e)
    BY <1>1, <1>7, OthersSame
  <2>2. WishTrue(e) /\ TrackTrue(e) /\ Wished(e) /\ applied'[e] = applied[e] /\ want'[e] = want[e]
    BY <1>7 DEF PathWishes
  <2> QED
    BY <1>5, <2>1, <2>2, DisplayKept
<1> QED
  BY <1>6, <1>7 DEF PathWishes

(* transmit_command folds in whatever is owed or unconfirmed.              *)
LEMMA TransmitWishes ==
  ASSUME PathTypes, PathOrder, PathWishes, NEW d \in Displays, NEW requested \in Options,
         NEW owed \in Options, NEW open \in Options, local'[d] \in Settings,
         Transmit(d, requested, local'[d], owed, open),
         ring' = ring, applied' = applied, debounce'[d],
         \A f \in Fields : want'[d][f] # Unset =>
           /\ f \in FieldInputs /\ Shown(local'[d], f) = want'[d][f]
           /\ \/ f \in requested.set \/ f \in owed.set \/ f \in open.set
              \/ want'[d][f] = want[d][f] /\ InRing(d, f),
         Wished(d)',
         \A e \in Displays : e # d => local'[e] = local[e] /\ debounce'[e] = debounce[e]
                                      /\ want'[e] = want[e]
  PROVE  PathWishes'
<1> DEFINE opts == Merge(Merge(requested, owed), open)
           seq == NextSeq(seq_local[d])
           sess == session[d]
<1>1. opts \in Options /\ opts.set = (requested.set \union owed.set) \union open.set
  BY MergeIs
<1>2. Send(d, opts, local'[d], seq, sess, open)
  BY DEF Transmit
<1>3. seq \in 0 .. SeqSize - 1 /\ sess \in 1 .. MaxSession
  BY NumbersAre DEF PathTypes, DisplayTypes
<1> HIDE DEF opts, seq, sess
<1>4. \A f \in Fields : want'[d][f] # Unset => SentAlong(d, opts, f)
  BY <1>1 DEF SentAlong
<1>5. open.set \subseteq opts.set
  BY <1>1
<1> QED
  BY <1>1, <1>2, <1>3, <1>4, <1>5, SendWishes

LEMMA ChosenShows ==
  ASSUME DisplayTypes, NEW d \in Displays, NEW f \in FieldInputs, NEW value \in Choices(f)
  PROVE  /\ Shown(Chosen(d, f, value), f) = value
         /\ SetpointApart => \A g \in FieldInputs :
                               g # f => Shown(Chosen(d, f, value), g) = Shown(local[d], g)
<1> DEFINE old == local[d]
           new == Chosen(d, f, value)
<1>1. f \in Fields /\ FieldInputs \subseteq Fields /\ old \in Settings
  BY PathAssumption DEF DisplayTypes
<1>2. CASE f = "mode"
  <2>1. new = [old EXCEPT !.mode = value]
    BY <1>2 DEF Chosen
  <2> HIDE DEF new, old
  <2>2. /\ new.mode = value /\ new.fan = old.fan
    BY <1>1, <2>1 DEF Settings
  <2>3. ASSUME SetpointApart, NEW g \in FieldInputs, g # f
        PROVE  Shown(new, g) = Shown(old, g)
    <3>1. g = "fan" \/ g = "filter"
      BY <1>1, <1>2, <2>3 DEF SetpointApart, Fields
    <3> QED
      BY <2>2, <3>1 DEF Shown
  <2> QED
    BY <1>2, <2>2, <2>3 DEF Shown, new, old
<1>3. CASE f = "fan"
  <2>1. new = [old EXCEPT !.fan = value]
    BY <1>3 DEF Chosen
  <2> HIDE DEF new, old
  <2>2. /\ new.fan = value /\ new.mode = old.mode /\ new.heat = old.heat /\ new.cool = old.cool
    BY <1>1, <2>1 DEF Settings
  <2>3. Target(new) = Target(old)
    BY <2>2 DEF Target
  <2>4. ASSUME NEW g \in FieldInputs, g # f
        PROVE  Shown(new, g) = Shown(old, g)
    <3>1. g = "mode" \/ g = "setpoint" \/ g = "filter"
      BY <1>1, <1>3, <2>4 DEF Fields
    <3> QED
      BY <2>2, <2>3, <3>1 DEF Shown
  <2> QED
    BY <1>3, <2>2, <2>4 DEF Shown, new, old
<1>4. CASE f = "setpoint"
  <2>1. new = IF old.mode = "cool" THEN [old EXCEPT !.cool = value] ELSE [old EXCEPT !.heat = value]
    BY <1>4 DEF Chosen
  <2> HIDE DEF new, old
  <2>2. /\ new.fan = old.fan /\ new.mode = old.mode /\ Target(new) = value
    BY <1>1, <2>1 DEF Settings, Target
  <2>3. ASSUME SetpointApart, NEW g \in FieldInputs, g # f
        PROVE  Shown(new, g) = Shown(old, g)
    <3>1. g = "fan" \/ g = "filter"
      BY <1>1, <1>4, <2>3 DEF SetpointApart, Fields
    <3> QED
      BY <2>2, <3>1 DEF Shown
  <2> QED
    BY <1>4, <2>2, <2>3 DEF Shown, new, old
<1>5. CASE f = "filter"
  <2>1. new = old /\ value = TRUE
    BY <1>5 DEF Chosen, Choices
  <2> QED
    BY <1>5, <2>1 DEF Shown
<1> QED
  BY <1>1, <1>2, <1>3, <1>4, <1>5 DEF Fields

LEMMA SetLocalWishes ==
  ASSUME SetpointApart, PathTypes, PathOrder, PathWishes, NEW d \in Displays,
         NEW f \in FieldInputs, NEW value \in Choices(f), SetLocal(d, f, value)
  PROVE  PathWishes'
<1> DEFINE request == [set |-> {f}, sync |-> FALSE]
<1>1. /\ local' = [local EXCEPT ![d] = Chosen(d, f, value)]
      /\ Transmit(d, request, local'[d], pending[d], unconfirmed[d])
      /\ ring' = ring /\ applied' = applied
      /\ want' = [want EXCEPT ![d][f] = value] /\ debounce' = [debounce EXCEPT ![d] = TRUE]
  BY DEF SetLocal, controllerVars
<1>2. local'[d] = Chosen(d, f, value) /\ local'[d] \in Settings
  BY <1>1, ChosenIs DEF PathTypes, DisplayTypes
<1>3. request \in Options /\ f \in request.set /\ f \in Fields
  BY PathAssumption DEF Options
<1>4. /\ pending[d] \in Options /\ unconfirmed[d] \in Options /\ debounce'[d]
      /\ \A e \in Displays : e # d => local'[e] = local[e] /\ debounce'[e] = debounce[e]
                                      /\ want'[e] = want[e]
  BY <1>1 DEF PathTypes, DisplayTypes, HistoryTypes
<1>5. /\ want'[d] = [want[d] EXCEPT ![f] = value] /\ DOMAIN want[d] = Fields
      /\ WishTrue(d) /\ Wished(d)
  BY <1>1 DEF PathTypes, HistoryTypes, PathWishes
<1>6. Wished(d)'
  <2>1. want[d] = [g \in Fields |-> want[d][g]]
    BY <1>5 DEF Wished
  <2>2. want'[d] = [g \in Fields |-> IF g = f THEN value ELSE want[d][g]]
    BY <1>3, <1>5, <2>1
  <2> QED
    BY <2>2 DEF Wished
<1> HIDE DEF request
<1>7. ASSUME NEW g \in Fields, want'[d][g] # Unset
      PROVE  /\ g \in FieldInputs /\ Shown(local'[d], g) = want'[d][g]
             /\ \/ g \in request.set \/ g \in pending[d].set \/ g \in unconfirmed[d].set
                \/ want'[d][g] = want[d][g] /\ InRing(d, g)
  <2>1. CASE g = f
    <3>1. want'[d][g] = value
      BY <1>3, <1>5, <2>1
    <3>2. Shown(local'[d], f) = value
      BY <1>2, ChosenShows DEF PathTypes
    <3> QED
      BY <1>3, <2>1, <3>1, <3>2
  <2>2. CASE g # f
    <3>1. want'[d][g] = want[d][g]
      BY <1>5, <2>2
    <3>2. /\ g \in FieldInputs /\ Shown(local[d], g) = want[d][g]
          /\ g \in pending[d].set \/ g \in unconfirmed[d].set \/ InRing(d, g)
      BY <1>5, <1>7, <3>1 DEF WishTrue
    <3>3. Shown(local'[d], g) = Shown(local[d], g)
      BY <1>2, <2>2, <3>2, ChosenShows DEF PathTypes
    <3> QED
      BY <3>1, <3>2, <3>3
  <2> QED
    BY <2>1, <2>2
<1> QED
  BY <1>1, <1>2, <1>3, <1>4, <1>6, <1>7, TransmitWishes

LEMMA RequestSyncWishes ==
  ASSUME PathTypes, PathOrder, PathWishes, NEW d \in Displays, RequestSync(d)
  PROVE  PathWishes'
<1>1. /\ Transmit(d, SyncOpts, local[d], pending[d], unconfirmed[d]) /\ SyncOpts \in Options
      /\ ring' = ring /\ applied' = applied /\ want' = want /\ local' = local
      /\ debounce' = [debounce EXCEPT ![d] = TRUE]
  BY DEF RequestSync, controllerVars, SyncOpts, Options
<1>2. /\ pending[d] \in Options /\ unconfirmed[d] \in Options /\ local'[d] \in Settings
      /\ debounce'[d] /\ local'[d] = local[d]
      /\ \A e \in Displays : e # d => local'[e] = local[e] /\ debounce'[e] = debounce[e]
                                      /\ want'[e] = want[e]
  BY <1>1 DEF PathTypes, DisplayTypes
<1>3. WishTrue(d) /\ Wished(d)'
  BY <1>1 DEF PathWishes, Wished
<1>4. \A g \in Fields : want'[d][g] # Unset =>
        /\ g \in FieldInputs /\ Shown(local'[d], g) = want'[d][g]
        /\ \/ g \in SyncOpts.set \/ g \in pending[d].set \/ g \in unconfirmed[d].set
           \/ want'[d][g] = want[d][g] /\ InRing(d, g)
  BY <1>1, <1>3 DEF WishTrue
<1>5. Transmit(d, SyncOpts, local'[d], pending[d], unconfirmed[d])
  BY <1>1
<1> QED
  BY <1>1, <1>2, <1>3, <1>4, <1>5, TransmitWishes

LEMMA StartOverWishes ==
  ASSUME PathTypes, PathOrder, PathWishes, NEW d \in Displays, NEW settled \in Settings,
         NEW sess \in 1 .. MaxSession, StartOver(d, settled, sess)
  PROVE  PathWishes'
<1>1. SyncOpts \in Options /\ NextSeq(0) \in 0 .. SeqSize - 1 /\ NoOpts.set \subseteq SyncOpts.set
  BY NumbersAre, NoOptsIs DEF SyncOpts, Options
<1>2. /\ Send(d, SyncOpts, settled, NextSeq(0), sess, NoOpts) /\ ring' = ring /\ applied' = applied
      /\ local' = [local EXCEPT ![d] = settled] /\ debounce' = [debounce EXCEPT ![d] = TRUE]
      /\ want' = [want EXCEPT ![d] = NothingWanted]
  BY DEF StartOver, controllerVars
<1>3. /\ local'[d] = settled /\ debounce'[d] /\ want'[d] = NothingWanted
      /\ \A e \in Displays : e # d => local'[e] = local[e] /\ debounce'[e] = debounce[e]
                                      /\ want'[e] = want[e]
  BY <1>2 DEF PathTypes, DisplayTypes, HistoryTypes
<1>4. Wished(d)' /\ (\A f \in Fields : want'[d][f] = Unset)
  BY <1>3 DEF Wished, NothingWanted
<1>5. Send(d, SyncOpts, local'[d], NextSeq(0), sess, NoOpts) /\ local'[d] \in Settings
  BY <1>2, <1>3
<1> QED
  BY <1>1, <1>2, <1>3, <1>4, <1>5, SendWishes

LEMMA DisplayStartsWishes ==
  ASSUME PathTypes, PathOrder, PathWishes, NEW d \in Displays,
         ResetLocalSequence(d) \/ RestartDisplay(d)
  PROVE  PathWishes'
<1>1. CASE ResetLocalSequence(d)
  <2>1. local[d] \in Settings /\ session[d] \in Nat
    BY DEF PathTypes, DisplayTypes
  <2>2. NextSession(session[d]) \in 1 .. MaxSession
    BY <2>1, NumbersAre
  <2> QED
    BY <1>1, <2>1, <2>2, StartOverWishes DEF ResetLocalSequence
<1>2. CASE RestartDisplay(d)
  <2>1. PICK sp \in Setpoints : StartOver(d, Initially(sp), NextSession(boots'[d] % MaxSession))
    BY <1>2 DEF RestartDisplay
  <2>2. boots'[d] \in Nat
    BY <1>2 DEF RestartDisplay, PathTypes, DisplayTypes
  <2>3. NextSession(boots'[d] % MaxSession) \in 1 .. MaxSession
    BY <2>2, NumbersAre, RingAssumption
  <2> QED
    BY <2>1, <2>3, InitiallyIs, StartOverWishes
<1> QED
  BY <1>1, <1>2

LEMMA SendPendingWishes ==
  ASSUME PathTypes, PathOrder, PathWishes, NEW d \in Displays, SendPending(d)
  PROVE  PathWishes'
<1> DEFINE retry == MayRetry(d)
           open == IF retry \/ tracked[d] = "pending" THEN unconfirmed[d] ELSE NoOpts
           owed == IF retry THEN Merge(pending[d], unconfirmed[d]) ELSE pending[d]
           gone == tracked[d] = "failed" /\ ~retry
<1>1. /\ pending[d] \in Options /\ unconfirmed[d] \in Options /\ local[d] \in Settings
      /\ unconfirmed[d].sync => unconfirmed[d].set = {}
      /\ tracked[d] \in {"none", "pending", "failed", "delivered"}
      /\ WishTrue(d) /\ TrackTrue(d) /\ Wished(d)
  BY DEF PathTypes, DisplayTypes, PathWishes
<1>2. /\ open \in Options /\ owed \in Options
      /\ retry => owed.set = pending[d].set \union unconfirmed[d].set /\ open = unconfirmed[d]
      /\ ~retry => owed = pending[d]
      /\ ~retry /\ tracked[d] = "pending" => open = unconfirmed[d]
      /\ ~retry /\ tracked[d] # "pending" => open = NoOpts
  BY <1>1, MergeIs, NoOptsIs
<1>3. retry => tracked[d] = "failed" /\ unconfirmed[d] # NoOpts
  BY DEF MayRetry
<1>4. retry => owed # NoOpts
  BY <1>1, <1>3, MergeIs
<1>5. /\ \/ owed # NoOpts /\ Transmit(d, owed, local[d], owed, open)
         \/ /\ owed = NoOpts
            /\ tracked' = [tracked EXCEPT ![d] = IF @ = "pending" THEN @ ELSE "none"]
            /\ pending' = [pending EXCEPT ![d] = owed]
            /\ unconfirmed' = [unconfirmed EXCEPT ![d] = open]
            /\ last_word' = last_word /\ air' = air
      /\ want' = IF gone THEN [want EXCEPT ![d] = Forget(@, unconfirmed[d].set)] ELSE want
      /\ ring' = ring /\ applied' = applied /\ local' = local /\ debounce' = debounce
  BY DEF SendPending, controllerVars
<1> HIDE DEF retry, open, owed
<1>6. /\ want'[d] = IF gone THEN Forget(want[d], unconfirmed[d].set) ELSE want[d]
      /\ \A e \in Displays : e # d => want'[e] = want[e]
  BY <1>5 DEF PathTypes, HistoryTypes
<1> HIDE DEF gone
<1>7. ASSUME NEW f \in Fields, want'[d][f] # Unset
      PROVE  want'[d][f] = want[d][f] /\ want[d][f] # Unset /\ (gone => f \notin unconfirmed[d].set)
  <2>1. CASE gone
    <3>1. want'[d][f] = IF f \in unconfirmed[d].set THEN Unset ELSE want[d][f]
      BY <1>6, <2>1 DEF Forget
    <3> QED
      BY <1>7, <3>1
  <2>2. CASE ~gone
    BY <1>6, <1>7, <2>2
  <2> QED
    BY <2>1, <2>2
<1>8. ASSUME NEW f \in Fields, want'[d][f] # Unset
      PROVE  f \in owed.set \/ f \in open.set \/ InRing(d, f)
  <2>1. /\ f \in pending[d].set \/ f \in unconfirmed[d].set \/ InRing(d, f)
        /\ tracked[d] = "delivered" =>
             f \in pending[d].set \/ InRing(d, f) \/ f \notin unconfirmed[d].set
    BY <1>1, <1>7, <1>8 DEF WishTrue
  <2>2. tracked[d] = "none" => unconfirmed[d].set \subseteq pending[d].set
    BY <1>1 DEF TrackTrue
  <2>3. gone => f \notin unconfirmed[d].set
    BY <1>7, <1>8
  <2>4. tracked[d] = "failed" /\ ~retry => gone
    BY DEF gone
  <2> QED
    BY <1>1, <1>2, <2>1, <2>2, <2>3, <2>4
<1>9. Wished(d)'
  BY <1>1, <1>6 DEF Wished, Forget
<1>10. ~debounce[d] => pending[d] = NoOpts /\ unconfirmed[d] = NoOpts /\ tracked[d] = "none"
                       /\ ~retry /\ owed = NoOpts /\ open = NoOpts
  BY <1>1, <1>2, <1>3 DEF TrackTrue, Quiet
<1>11. CASE owed # NoOpts /\ Transmit(d, owed, local[d], owed, open)
  <2>1. /\ Transmit(d, owed, local'[d], owed, open) /\ local'[d] \in Settings /\ debounce'[d]
        /\ \A e \in Displays : e # d => local'[e] = local[e] /\ debounce'[e] = debounce[e]
                                        /\ want'[e] = want[e]
    BY <1>1, <1>5, <1>6, <1>10, <1>11
  <2>2. ASSUME NEW f \in Fields, want'[d][f] # Unset
        PROVE  /\ f \in FieldInputs /\ Shown(local'[d], f) = want'[d][f]
               /\ \/ f \in owed.set \/ f \in owed.set \/ f \in open.set
                  \/ want'[d][f] = want[d][f] /\ InRing(d, f)
    <3>1. f \in FieldInputs /\ Shown(local[d], f) = want[d][f] /\ want'[d][f] = want[d][f]
      BY <1>1, <1>7, <2>2 DEF WishTrue
    <3> QED
      BY <1>5, <1>8, <2>2, <3>1
  <2> QED
    BY <1>2, <1>5, <1>9, <2>1, <2>2, TransmitWishes
<1>12. CASE /\ owed = NoOpts
            /\ tracked' = [tracked EXCEPT ![d] = IF @ = "pending" THEN @ ELSE "none"]
            /\ pending' = [pending EXCEPT ![d] = owed]
            /\ unconfirmed' = [unconfirmed EXCEPT ![d] = open]
            /\ last_word' = last_word /\ air' = air
  <2>1. /\ tracked'[d] = IF tracked[d] = "pending" THEN "pending" ELSE "none"
        /\ pending'[d] = NoOpts /\ unconfirmed'[d] = open
    BY <1>12 DEF PathTypes, DisplayTypes
  <2>2. ~retry
    BY <1>4, <1>12
  <2>3. \A e \in Displays : \A w \in Words : Waits(e, w)' <=> Waits(e, w)
    BY <1>5 DEF Waits
  <2>4. WishTrue(d)'
    <3> SUFFICES ASSUME NEW f \in Fields, want'[d][f] # Unset
                 PROVE  /\ f \in FieldInputs /\ Shown(local'[d], f) = want'[d][f]
                        /\ last_word'[d] # NoWord /\ f \in last_word'[d].set =>
                             Carried(last_word'[d], f) = want'[d][f]
                             /\ last_word'[d].id # applied'[d].id
                        /\ f \in unconfirmed'[d].set \/ InRing(d, f)'
                        /\ tracked'[d] # "delivered"
      BY DEF WishTrue
    <3>1. want'[d][f] = want[d][f] /\ want[d][f] # Unset
      BY <1>7
    <3>2. InRing(d, f) => InRing(d, f)'
      BY <1>5, <2>3, <3>1 DEF InRing
    <3>3. f \in open.set \/ InRing(d, f)
      BY <1>8, <1>12, NoOptsIs
    <3> QED
      BY <1>1, <1>5, <1>12, <2>1, <3>1, <3>2, <3>3 DEF WishTrue
  <2>5. TrackTrue(d)'
    <3>1. ASSUME NEW i \in 1 .. Len(air'[d]), air'[d][i].tracked
          PROVE  /\ i = Len(air'[d]) /\ tracked'[d] = "pending" /\ air'[d][i].word = last_word'[d]
                 /\ last_word'[d].set = unconfirmed'[d].set
      BY <1>1, <1>2, <1>12, <2>1, <2>2, <3>1 DEF TrackTrue
    <3>2. tracked'[d] = "none" => unconfirmed'[d].set \subseteq pending'[d].set
      BY <1>2, <2>1, <2>2, NoOptsIs
    <3>3. ~debounce'[d] => Quiet(d)'
      BY <1>1, <1>5, <1>10, <1>12, <2>1, <2>3 DEF TrackTrue, Quiet
    <3> QED
      BY <3>1, <3>2, <3>3 DEF TrackTrue
  <2>6. ASSUME NEW e \in Displays, e # d
        PROVE  WishTrue(e)' /\ TrackTrue(e)' /\ Wished(e)'
    <3>1. SameDisplay(e)
      BY <1>5, <1>12, <2>6 DEF SameDisplay, PathTypes, DisplayTypes
    <3>2. WishTrue(e) /\ TrackTrue(e) /\ Wished(e) /\ applied'[e] = applied[e] /\ want'[e] = want[e]
      BY <1>5, <1>6, <2>6 DEF PathWishes
    <3> QED
      BY <2>3, <3>1, <3>2, DisplayKept
  <2> QED
    BY <1>9, <2>4, <2>5, <2>6 DEF PathWishes
<1> QED
  BY <1>5, <1>11, <1>12

(* What a send callback leaves waiting in the ring. *)
LEMMA CallbackWaits ==
  ASSUME WayTypes, NEW d \in Displays, NEW copies \in 0 .. 2, NEW ack, NEW called,
         SendCallback(d, copies, ack, called),
         NEW fits, fits = IF Len(ring) + copies > RingSize THEN RingSize - Len(ring) ELSE copies
  PROVE  /\ \A e \in Displays : \A w \in Words : Waits(e, w) => Waits(e, w)'
         /\ \A e \in Displays : e # d => \A w \in Words : Waits(e, w)' => Waits(e, w)
         /\ fits # 0 => \A w \in Words : w = Head(air[d]).word => Waits(d, w)'
<1> DEFINE word == Head(air[d]).word
           item == [from |-> d, word |-> word]
           new == [i \in 1 .. fits |-> item]
<1>1. /\ air[d] # <<>> /\ ring' = ring \o new
  BY DEF SendCallback
<1>2. /\ air[d] \in Seq(Frames) /\ ring \in Seq(Envelopes)
      /\ Len(ring) <= RingSize /\ RingSize \in Nat /\ Len(ring) \in Nat
  BY PathAssumption DEF WayTypes
<1>3. Head(air[d]) \in Frames
  BY <1>1, <1>2
<1>4. item \in Envelopes /\ item.from = d /\ item.word = word
  BY <1>3 DEF Frames, Envelopes
<1>5. fits \in Nat
  BY <1>2
<1> HIDE DEF item
<1>6. new \in Seq(Envelopes) /\ Len(new) = fits /\ \A i \in 1 .. fits : new[i] = item
  BY <1>4, <1>5, CopiesAre
<1> HIDE DEF new
<1>7. /\ Len(ring') = Len(ring) + fits
      /\ \A i \in 1 .. Len(ring') : \/ i \in 1 .. Len(ring) /\ ring'[i] = ring[i]
                                    \/ i - Len(ring) \in 1 .. fits /\ ring'[i] = item
  BY <1>1, <1>2, <1>5, <1>6, ConcatIs
<1>8. \A i \in 1 .. Len(ring) : i \in 1 .. Len(ring') /\ ring'[i] = ring[i]
  BY <1>2, <1>5, <1>7
<1>9. fits # 0 => Len(ring) + 1 \in 1 .. Len(ring') /\ ring'[Len(ring) + 1] = item
  BY <1>2, <1>5, <1>7
<1>10. \A e \in Displays : \A w \in Words : Waits(e, w) => Waits(e, w)'
  BY <1>8 DEF Waits
<1>11. \A e \in Displays : e # d => \A w \in Words : Waits(e, w)' => Waits(e, w)
  BY <1>4, <1>7 DEF Waits
<1>12. fits # 0 => \A w \in Words : w = word => Waits(d, w)'
  BY <1>4, <1>9 DEF Waits
<1> QED
  BY <1>10, <1>11, <1>12

LEMMA SendCallbackWishes ==
  ASSUME PathTypes, PathWishes, NEW d \in Displays, NEW copies \in 0 .. 2, NEW ack \in BOOLEAN,
         NEW called \in BOOLEAN, SendCallback(d, copies, ack, called)
  PROVE  PathWishes'
<1> DEFINE frame == Head(air[d])
           fits == IF Len(ring) + copies > RingSize THEN RingSize - Len(ring) ELSE copies
           lost == copies > 0 /\ fits = 0
           unchanged == ~frame.tracked \/ ~called
<1>1. /\ air[d] # <<>> /\ (ack => copies > 0) /\ air' = [air EXCEPT ![d] = Tail(@)]
      /\ tracked' = [tracked EXCEPT ![d] = IF unchanged THEN @
                                           ELSE IF ack THEN "delivered" ELSE "failed"]
      /\ want' = IF lost THEN [want EXCEPT ![d] = Forget(@, frame.word.set)] ELSE want
      /\ applied' = applied /\ local' = local /\ last_word' = last_word /\ pending' = pending
      /\ unconfirmed' = unconfirmed /\ debounce' = debounce
  BY DEF SendCallback, controllerVars
<1>2. /\ \A e \in Displays : \A w \in Words : Waits(e, w) => Waits(e, w)'
      /\ \A e \in Displays : e # d => \A w \in Words : Waits(e, w)' => Waits(e, w)
      /\ fits # 0 => \A w \in Words : w = frame.word => Waits(d, w)'
  <2> HIDE DEF fits
  <2> QED
    BY CallbackWaits DEF PathTypes, fits
<1>3. air[d] \in Seq(Frames) /\ air \in [Displays -> Seq(Frames)]
  BY DEF PathTypes, WayTypes
<1>4. frame = air[d][1] /\ Len(air[d]) \in Nat /\ 1 \in 1 .. Len(air[d]) /\ frame \in Frames
  BY <1>1, <1>3
<1>5. frame.word \in Words
  BY <1>4 DEF Frames
<1>6. WishTrue(d) /\ TrackTrue(d) /\ Wished(d)
      /\ tracked[d] \in {"none", "pending", "failed", "delivered"}
  BY DEF PathWishes, PathTypes, DisplayTypes
<1>7. /\ tracked'[d] = IF unchanged THEN tracked[d] ELSE IF ack THEN "delivered" ELSE "failed"
      /\ want'[d] = IF lost THEN Forget(want[d], frame.word.set) ELSE want[d]
      /\ \A e \in Displays : e # d => want'[e] = want[e] /\ tracked'[e] = tracked[e]
  BY <1>1 DEF PathTypes, DisplayTypes, HistoryTypes
<1>8. copies > 0 /\ fits = 0 => lost
  OBVIOUS
<1>9. ~unchanged => frame.tracked
  OBVIOUS
<1>10. frame.tracked => /\ Len(air[d]) = 1 /\ tracked[d] = "pending" /\ frame.word = last_word[d]
                        /\ last_word[d].set = unconfirmed[d].set
  BY <1>4, <1>6 DEF TrackTrue
<1> HIDE DEF frame, fits, lost, unchanged
<1>11. ASSUME NEW f \in Fields, want'[d][f] # Unset
       PROVE  want'[d][f] = want[d][f] /\ (lost => f \notin frame.word.set)
  <2>1. CASE lost
    <3>1. want'[d][f] = IF f \in frame.word.set THEN Unset ELSE want[d][f]
      BY <1>7, <2>1 DEF Forget
    <3> QED
      BY <1>11, <3>1
  <2>2. CASE ~lost
    BY <1>7, <2>2
  <2> QED
    BY <2>1, <2>2
<1>12. WishTrue(d)'
  <2> SUFFICES ASSUME NEW f \in Fields, want'[d][f] # Unset
               PROVE  /\ f \in FieldInputs /\ Shown(local'[d], f) = want'[d][f]
                      /\ last_word'[d] # NoWord /\ f \in last_word'[d].set =>
                           Carried(last_word'[d], f) = want'[d][f]
                           /\ last_word'[d].id # applied'[d].id
                      /\ f \in pending'[d].set \/ f \in unconfirmed'[d].set \/ InRing(d, f)'
                      /\ tracked'[d] = "delivered" =>
                           f \in pending'[d].set \/ InRing(d, f)' \/ f \notin unconfirmed'[d].set
    BY DEF WishTrue
  <2>1. want'[d][f] = want[d][f] /\ want[d][f] # Unset /\ (lost => f \notin frame.word.set)
    BY <1>11
  <2>2. InRing(d, f) => InRing(d, f)'
    BY <1>1, <1>2, <2>1 DEF InRing
  <2>3. /\ f \in FieldInputs /\ Shown(local[d], f) = want[d][f]
        /\ last_word[d] # NoWord /\ f \in last_word[d].set =>
             Carried(last_word[d], f) = want[d][f] /\ last_word[d].id # applied[d].id
        /\ f \in pending[d].set \/ f \in unconfirmed[d].set \/ InRing(d, f)
        /\ tracked[d] = "delivered" =>
             f \in pending[d].set \/ InRing(d, f) \/ f \notin unconfirmed[d].set
    BY <1>6, <2>1 DEF WishTrue
  <2>4. ASSUME ~unchanged, ack, f \in unconfirmed[d].set
        PROVE  InRing(d, f)'
    <3>1. frame.word = last_word[d] /\ f \in frame.word.set
      BY <1>9, <1>10, <2>4
    <3>2. fits # 0
      BY <1>1, <1>8, <2>1, <2>4, <3>1
    <3>3. frame.word # NoWord
      BY <1>5 DEF Words, NoWord
    <3>4. \A w \in Words : w = frame.word => /\ Waits(d, w)' /\ f \in w.set
                                             /\ Carried(w, f) = want'[d][f] /\ w.id # applied'[d].id
      BY <1>1, <1>2, <2>1, <2>3, <3>1, <3>2, <3>3
    <3> QED
      BY <1>5, <3>4 DEF InRing
  <2>5. tracked'[d] = "delivered" => tracked[d] = "delivered" \/ (~unchanged /\ ack)
    BY <1>7
  <2> QED
    BY <1>1, <2>1, <2>2, <2>3, <2>4, <2>5
<1>13. TrackTrue(d)'
  <2>1. ASSUME NEW i \in 1 .. Len(air'[d]), air'[d][i].tracked
        PROVE  /\ i = Len(air'[d]) /\ tracked'[d] = "pending" /\ air'[d][i].word = last_word'[d]
               /\ last_word'[d].set = unconfirmed'[d].set
    <3> DEFINE old == air[d]
    <3>1. air'[d] = Tail(old) /\ old \in Seq(Frames) /\ old # <<>>
      BY <1>1, <1>3
    <3> HIDE DEF old
    <3>2. /\ Len(air'[d]) = Len(old) - 1 /\ Len(old) \in Nat
          /\ i + 1 \in 1 .. Len(old) /\ air'[d][i] = old[i + 1]
      BY <3>1
    <3>3. i + 1 \in 1 .. Len(air[d]) /\ air[d][i + 1].tracked
      BY <2>1, <3>2 DEF old
    <3>4. /\ i + 1 = Len(air[d]) /\ tracked[d] = "pending" /\ air[d][i + 1].word = last_word[d]
          /\ last_word[d].set = unconfirmed[d].set
      BY <1>6, <3>3 DEF TrackTrue
    <3>5. unchanged
      BY <1>9, <1>10, <3>2, <3>4 DEF old
    <3> QED
      BY <1>1, <1>7, <3>2, <3>4, <3>5 DEF old
  <2>2. tracked'[d] = "none" => unconfirmed'[d].set \subseteq pending'[d].set
    BY <1>1, <1>6, <1>7 DEF TrackTrue
  <2>3. debounce'[d]
    BY <1>1, <1>6 DEF TrackTrue, Quiet
  <2> QED
    BY <2>1, <2>2, <2>3 DEF TrackTrue
<1>14. Wished(d)'
  BY <1>6, <1>7 DEF Wished, Forget
<1>15. ASSUME NEW e \in Displays, e # d
       PROVE  WishTrue(e)' /\ TrackTrue(e)' /\ Wished(e)'
  <2>1. SameDisplay(e)
    BY <1>1, <1>3, <1>7, <1>15 DEF SameDisplay
  <2>2. WishTrue(e) /\ TrackTrue(e) /\ Wished(e) /\ applied'[e] = applied[e] /\ want'[e] = want[e]
    BY <1>1, <1>7, <1>15 DEF PathWishes
  <2> QED
    BY <1>2, <1>15, <2>1, <2>2, DisplayKept
<1> QED
  BY <1>12, <1>13, <1>14, <1>15 DEF PathWishes

LEMMA HearingWishes ==
  ASSUME PathTypes, PathWishes, NEW d \in Displays,
         \/ ResyncTracker(d) \/ PublishPackedCommand(d) \/ HearController(d) \/ DebounceOver(d)
  PROVE  PathWishes'
<1>1. /\ ring' = ring /\ applied' = applied /\ want' = want /\ air' = air /\ last_word' = last_word
      /\ pending' = pending /\ unconfirmed' = unconfirmed
  BY DEF ResyncTracker, PublishPackedCommand, HearController, DebounceOver, displayVars, controllerVars
<1>2. \A e \in Displays : \A w \in Words : Waits(e, w)' <=> Waits(e, w)
  BY <1>1 DEF Waits
<1>3. ASSUME NEW e \in Displays, e # d \/ PublishPackedCommand(d)
      PROVE  WishTrue(e)' /\ TrackTrue(e)' /\ Wished(e)'
  <2>1. SameDisplay(e)
    BY <1>1, <1>3 DEF ResyncTracker, PublishPackedCommand, HearController, DebounceOver, displayVars,
                      SameDisplay, PathTypes, DisplayTypes
  <2>2. WishTrue(e) /\ TrackTrue(e) /\ Wished(e) /\ applied'[e] = applied[e] /\ want'[e] = want[e]
    BY <1>1 DEF PathWishes
  <2> QED
    BY <1>2, <2>1, <2>2, DisplayKept
<1>4. WishTrue(d) /\ TrackTrue(d) /\ Wished(d) /\ Wished(d)'
  BY <1>1 DEF PathWishes, Wished
<1>5. \A f \in Fields : InRing(d, f)' <=> InRing(d, f)
  BY <1>1, <1>2 DEF InRing
<1>6. CASE ResyncTracker(d)
  <2>1. local' = local /\ tracked'[d] = "failed" /\ tracked[d] = "pending" /\ air[d] = <<>>
        /\ debounce' = debounce
    BY <1>6 DEF ResyncTracker, PathTypes, DisplayTypes
  <2>2. WishTrue(d)'
    BY <1>1, <1>4, <1>5, <2>1 DEF WishTrue
  <2>3. debounce[d]
    BY <1>4, <2>1 DEF TrackTrue, Quiet
  <2>4. Len(air'[d]) = 0
    BY <1>1, <2>1
  <2>5. TrackTrue(d)'
    BY <2>1, <2>3, <2>4 DEF TrackTrue
  <2> QED
    BY <1>3, <1>4, <2>2, <2>5 DEF PathWishes
<1>7. CASE HearController(d)
  <2>1. ~debounce[d] /\ tracked' = tracked /\ debounce' = debounce
    BY <1>7 DEF HearController
  <2>2. want[d] = NothingWanted
    BY <1>4, <2>1, QuietWantsNothing DEF TrackTrue
  <2>3. WishTrue(d)'
    BY <1>1, <2>2 DEF WishTrue, NothingWanted
  <2>4. TrackTrue(d)'
    BY <1>1, <1>2, <1>4, <2>1 DEF TrackTrue, Quiet
  <2> QED
    BY <1>3, <1>4, <2>3, <2>4 DEF PathWishes
<1>8. CASE DebounceOver(d)
  <2>1. Quiet(d) /\ tracked' = tracked /\ local' = local
    BY <1>8, QuietIsSettled DEF DebounceOver
  <2>2. WishTrue(d)'
    BY <1>1, <1>4, <1>5, <2>1 DEF WishTrue
  <2>3. TrackTrue(d)'
    BY <1>1, <1>2, <1>4, <2>1 DEF TrackTrue, Quiet
  <2> QED
    BY <1>3, <1>4, <2>2, <2>3 DEF PathWishes
<1>9. CASE PublishPackedCommand(d)
  BY <1>3, <1>9 DEF PathWishes
<1> QED
  BY <1>6, <1>7, <1>8, <1>9

-----------------------------------------------------------------------------
(* The choices, action by action: the controller.  At most one word leaves *)
(* the ring, and none comes.                                               *)
OnlyLeaves(d, word) ==
  \A e \in Displays : \A w \in Words :
    /\ Waits(e, w)' => Waits(e, w)
    /\ Waits(e, w) => Waits(e, w)' \/ (e = d /\ w = word)

LEMMA TailWaits ==
  ASSUME WayTypes, ring # <<>>, ring' = Tail(ring)
  PROVE  \A e \in Displays : \A w \in Words :
           /\ Waits(e, w)' => Waits(e, w)
           /\ Waits(e, w) => Waits(e, w)' \/ (e = Head(ring).from /\ w = Head(ring).word)
<1>1. /\ ring \in Seq(Envelopes) /\ Len(ring) \in Nat /\ Len(ring') = Len(ring) - 1
      /\ Head(ring) = ring[1]
      /\ \A i \in 1 .. Len(ring') : i + 1 \in 1 .. Len(ring) /\ ring'[i] = ring[i + 1]
  BY DEF WayTypes
<1>2. \A i \in 1 .. Len(ring) : i = 1 \/ (i - 1 \in 1 .. Len(ring') /\ ring'[i - 1] = ring[i])
  BY <1>1
<1> QED
  BY <1>1, <1>2 DEF Waits

LEMMA SameWishes ==
  ASSUME PathWishes, \A e \in Displays : SameDisplay(e), want' = want, applied' = applied,
         ring' = ring
  PROVE  PathWishes'
<1> SUFFICES ASSUME NEW e \in Displays PROVE WishTrue(e)' /\ TrackTrue(e)' /\ Wished(e)'
  BY DEF PathWishes
<1>1. \A w \in Words : Waits(e, w)' <=> Waits(e, w)
  BY DEF Waits
<1>2. WishTrue(e) /\ TrackTrue(e) /\ Wished(e)
  BY DEF PathWishes
<1> QED
  BY <1>1, <1>2, DisplayKept

(* The wishes of d lose some fields; what waits of d loses one word. *)
LEMMA LessWished ==
  ASSUME PathTypes, PathWishes, NEW d \in Displays, NEW word \in Words,
         \A e \in Displays : SameDisplay(e),
         \A e \in Displays : e # d => want'[e] = want[e] /\ applied'[e] = applied[e],
         OnlyLeaves(d, word),
         Wished(d)',
         \A f \in Fields : want'[d][f] # Unset => StillWished(d, f)
  PROVE  PathWishes'
<1>1. WishTrue(d)' /\ TrackTrue(d)'
  <2>1. WishTrue(d) /\ TrackTrue(d) /\ SameDisplay(d)
    BY DEF PathWishes
  <2>2. \A w \in Words : Waits(d, w)' => Waits(d, w)
    BY DEF OnlyLeaves
  <2> QED
    BY <2>1, <2>2, WishKept, TrackKept
<1>2. ASSUME NEW e \in Displays, e # d
      PROVE  WishTrue(e)' /\ TrackTrue(e)' /\ Wished(e)'
  <2>1. WishTrue(e) /\ TrackTrue(e) /\ Wished(e)
    BY DEF PathWishes
  <2>2. \A w \in Words : Waits(e, w)' <=> Waits(e, w)
    BY <1>2 DEF OnlyLeaves
  <2> QED
    BY <1>2, <2>1, <2>2, DisplayKept
<1> QED
  BY <1>1, <1>2 DEF PathWishes

(* A word of d is dropped: the choices it carries are given up.            *)
LEMMA DroppedWishes ==
  ASSUME PathTypes, PathWishes, NEW d \in Displays, NEW word \in Words,
         \A e \in Displays : SameDisplay(e), applied' = applied,
         want' = [want EXCEPT ![d] = Forget(@, word.set)],
         OnlyLeaves(d, word)
  PROVE  PathWishes'
<1>1. want'[d] = Forget(want[d], word.set) /\ \A e \in Displays : e # d => want'[e] = want[e]
  BY DEF PathTypes, HistoryTypes
<1>2. Wished(d)'
  BY <1>1 DEF Wished, Forget
<1>3. ASSUME NEW f \in Fields, want'[d][f] # Unset
      PROVE  StillWished(d, f)
  <2>1. want'[d][f] = want[d][f] /\ f \notin word.set
    BY <1>1, <1>3 DEF Forget
  <2>2. InRing(d, f) => InRing(d, f)'
    BY <2>1 DEF InRing, OnlyLeaves
  <2>3. last_word[d] # NoWord /\ f \in last_word[d].set => last_word[d].id # applied'[d].id
    BY <1>3, <2>1 DEF PathWishes, WishTrue
  <2> QED
    BY <2>1, <2>2, <2>3 DEF StillWished
<1> QED
  BY <1>1, <1>2, <1>3, LessWished

LEMMA ApplyWordWishes ==
  ASSUME PathTypes, PathOrder, PathWishes, SequenceHolds, SourcesFit,
         NEW d \in Displays, NEW word \in Words, Flies(d, word),
         NEW viaMqtt, ApplyWord(d, word, viaMqtt), \A e \in Displays : SameDisplay(e),
         OnlyLeaves(d, word)
  PROVE  PathWishes'
<1>1. OrderTrue(d) /\ word.id \in Nat /\ applied[d].id \in Nat /\ Wished(d)
  BY DEF PathOrder, Words, PathTypes, ControllerTypes, PathWishes
<1>2. \A w \in Words : (Waits(d, w) \/ last_word[d] = w) /\ w.id = word.id => w = word
  BY <1>1 DEF OrderTrue, SentTrue, Flies, Waits
<1>3. CASE ~IsAccepted(d, word) /\ word.id < applied[d].id
  BY <1>3, DroppedWishes DEF ApplyWord
<1>4. CASE ~IsAccepted(d, word) /\ ~(word.id < applied[d].id)
  <2>1. want' = want /\ applied' = applied
    BY <1>4 DEF ApplyWord
  <2>2. word.id = applied[d].id
    BY <1>1, <1>4, NewerIsAccepted
  <2>3. ASSUME NEW f \in Fields, want'[d][f] # Unset
        PROVE  StillWished(d, f)
    <3>1. InRing(d, f) => InRing(d, f)'
      BY <2>1, <2>2 DEF InRing, OnlyLeaves
    <3>2. last_word[d] # NoWord /\ f \in last_word[d].set => last_word[d].id # applied'[d].id
      BY <2>1, <2>3 DEF PathWishes, WishTrue
    <3> QED
      BY <2>1, <3>1, <3>2 DEF StillWished
  <2>4. Wished(d)'
    BY <1>1, <2>1 DEF Wished
  <2> QED
    BY <2>1, <2>3, <2>4, LessWished
<1>5. CASE IsAccepted(d, word)
  <2>1. /\ want' = [want EXCEPT ![d] = Grant(@, word)]
        /\ applied' = [applied EXCEPT ![d] = [id |-> word.id, session |-> word.session,
                                              turn |-> IF word.id = @.id THEN 1 - @.turn ELSE 0]]
    BY <1>5 DEF ApplyWord
  <2>2. /\ want'[d] = Grant(want[d], word) /\ applied'[d].id = word.id
        /\ \A e \in Displays : e # d => want'[e] = want[e] /\ applied'[e] = applied[e]
    BY <2>1 DEF PathTypes, HistoryTypes, ControllerTypes
  <2>3. Wished(d)'
    BY <2>2 DEF Wished, Grant, Forget
  <2>4. ASSUME NEW f \in Fields, want'[d][f] # Unset
        PROVE  StillWished(d, f)
    <3>1. want'[d][f] = want[d][f] /\ want[d][f] # Unset
          /\ ~(f \in word.set /\ want[d][f] = Carried(word, f))
      <4> DEFINE granted == { g \in word.set : want[d][g] # Unset /\ want[d][g] = Carried(word, g) }
      <4>1. want'[d][f] = IF f \in granted THEN Unset ELSE want[d][f]
        BY <2>2 DEF Grant, Forget
      <4>2. f \notin granted
        BY <2>4, <4>1
      <4> QED
        BY <2>4, <4>1, <4>2
    <3>2. InRing(d, f) => InRing(d, f)'
      <4> SUFFICES ASSUME NEW w \in Words, Waits(d, w), f \in w.set, Carried(w, f) = want[d][f]
                   PROVE  InRing(d, f)'
        BY DEF InRing
      <4>1. w # word
        BY <3>1
      <4>2. w.id # word.id /\ Waits(d, w)'
        BY <1>2, <4>1 DEF OnlyLeaves
      <4> QED
        BY <2>2, <3>1, <4>2 DEF InRing
    <3>3. last_word[d] # NoWord /\ f \in last_word[d].set => last_word[d].id # applied'[d].id
      <4> SUFFICES ASSUME last_word[d] # NoWord, f \in last_word[d].set, last_word[d].id = word.id
                   PROVE  FALSE
        BY <2>2
      <4>1. last_word[d] \in Words
        BY DEF PathTypes, DisplayTypes
      <4>2. last_word[d] = word
        BY <1>2, <4>1
      <4>3. Carried(last_word[d], f) = want[d][f]
        BY <3>1 DEF PathWishes, WishTrue
      <4> QED
        BY <3>1, <4>2, <4>3
    <3> QED
      BY <3>1, <3>2, <3>3 DEF StillWished
  <2> QED
    BY <2>2, <2>3, <2>4, LessWished
<1> QED
  BY <1>3, <1>4, <1>5

LEMMA DrainRingWishes ==
  ASSUME PathTypes, PathOrder, PathWishes, SequenceHolds, SourcesFit, DrainRing
  PROVE  PathWishes'
<1> DEFINE from == Head(ring).from
           word == Head(ring).word
<1>1. /\ ring # <<>> /\ ring' = Tail(ring) /\ air' = air
      /\ local' = local /\ last_word' = last_word /\ pending' = pending
      /\ unconfirmed' = unconfirmed /\ tracked' = tracked /\ debounce' = debounce
      /\ \/ ApplyWord(from, word, FALSE)
         \/ want' = [want EXCEPT ![from] = Forget(@, word.set)] /\ applied' = applied
  BY DEF DrainRing, displayVars
<1>2. from \in Displays /\ word \in Words /\ ring[1].from = from /\ ring[1].word = word
      /\ 1 \in 1 .. Len(ring)
  <2>1. ring \in Seq(Envelopes)
    BY DEF PathTypes, WayTypes
  <2>2. Head(ring) = ring[1] /\ 1 \in 1 .. Len(ring)
    BY <1>1, <2>1
  <2> QED
    BY <1>1, <2>1, <2>2, HeadIs
<1>3. OnlyLeaves(from, word)
  BY <1>1, TailWaits DEF PathTypes, OnlyLeaves
<1>4. \A e \in Displays : SameDisplay(e)
  BY <1>1 DEF SameDisplay
<1> HIDE DEF from, word
<1>5. Flies(from, word)
  BY <1>2 DEF Flies
<1>6. CASE ApplyWord(from, word, FALSE)
  BY <1>2, <1>3, <1>4, <1>5, <1>6, ApplyWordWishes
<1>7. CASE want' = [want EXCEPT ![from] = Forget(@, word.set)] /\ applied' = applied
  BY <1>2, <1>3, <1>4, <1>7, DroppedWishes
<1> QED
  BY <1>1, <1>6, <1>7

LEMMA DrainPackedCommandWishes ==
  ASSUME PathTypes, PathOrder, PathWishes, SequenceHolds, SourcesFit, DrainPackedCommand
  PROVE  PathWishes'
<1> DEFINE from == Head(mqtt).from
           word == Head(mqtt).word
<1>1. /\ mqtt # <<>> /\ mqtt' = Tail(mqtt) /\ air' = air /\ ring' = ring
      /\ local' = local /\ last_word' = last_word /\ pending' = pending
      /\ unconfirmed' = unconfirmed /\ tracked' = tracked /\ debounce' = debounce
      /\ ApplyWord(from, word, TRUE)
  BY DEF DrainPackedCommand, displayVars
<1>2. from \in Displays /\ word \in Words /\ mqtt[1].from = from /\ mqtt[1].word = word
      /\ 1 \in 1 .. Len(mqtt)
  <2>1. mqtt \in Seq(Envelopes)
    BY DEF PathTypes, WayTypes
  <2>2. Head(mqtt) = mqtt[1] /\ 1 \in 1 .. Len(mqtt)
    BY <1>1, <2>1
  <2> QED
    BY <1>1, <2>1, <2>2, HeadIs
<1>3. OnlyLeaves(from, word)
  BY <1>1 DEF Waits, OnlyLeaves
<1>4. \A e \in Displays : SameDisplay(e)
  BY <1>1 DEF SameDisplay
<1> HIDE DEF from, word
<1>5. Flies(from, word)
  BY <1>2 DEF Flies
<1> QED
  BY <1>1, <1>2, <1>3, <1>4, <1>5, ApplyWordWishes

LEMMA ForgottenWishes ==
  ASSUME PathTypes, PathWishes, ResetRemoteSequence \/ RestartController
  PROVE  PathWishes'
<1>1. \A e \in Displays : SameDisplay(e)
  BY DEF ResetRemoteSequence, RestartController, displayVars, SameDisplay
<1> SUFFICES ASSUME NEW e \in Displays PROVE WishTrue(e)' /\ TrackTrue(e)' /\ Wished(e)'
  BY DEF PathWishes
<1>2. WishTrue(e) /\ TrackTrue(e) /\ Wished(e) /\ SameDisplay(e)
  BY <1>1 DEF PathWishes
<1>3. CASE ResetRemoteSequence
  <2>1. ring' = ring /\ want' = want /\ applied'[e].id = 0
    BY <1>3 DEF ResetRemoteSequence, NeverApplied
  <2>2. \A w \in Words : (Waits(e, w)' <=> Waits(e, w)) /\ w.id # 0
    BY <2>1 DEF Waits, Words
  <2>3. ASSUME NEW f \in Fields
        PROVE  StillWished(e, f)
    <3>1. InRing(e, f) => InRing(e, f)'
      BY <2>1, <2>2 DEF InRing
    <3>2. last_word[e] # NoWord => last_word[e].id # applied'[e].id
      BY <2>1, <2>2 DEF PathTypes, DisplayTypes
    <3> QED
      BY <2>1, <3>1, <3>2 DEF StillWished
  <2>4. Wished(e)'
    BY <1>2, <2>1 DEF Wished
  <2> QED
    BY <1>2, <2>2, <2>3, <2>4, WishKept, TrackKept
<1>4. CASE RestartController
  <2>1. ring' = <<>> /\ want'[e] = NothingWanted
    BY <1>4 DEF RestartController
  <2>2. \A w \in Words : ~Waits(e, w)'
    BY <2>1 DEF Waits
  <2>3. Wished(e)' /\ \A f \in Fields : want'[e][f] = Unset
    BY <2>1 DEF Wished, NothingWanted
  <2>4. WishTrue(e)'
    BY <2>3 DEF WishTrue
  <2> QED
    BY <1>2, <2>2, <2>3, <2>4, TrackKept
<1> QED
  BY <1>3, <1>4

LEMMA ElsewhereWishes ==
  ASSUME PathTypes, PathWishes,
         \/ LosePackedCommand
         \/ \E enabled \in BOOLEAN : SetCommandGate(enabled)
         \/ \E set, sync, shown, base : HaWord(set, sync, shown, base)
  PROVE  PathWishes'
<1>1. /\ ring' = ring /\ want' = want /\ applied' = applied
      /\ UNCHANGED <<local, last_word, pending, unconfirmed, tracked, debounce, air>>
  BY DEF LosePackedCommand, SetCommandGate, HaWord, displayVars, controllerVars
<1>2. \A e \in Displays : SameDisplay(e)
  BY <1>1 DEF SameDisplay
<1> QED
  BY <1>1, <1>2, SameWishes

LEMMA InitWishes ==
  Init => PathWishes
<1> SUFFICES ASSUME Init, NEW d \in Displays PROVE WishTrue(d) /\ TrackTrue(d) /\ Wished(d)
  BY DEF PathWishes
<1>1. want[d] = NothingWanted /\ \A f \in Fields : want[d][f] = Unset
  BY DEF Init, NothingWanted
<1>2. /\ pending[d] = NoOpts /\ unconfirmed[d] = NoOpts /\ tracked[d] = "none" /\ air[d] = <<>>
      /\ ring = <<>>
  BY DEF Init
<1>3. Quiet(d)
  BY <1>2 DEF Quiet, Waits
<1> QED
  BY <1>1, <1>2, <1>3 DEF WishTrue, TrackTrue, Wished, NothingWanted

LEMMA NextWishes ==
  ASSUME SequenceHolds, SourcesFit, SetpointApart
  PROVE  PathTypes /\ PathOrder /\ PathWishes /\ [Next]_vars => PathWishes'
<1> SUFFICES ASSUME PathTypes, PathOrder, PathWishes, [Next]_vars PROVE PathWishes'
  OBVIOUS
<1>1. CASE UNCHANGED vars
  <2>1. /\ ring' = ring /\ want' = want /\ applied' = applied
        /\ UNCHANGED <<local, last_word, pending, unconfirmed, tracked, debounce, air>>
    BY <1>1 DEF vars, displayVars, controllerVars
  <2>2. \A e \in Displays : SameDisplay(e)
    BY <2>1 DEF SameDisplay
  <2> QED
    BY <2>1, <2>2, SameWishes
<1>2. CASE ControllerNext
  <2>1. ASSUME NEW f \in HaInputs, NEW value, HaSet(f, value)
        PROVE  \E set, sync, shown, base : HaWord(set, sync, shown, base)
    BY <2>1, HaSetIsHaWord
  <2>2. HaSync => \E set, sync, shown, base : HaWord(set, sync, shown, base)
    BY DEF HaSync
  <2> QED
    BY <1>2, <2>1, <2>2, DrainRingWishes, DrainPackedCommandWishes, ElsewhereWishes,
       ForgottenWishes DEF ControllerNext
<1>3. ASSUME NEW d \in Displays, DisplayNext(d)
      PROVE  PathWishes'
  BY <1>3, SetLocalWishes, RequestSyncWishes, SendPendingWishes, SendCallbackWishes,
     HearingWishes, DisplayStartsWishes DEF DisplayNext
<1> QED
  BY <1>1, <1>2, <1>3 DEF Next

(* Once a display owes nothing and nothing of it is on the way, each of    *)
(* its users' latest choices has reached the controller, or the word that  *)
(* carried it was given up, found no room, was gated or was overtaken: for *)
(* any displays and any losses, duplicates and delays, unless both the     *)
(* mode and the setpoint are changed there.                                *)
(* (src/thermostat/thermostat_app.cpp:277, merge of what is unconfirmed)   *)
THEOREM NoChoiceEverLost ==
  ASSUME SequenceHolds, SessionsHold, SourcesFit, SetpointApart
  PROVE  Spec => []NoChoiceLost
<1>1. Init => PathTypes /\ PathOrder /\ PathWishes
  BY InitTypes, InitOrder, InitWishes
<1>2. PathTypes /\ PathOrder /\ PathWishes /\ [Next]_vars => (PathTypes /\ PathOrder /\ PathWishes)'
  BY NextTypes, NextOrder, NextWishes
<1>3. PathTypes /\ PathOrder /\ PathWishes => NoChoiceLost
  <2> SUFFICES ASSUME PathTypes, PathWishes, NEW d \in Displays, Settled(d)
               PROVE  want[d] = NothingWanted
    BY DEF NoChoiceLost
  <2>1. Quiet(d)
    BY QuietIsSettled
  <2> QED
    BY <2>1, QuietWantsNothing DEF PathWishes
<1> QED
  BY <1>1, <1>2, <1>3, PTL DEF Spec
=============================================================================
