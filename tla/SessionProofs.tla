---------------------------- MODULE SessionProofs ----------------------------
(***************************************************************************)
(* The ring of History implements the log of HistoryLog, for every size of *)
(* the ring, every set of texts, and every session of the shell that adds  *)
(* the commands it runs to it; failures reach the prompt; symbols keep     *)
(* their meaning, and `where' finds the nearest.                           *)
(***************************************************************************)
EXTENDS Session, ScanProofs, SequenceTheorems, TLAPS

Lines == Texts \cup {NULL}

RingType ==
  /\ hist_idx \in Slots
  /\ hist_count \in 0 .. CFG_HISTORY_SIZE
  /\ hist_pos \in 0 .. hist_count

LinesType ==
  /\ history \in [Slots -> Lines]
  /\ buf \in Lines

HType == RingType /\ LinesType

\* Slots: k commands back is k slots back, around the ring.
LEMMA WrapFacts ==
  ASSUME NEW i \in Slots, NEW k \in 0 .. CFG_HISTORY_SIZE
  PROVE  /\ Wrap(i - k + CFG_HISTORY_SIZE) \in Slots
         /\ Wrap(i - k + CFG_HISTORY_SIZE) = i <=> k = 0 \/ k = CFG_HISTORY_SIZE
         /\ Wrap(i + 1) \in Slots
         /\ k > 0 => Wrap(Wrap(i + 1) - k + CFG_HISTORY_SIZE)
                       = Wrap(i - (k - 1) + CFG_HISTORY_SIZE)
BY HistoryAssumption DEF Wrap, Slots

\* A slot counted back from the index is a slot, another one until once round.
LEMMA SlotFacts ==
  ASSUME RingType, NEW k \in 0 .. CFG_HISTORY_SIZE
  PROVE  /\ Slot(k) \in Slots
         /\ Slot(k) = hist_idx <=> k = 0 \/ k = CFG_HISTORY_SIZE
BY WrapFacts DEF Slot, RingType

\* Counting back and counting forward meet.
LEMMA Back1 ==
  ASSUME RingType, NEW k \in 1 .. hist_count
  PROVE  /\ k \in 0 .. CFG_HISTORY_SIZE
         /\ hist_count + 1 - k \in 1 .. hist_count
         /\ hist_count - k + 1 \in 1 .. hist_count
         /\ hist_count - k + 1 \in 0 .. CFG_HISTORY_SIZE
         /\ hist_count - (hist_count + 1 - k) + 1 = k
BY HistoryAssumption DEF RingType

\* The log as a sequence.
LoggedIs ==
  /\ Logged \in Seq(Lines)
  /\ Len(Logged) = hist_count
  /\ \A i \in 1 .. hist_count : Logged[i] = history[Slot(hist_count - i + 1)]

\* What the log read off the ring is.
LEMMA LoggedFacts == HType => LoggedIs
<1> SUFFICES ASSUME HType PROVE LoggedIs
  OBVIOUS
<1>1. hist_count \in Nat
  BY HistoryAssumption DEF HType, RingType
<1>2. ASSUME NEW i \in 1 .. hist_count PROVE history[Slot(hist_count - i + 1)] \in Lines
  <2>1. Slot(hist_count - i + 1) \in Slots
    BY Back1, SlotFacts DEF HType
  <2> QED
    BY <2>1 DEF HType, LinesType
<1>3. Logged \in [1 .. hist_count -> Lines]
  BY <1>2 DEF Logged
<1>4. Logged \in Seq(Lines)
  BY <1>1, <1>3, SeqDef
<1>5. Len(Logged) = hist_count
  BY <1>1, <1>3, <1>4, LenProperties
<1> QED
  BY <1>4, <1>5 DEF LoggedIs, Logged

\* The same after a step.
LEMMA LoggedFactsPrime == HType' => LoggedIs'
BY LoggedFacts, PTL

\* What the arrows show is what the log has there.
LEMMA BackFacts ==
  ASSUME HType, NEW k \in 1 .. hist_count
  PROVE  Log!Back(k) = history[Slot(k)]
<1>1. Log!Back(k) = Logged[hist_count + 1 - k]
  BY LoggedFacts DEF LoggedIs, Log!Back
<1>2. Logged[hist_count + 1 - k] = history[Slot(hist_count - (hist_count + 1 - k) + 1)]
  BY Back1, LoggedFacts DEF HType, LoggedIs
<1> QED
  BY <1>1, <1>2, Back1 DEF HType

\* An empty ring is an empty log.
LEMMA HInit == HistoryInit => HType /\ Log!Init
<1> SUFFICES ASSUME HistoryInit PROVE HType /\ Log!Init
  OBVIOUS
<1>1. RingType
  <2>1. hist_idx = 0 /\ hist_count = 0 /\ hist_pos = 0
    BY DEF HistoryInit
  <2> QED
    BY <2>1, HistoryAssumption DEF RingType, Slots
<1>2. LinesType
  BY DEF HistoryInit, LinesType, Lines, NULL
<1>3. Logged = <<>>
  BY <1>1, <1>2, LoggedFacts, EmptySeq DEF HType, LoggedIs, HistoryInit
<1> QED
  BY <1>1, <1>2, <1>3 DEF HType, HistoryInit, Log!Init

\* An arrow shows a command of the log and leaves the ring alone.
LEMMA SameRing ==
  ASSUME UNCHANGED <<history, hist_idx, hist_count>>
  PROVE  UNCHANGED Logged
BY DEF Logged, Slot

\* The arrow up, in the ring and in the log.
LEMMA UpStep ==
  ASSUME HType, UpArrow
  PROVE  HType' /\ Log!Up
<1>1. hist_pos' \in 1 .. hist_count /\ hist_count > 0
  BY HistoryAssumption DEF HType, RingType, UpArrow
<1>2. hist_pos' = IF hist_pos = hist_count THEN 1 ELSE hist_pos + 1
  BY HistoryAssumption DEF HType, RingType, UpArrow
<1>3. buf' = history[Slot(hist_pos')] /\ Slot(hist_pos') \in Slots
  BY <1>1, Back1, SlotFacts DEF HType, UpArrow, Slot
<1>4. RingType'
  BY <1>1, HistoryAssumption DEF HType, RingType, UpArrow
<1>5. LinesType'
  BY <1>3 DEF HType, LinesType, UpArrow, Slots
<1>6. Logged # <<>> /\ Len(Logged) = hist_count
  BY <1>1, LoggedFacts, EmptySeq DEF LoggedIs
<1>7. Log!Back(hist_pos') = history[Slot(hist_pos')]
  BY <1>1, BackFacts
<1>8. UNCHANGED <<Logged, ran>>
  BY SameRing DEF UpArrow
<1> QED
  BY <1>2, <1>3, <1>4, <1>5, <1>6, <1>7, <1>8 DEF HType, Log!Up

\* The arrow down, in the ring and in the log.
LEMMA DownStep ==
  ASSUME HType, DownArrow
  PROVE  HType' /\ Log!Down
<1>1. hist_pos > 0 /\ hist_pos' = hist_pos - 1 /\ hist_pos' \in 0 .. hist_count
  <2>1. hist_pos > 0 /\ hist_pos' = hist_pos - 1
    BY DEF DownArrow
  <2> QED
    BY <2>1, HistoryAssumption DEF HType, RingType
<1>2. UNCHANGED <<Logged, ran>>
  BY SameRing DEF DownArrow
<1>3. RingType'
  BY <1>1, HistoryAssumption DEF HType, RingType, DownArrow
<1>4. CASE hist_pos = 1
  <2>1. buf' = ""
    <3>1. hist_pos' = 0
      BY <1>1, <1>4
    <3> QED
      BY <3>1 DEF DownArrow
  <2>2. LinesType'
    BY <2>1 DEF HType, LinesType, Lines, NULL, DownArrow, Slots
  <2> QED
    BY <1>1, <1>2, <1>3, <1>4, <2>1, <2>2 DEF HType, Log!Down
<1>5. CASE hist_pos # 1
  <2>1. hist_pos - 1 \in 1 .. hist_count
    BY <1>1, <1>5, HistoryAssumption DEF HType, RingType
  <2>2. buf' = history[Slot(hist_pos - 1)] /\ Slot(hist_pos - 1) \in Slots
    <3>1. hist_pos' # 0
      BY <1>1, <2>1
    <3> QED
      BY <1>1, <2>1, <3>1, Back1, SlotFacts DEF HType, DownArrow, Slot
  <2>3. LinesType'
    BY <2>2 DEF HType, LinesType, DownArrow, Slots
  <2>4. Log!Back(hist_pos - 1) = history[Slot(hist_pos - 1)]
    BY <2>1, BackFacts
  <2> QED
    BY <1>1, <1>2, <1>3, <1>5, <2>2, <2>3, <2>4 DEF HType, Log!Down
<1> QED
  BY <1>4, <1>5

\* Typing, in the ring and in the log.
LEMMA TypeStep ==
  ASSUME HType, TypeText
  PROVE  HType' /\ Log!Type
<1>1. UNCHANGED <<Logged, ran>>
  BY SameRing DEF TypeText
<1>2. RingType'
  BY DEF HType, RingType, TypeText, Slots
<1>3. LinesType'
  BY DEF HType, LinesType, TypeText, Slots, Lines, NULL
<1> QED
  BY <1>1, <1>2, <1>3 DEF HType, TypeText, Log!Type

\* A command that is run becomes the last of the log, and pushes the oldest out.
LEMMA AddStep ==
  ASSUME HType, NEW cmd \in Texts, add_history(cmd), UNCHANGED buf
  PROVE  HType' /\ Log!Add(cmd)
<1>1. ran' = cmd
  BY DEF add_history
<1>2. CASE Repeated(cmd)
  <2>1. UNCHANGED <<history, hist_idx, hist_count, hist_pos>>
    BY <1>2 DEF add_history
  <2>2. hist_pos \in 1 .. hist_count
    <3>1. Slot(hist_pos) # hist_idx
      BY <1>2 DEF Repeated
    <3>2. hist_pos \in 0 .. CFG_HISTORY_SIZE
      BY HistoryAssumption DEF HType, RingType
    <3>3. hist_pos # 0
      BY <3>1, <3>2, SlotFacts DEF HType
    <3> QED
      BY <3>3, HistoryAssumption DEF HType, RingType
  <2>3. Log!Back(hist_pos) = cmd
    BY <1>2, <2>2, BackFacts DEF Repeated
  <2>4. UNCHANGED Logged
    BY <2>1, SameRing
  <2>5. HType'
    BY <2>1 DEF HType, RingType, LinesType, Slots
  <2>6. hist_pos > 0
    BY <2>2, HistoryAssumption DEF HType, RingType
  <2> QED
    BY <1>1, <2>1, <2>3, <2>4, <2>5, <2>6 DEF Log!Add
<1>3. CASE ~ Repeated(cmd)
  <2>1. /\ history' = [history EXCEPT ![hist_idx] = cmd]
        /\ hist_idx' = Wrap(hist_idx + 1)
        /\ hist_count' = IF hist_count < CFG_HISTORY_SIZE THEN hist_count + 1 ELSE hist_count
        /\ hist_pos' = 0
    BY <1>3 DEF add_history
  <2>2. /\ hist_idx \in Slots
        /\ hist_count \in Nat
        /\ hist_count <= CFG_HISTORY_SIZE
        /\ CFG_HISTORY_SIZE \in Nat
        /\ CFG_HISTORY_SIZE > 0
    BY HistoryAssumption DEF HType, RingType
  <2>3. RingType'
    <3>1. Wrap(hist_idx + 1) \in Slots
      BY <2>2, WrapFacts
    <3>2. hist_count' \in 0 .. CFG_HISTORY_SIZE
      BY <2>1, <2>2
    <3> QED
      BY <2>1, <2>2, <3>1, <3>2 DEF RingType
  <2>4. LinesType'
    BY <2>1 DEF HType, LinesType, Lines
  <2>5. HType'
    BY <2>3, <2>4 DEF HType
  <2>6. Logged' \in Seq(Lines) /\ Len(Logged') = hist_count'
    BY <2>5, LoggedFactsPrime DEF LoggedIs
  <2>7. ASSUME NEW i \in 1 .. hist_count'
        PROVE  Logged'[i] = IF i = hist_count' THEN cmd ELSE history[Slot(hist_count' - i)]
    <3>1. Logged'[i] = history'[Wrap(hist_idx' - (hist_count' - i + 1) + CFG_HISTORY_SIZE)]
      BY <2>5, LoggedFactsPrime DEF LoggedIs, Slot
    <3>2. /\ hist_count' - i + 1 \in 0 .. CFG_HISTORY_SIZE
          /\ hist_count' - i + 1 > 0
          /\ hist_count' - i \in 0 .. CFG_HISTORY_SIZE
          /\ hist_count' - i # CFG_HISTORY_SIZE
          /\ (hist_count' - i + 1) - 1 = hist_count' - i
          /\ hist_count' - i = 0 <=> i = hist_count'
      BY <2>1, <2>2
    <3>3. Wrap(hist_idx' - (hist_count' - i + 1) + CFG_HISTORY_SIZE) = Slot(hist_count' - i)
      BY <2>1, <2>2, <3>2, WrapFacts DEF Slot
    <3>4. Slot(hist_count' - i) \in Slots /\ (Slot(hist_count' - i) = hist_idx <=> i = hist_count')
      BY <3>2, SlotFacts DEF HType
    <3> QED
      BY <2>1, <3>1, <3>3, <3>4 DEF HType, LinesType
  <2> cmd \in Lines
    BY DEF Lines
  <2>8. CASE hist_count < CFG_HISTORY_SIZE
    <3> DEFINE t == Append(Logged, cmd)
    <3>1. Logged \in Seq(Lines) /\ Len(Logged) = hist_count
      BY LoggedFacts DEF LoggedIs
    <3>2. /\ t \in Seq(Lines) /\ Len(t) = hist_count + 1
          /\ \A i \in 1 .. hist_count : t[i] = Logged[i]
          /\ t[hist_count + 1] = cmd
      BY <3>1, AppendProperties
    <3>3. ASSUME NEW i \in 1 .. Len(Logged') PROVE Logged'[i] = t[i]
      <4>1. i \in 1 .. hist_count' /\ hist_count' = hist_count + 1
        BY <2>1, <2>6, <2>8
      <4>2. CASE i = hist_count'
        BY <2>7, <3>2, <4>1, <4>2
      <4>3. CASE i # hist_count'
        <5>1. i \in 1 .. hist_count /\ hist_count' - i = hist_count - i + 1
          BY <2>2, <4>1, <4>3
        <5> QED
          BY <2>7, <3>2, <4>1, <4>3, <5>1, LoggedFacts DEF LoggedIs
      <4> QED
        BY <4>2, <4>3
    <3>4. Len(Logged') = Len(t)
      BY <2>1, <2>6, <2>8, <3>2
    <3>5. Logged' = t
      BY <2>6, <3>2, <3>3, <3>4, SeqEqual
    <3> QED
      BY <1>1, <2>1, <2>5, <2>8, <3>1, <3>5 DEF Log!Add
  <2>9. CASE hist_count = CFG_HISTORY_SIZE
    <3> DEFINE u == Tail(Logged)
    <3> DEFINE t == Append(u, cmd)
    <3>1. Logged \in Seq(Lines) /\ Len(Logged) = hist_count /\ Logged # <<>>
      BY <2>2, <2>9, LoggedFacts, EmptySeq DEF LoggedIs
    <3>2. /\ u \in Seq(Lines) /\ Len(u) = hist_count - 1
          /\ \A i \in 1 .. hist_count - 1 : u[i] = Logged[i + 1]
      BY <3>1, HeadTailProperties
    <3>3. /\ t \in Seq(Lines) /\ Len(t) = (hist_count - 1) + 1
          /\ \A i \in 1 .. hist_count - 1 : t[i] = u[i]
          /\ t[(hist_count - 1) + 1] = cmd
      <4> HIDE DEF u
      <4> QED
        BY <3>2, AppendProperties
    <3>4. hist_count' = hist_count /\ (hist_count - 1) + 1 = hist_count
      BY <2>1, <2>2, <2>9
    <3> HIDE DEF t, u
    <3>5. ASSUME NEW i \in 1 .. Len(Logged') PROVE Logged'[i] = t[i]
      <4>1. i \in 1 .. hist_count
        BY <2>6, <3>4
      <4>2. CASE i = hist_count
        BY <2>7, <3>3, <3>4, <4>1, <4>2
      <4>3. CASE i # hist_count
        <5>1. /\ i \in 1 .. hist_count - 1 /\ i + 1 \in 1 .. hist_count
              /\ hist_count - i = hist_count - (i + 1) + 1
          BY <2>2, <4>1, <4>3
        <5>2. Logged[i + 1] = history[Slot(hist_count - (i + 1) + 1)]
          BY <5>1, LoggedFacts DEF LoggedIs
        <5> QED
          BY <2>7, <3>2, <3>3, <3>4, <4>1, <4>3, <5>1, <5>2
      <4> QED
        BY <4>2, <4>3
    <3>6. Len(Logged') = Len(t)
      BY <2>6, <3>3, <3>4
    <3>7. Logged' = t
      BY <2>6, <3>3, <3>5, <3>6, SeqEqual
    <3>8. ~ (Len(Logged) < CFG_HISTORY_SIZE)
      BY <2>2, <2>9, <3>1
    <3> QED
      BY <1>1, <2>1, <2>5, <3>7, <3>8 DEF Log!Add, t, u
  <2> QED
    BY <2>2, <2>8, <2>9
<1> QED
  BY <1>2, <1>3

------------------------------------------------------------------------------
(* The shell.  What it runs are texts, which is all the log asks for.      *)

Frames == [kind : {"list", "script"}, rest : Seq(Texts)]

SInv == HType /\ stack \in Seq(Frames)

\* A list of commands is a frame.
LEMMA ListType == ASSUME NEW line \in Texts PROVE List(line) \in Frames
<1>1. Pieces[line] \in Seq(Texts)
  BY SessionAssumption, Zenon
<1> QED
  BY <1>1 DEF List, Frames

\* A script is a frame.
LEMMA ScriptType == ASSUME NEW name \in DOMAIN Scripts PROVE Script(name) \in Frames
<1>1. Scripts[name] \in Seq(Texts)
  BY SessionAssumption, Zenon
<1> QED
  BY <1>1 DEF Script, Frames

\* The stack has a top and what is below it.
LEMMA TopType ==
  ASSUME stack \in Seq(Frames), stack # <<>>
  PROVE  Top \in Frames /\ Len(stack) \in 1 .. Len(stack) /\ Front(stack) \in Seq(Frames)
<1>1. Len(stack) \in 1 .. Len(stack)
  BY EmptySeq
<1>2. Top \in Frames
  BY <1>1, ElementOfSeq DEF Top, Last
<1>3. Front(stack) \in Seq(Frames)
  BY <1>1 DEF Front
<1> QED
  BY <1>1, <1>2, <1>3

\* What a frame runs next is a line.
LEMMA HeadType ==
  ASSUME SInv, NEW k, Calling(k)
  PROVE  Head(Top.rest) \in Texts /\ Popped \in Seq(Frames)
<1>1. Top \in Frames /\ Len(stack) \in 1 .. Len(stack)
  BY TopType DEF SInv, Calling
<1>2. Top.rest \in Seq(Texts) /\ Top.rest # <<>> /\ Top.kind \in {"list", "script"}
  BY <1>1 DEF Frames, Calling, GoesOn
<1>3. Head(Top.rest) \in Texts /\ Tail(Top.rest) \in Seq(Texts)
  BY <1>2, HeadTailProperties
<1>4. [kind |-> Top.kind, rest |-> Tail(Top.rest)] \in Frames
  BY <1>2, <1>3 DEF Frames
<1>5. Popped \in Seq(Frames)
  BY <1>1, <1>4, ExceptSeq DEF Popped, SInv
<1> QED
  BY <1>3, <1>5

\* A call leaves a stack of frames.
LEMMA BeginType ==
  ASSUME NEW line \in Lines, NEW frames \in Seq(Frames), Begin(line, frames)
  PROVE  stack' \in Seq(Frames)
<1>1. CASE line = ""
  BY <1>1 DEF Begin
<1>2. CASE line # ""
  <2>1. List(line) \in Frames
    BY <1>2, ListType DEF Lines, NULL
  <2>2. Append(frames, List(line)) \in Seq(Frames)
    BY <2>1, AppendProperties
  <2> QED
    BY <1>2, <2>2 DEF Begin
<1> QED
  BY <1>1, <1>2

\* What leaves the ring alone leaves the log alone.
LEMMA HSame == ASSUME HType, UNCHANGED hvars PROVE HType' /\ UNCHANGED Log!lvars
<1>1. UNCHANGED Logged
  BY SameRing DEF hvars
<1>2. RingType' /\ LinesType'
  BY DEF HType, RingType, LinesType, hvars, Slots
<1> QED
  BY <1>1, <1>2 DEF HType, hvars, Log!lvars

\* A session starts with an empty log.
LEMMA SessionInit == Init => SInv /\ Log!Init
<1> SUFFICES ASSUME Init PROVE SInv /\ Log!Init
  OBVIOUS
<1>1. HType /\ Log!Init
  BY HInit DEF Init
<1>2. stack \in Seq(Frames)
  <2>1. CASE stack = <<>>
    BY <2>1, EmptySeq
  <2>2. CASE \E line \in Startup : stack = << List(line) >>
    <3>1. PICK line \in Startup : stack = << List(line) >>
      BY <2>2
    <3>2. List(line) \in Frames
      BY SessionAssumption, ListType
    <3> QED
      BY <3>1, <3>2
  <2> QED
    BY <2>1, <2>2 DEF Init
<1> QED
  BY <1>1, <1>2 DEF SInv

\* Every step of a session is one of the log or none.
LEMMA SessionStep == SInv /\ [Next]_vars => SInv' /\ [Log!Next]_(Log!lvars)
<1> SUFFICES ASSUME SInv, [Next]_vars PROVE SInv' /\ [Log!Next]_(Log!lvars)
  OBVIOUS
<1> USE DEF SInv
<1>1. ASSUME Edit PROVE SInv' /\ Log!Next
  BY <1>1, UpStep, DownStep, TypeStep DEF Edit, svars, Log!Next
<1>2. ASSUME Eof PROVE SInv' /\ UNCHANGED Log!lvars
  BY <1>2, HSame DEF Eof
<1>3. ASSUME Enter PROVE SInv' /\ UNCHANGED Log!lvars
  <2>1. stack' \in Seq(Frames)
    BY <1>3, BeginType, EmptySeq DEF Enter, HType, LinesType
  <2> QED
    BY <1>3, <2>1, HSame DEF Enter
<1>4. ASSUME ScriptLine PROVE SInv' /\ UNCHANGED Log!lvars
  <2>1. stack' \in Seq(Frames)
    BY <1>4, HeadType, BeginType DEF ScriptLine, Lines
  <2> QED
    BY <1>4, <2>1, HSame DEF ScriptLine
<1>5. ASSUME Return PROVE SInv' /\ UNCHANGED Log!lvars
  BY <1>5, TopType, HSame DEF Return
<1>6. ASSUME MainReturn PROVE SInv' /\ Log!Next
  <2>1. TypeText
    BY <1>6 DEF MainReturn, TypeText
  <2> QED
    BY <1>6, <2>1, TypeStep DEF MainReturn, Log!Next
<1>7. ASSUME RunCommand PROVE SInv' /\ Log!Next
  <2> DEFINE p == Head(Top.rest)
  <2>1. p \in Texts /\ Popped \in Seq(Frames)
    BY <1>7, HeadType DEF RunCommand
  <2>2. add_history(p) /\ UNCHANGED buf
    BY <1>7 DEF RunCommand
  <2>3. HType' /\ Log!Add(p)
    BY <2>1, <2>2, AddStep
  <2>4. stack' \in Seq(Frames)
    <3>1. PICK name : stack' = Popped \/ (name \in DOMAIN Scripts /\ stack' = Append(Popped, Script(name)))
      BY <1>7 DEF RunCommand, CanDo
    <3>2. CASE stack' = Popped
      BY <2>1, <3>2
    <3>3. CASE name \in DOMAIN Scripts /\ stack' = Append(Popped, Script(name))
      BY <2>1, <3>3, ScriptType, AppendProperties
    <3> QED
      BY <3>1, <3>2, <3>3
  <2> QED
    BY <2>1, <2>3, <2>4 DEF Log!Next
<1>8. ASSUME Crash PROVE SInv' /\ Log!Next
  <2> DEFINE p == Head(Top.rest)
  <2>1. p \in Texts
    BY <1>8, HeadType DEF Crash
  <2>2. HType' /\ Log!Add(p)
    BY <1>8, <2>1, AddStep DEF Crash
  <2> QED
    BY <1>8, <2>1, <2>2 DEF Crash, Log!Next
<1>9. ASSUME UNCHANGED vars PROVE SInv' /\ UNCHANGED Log!lvars
  BY <1>9, HSame DEF vars, svars
<1> QED
  BY <1>1, <1>2, <1>3, <1>4, <1>5, <1>6, <1>7, <1>8, <1>9 DEF Next, Call

(* Every session implements the log: what the arrows and `hist' show is    *)
(* the last commands in order, for every size of the ring of shell.c.      *)
THEOREM LogTheorem == Spec => ImplementsLog
<1>1. Init => SInv /\ Log!Init
  BY SessionInit
<1>2. SInv /\ [Next]_vars => SInv' /\ [Log!Next]_(Log!lvars)
  BY SessionStep
<1> QED
  BY <1>1, <1>2, PTL DEF Spec, ImplementsLog, Log!Spec

(* A command that fails, or asks to exit, ends the lists and the scripts   *)
(* around it at every depth, whatever they and the commands are.           *)
THEOREM FailureTheorem == Spec => FailureEndsAll
<1> DEFINE Ends ==
      at = "run" /\ stat # 0 =>
        /\ UNCHANGED <<history, ran, dot, table, linked, CIA, told>>
        /\ stat' = stat
        /\ stat = -1 => at' # "edit"
<1>1. [Next]_vars => [Ends]_vars
  <2> SUFFICES ASSUME Next, at = "run", stat # 0 PROVE Ends
    OBVIOUS
  <2>1. CASE Return
    BY <2>1 DEF Return, hvars
  <2>2. CASE MainReturn
    <3>1. stat = -1 => stat < 0
      OBVIOUS
    <3>2. stat = -1 => at' = "ended"
      BY <2>2, <3>1, Zenon DEF MainReturn
    <3> QED
      BY <2>2, <3>2 DEF MainReturn
  <2>3. ~ GoesOn(Top)
    BY DEF GoesOn
  <2>4. ~ Edit /\ ~ Eof /\ ~ Enter
    BY DEF Edit, Eof, Enter
  <2>5. ~ ScriptLine /\ ~ RunCommand /\ ~ Crash
    BY <2>3 DEF ScriptLine, RunCommand, Crash, Calling
  <2> QED
    BY <2>1, <2>2, <2>4, <2>5 DEF Next, Call
<1> QED
  BY <1>1, PTL DEF Spec, FailureEndsAll

------------------------------------------------------------------------------
(* The symbols.                                                            *)

\* A list of symbols with values that are words.
IsTable(t) ==
  /\ \E S : t \in Seq(S)
  /\ \A i \in DOMAIN t : t[i].val \in Word

\* What appending does, for sequences of any kind.
LEMMA SeqFacts ==
  ASSUME NEW S, NEW t \in Seq(S), NEW x
  PROVE  /\ DOMAIN t = 1 .. Len(t) /\ Len(t) \in Nat
         /\ Append(t, x) \in Seq(S \cup {x})
         /\ Len(Append(t, x)) = Len(t) + 1
         /\ DOMAIN Append(t, x) = 1 .. Len(t) + 1
         /\ Append(t, x)[Len(t) + 1] = x
         /\ \A i \in 1 .. Len(t) : Append(t, x)[i] = t[i]
<1>1. t \in Seq(S \cup {x})
  OBVIOUS
<1> QED
  BY <1>1, AppendProperties, LenProperties

\* The entries of a table of symbols.
LEMMA TableFacts ==
  ASSUME NEW t, IsTable(t)
  PROVE  /\ DOMAIN t = 1 .. Len(t) /\ Len(t) \in Nat
         /\ \A i \in 1 .. Len(t) : t[i].val \in Word /\ t[i].name \in Names(t)
<1>1. PICK S : t \in Seq(S)
  BY DEF IsTable
<1>2. DOMAIN t = 1 .. Len(t) /\ Len(t) \in Nat
  BY <1>1, LenProperties
<1>3. \A i \in DOMAIN t : t[i].val \in Word /\ t[i].name \in Names(t)
  BY Zenon DEF IsTable, Names
<1> QED
  BY <1>2, <1>3

\* A symbol more, with a new name: those there are keep their places.
LEMMA AddTable ==
  ASSUME NEW t, IsTable(t), NEW name, NEW val \in Word
  PROVE  LET u == symbol_add(t, name, val)
         IN  /\ IsTable(u)
             /\ Len(t) <= Len(u) /\ \A i \in 1 .. Len(t) : u[i] = t[i]
             /\ name \in Names(u)
<1> DEFINE x == Symbol(name, val)
           u == Append(t, x)
<1>1. PICK S : t \in Seq(S)
  BY DEF IsTable
<1>2. /\ DOMAIN t = 1 .. Len(t) /\ Len(t) \in Nat
      /\ u \in Seq(S \cup {x}) /\ Len(u) = Len(t) + 1 /\ DOMAIN u = 1 .. Len(t) + 1
      /\ u[Len(t) + 1] = x /\ \A i \in 1 .. Len(t) : u[i] = t[i]
  BY <1>1, SeqFacts
<1>3. x.name = name /\ x.val = val
  BY DEF Symbol
<1>4. \A i \in DOMAIN t : t[i].val \in Word
  BY DEF IsTable
<1> HIDE DEF u, x
<1>5. \A i \in DOMAIN u : u[i].val \in Word
  BY <1>2, <1>3, <1>4
<1>6. IsTable(u)
  BY <1>2, <1>5 DEF IsTable
<1>7. name \in Names(u)
  <2>1. Len(t) + 1 \in DOMAIN u /\ u[Len(t) + 1].name = name
    BY <1>2, <1>3
  <2> QED
    BY <2>1 DEF Names
<1>8. Len(t) <= Len(u)
  BY <1>2
<1>9. symbol_add(t, name, val) = IF name \in Names(t) THEN t ELSE u
  BY DEF symbol_add, u, x
<1>10. CASE name \in Names(t)
  BY <1>2, <1>9, <1>10
<1>11. CASE name \notin Names(t)
  BY <1>2, <1>6, <1>7, <1>8, <1>9, <1>11
<1> QED
  BY <1>10, <1>11

\* The first of the symbols of a name.
LEMMA FirstNamed ==
  ASSUME NEW t, IsTable(t), NEW n \in Names(t)
  PROVE  \E i \in 1 .. Len(t) :
           /\ t[i].name = n
           /\ \A k \in 1 .. i - 1 : t[k].name # n
           /\ symbol_get_byname(t, n) = t[i].val
<1> DEFINE I == {i \in 1 .. Len(t) : t[i].name = n}
<1>0. DOMAIN t = 1 .. Len(t) /\ Len(t) \in Nat
  BY TableFacts
<1>1. I \in SUBSET Nat /\ I # {}
  <2>1. PICK i \in DOMAIN t : n = t[i].name
    BY DEF Names
  <2> QED
    BY <1>0, <2>1
<1>2. First(I) \in I /\ \A j \in I : First(I) <= j
  BY <1>1, FirstIsLeast
<1>3. Min(I) = First(I)
  BY DEF Min, First
<1>4. SelectInSeq(t, LAMBDA s : s.name = n) = Min(I)
  BY <1>1 DEF SelectInSeq
<1> HIDE DEF I
<1>5. symbol_get_byname(t, n) = t[First(I)].val
  BY <1>3, <1>4 DEF symbol_get_byname
<1> DEFINE i == First(I)
<1>6. i \in 1 .. Len(t) /\ t[i].name = n
  BY <1>2 DEF I
<1>7. ASSUME NEW k \in 1 .. i - 1 PROVE t[k].name # n
  <2>1. k \in 1 .. Len(t) /\ ~ (i <= k)
    BY <1>0, <1>6
  <2> HIDE DEF i
  <2>2. k \notin I
    BY <1>2, <2>1 DEF i
  <2> QED
    BY <2>1, <2>2 DEF I
<1> QED
  BY <1>5, <1>6, <1>7

\* It has the value of that name.
LEMMA NamedOnce ==
  ASSUME NEW t, IsTable(t), NEW i \in 1 .. Len(t), NEW n, t[i].name = n,
         \A k \in 1 .. i - 1 : t[k].name # n
  PROVE  n \in Names(t) /\ symbol_get_byname(t, n) = t[i].val
<1>1. n \in Names(t)
  BY TableFacts DEF Names
<1>2. PICK j \in 1 .. Len(t) :
        /\ t[j].name = n
        /\ \A k \in 1 .. j - 1 : t[k].name # n
        /\ symbol_get_byname(t, n) = t[j].val
  BY <1>1, FirstNamed
<1>3. Len(t) \in Nat
  BY TableFacts
<1>4. i = j
  BY <1>2, <1>3
<1> QED
  BY <1>1, <1>2, <1>4

\* What the table says of the names it has is not changed.
Extends(t, u) ==
  \A n \in Names(t) : n \in Names(u) /\ symbol_get_byname(u, n) = symbol_get_byname(t, n)

\* A symbol that is added changes the meaning of no name.
LEMMA AddExtends ==
  ASSUME NEW t, IsTable(t), NEW name, NEW val \in Word
  PROVE  Extends(t, symbol_add(t, name, val))
<1> DEFINE u == symbol_add(t, name, val)
<1>1. IsTable(u)
  BY AddTable
<1>2. Len(t) <= Len(u) /\ \A i \in 1 .. Len(t) : u[i] = t[i]
  BY AddTable
<1> HIDE DEF u
<1>3. ASSUME NEW n \in Names(t)
      PROVE  n \in Names(u) /\ symbol_get_byname(u, n) = symbol_get_byname(t, n)
  <2>1. PICK i \in 1 .. Len(t) :
          /\ t[i].name = n
          /\ \A k \in 1 .. i - 1 : t[k].name # n
          /\ symbol_get_byname(t, n) = t[i].val
    BY FirstNamed
  <2>2. Len(t) \in Nat /\ Len(u) \in Nat
    BY <1>1, TableFacts
  <2>3. i \in 1 .. Len(u) /\ u[i] = t[i] /\ \A k \in 1 .. i - 1 : u[k].name # n
    BY <1>2, <2>1, <2>2
  <2> QED
    BY <1>1, <2>1, <2>3, NamedOnce
<1> QED
  BY <1>3 DEF Extends, u

------------------------------------------------------------------------------
(* The symbols of a file: the fold over the lines below the header.        *)

\* Neither do two additions.
LEMMA ExtendsAgain ==
  ASSUME NEW t, NEW u, NEW v, Extends(t, u), Extends(u, v)
  PROVE  Extends(t, v)
  BY Zenon DEF Extends

Line == [kind : Kinds, name : STRING, val : Word]

Body(file) ==
  LET lines == SymFiles[file]
      h == SelectInSeq(lines, LAMBDA l : l.kind = "header")
  IN  IF h = 0 THEN <<>> ELSE SubSeq(lines, h + 1, Len(lines))

\* What is below the header of a file is a sequence of lines.
LEMMA BodyType ==
  ASSUME NEW file \in DOMAIN SymFiles
  PROVE  Body(file) \in Seq(Line)
<1> DEFINE lines == SymFiles[file]
           I == {i \in 1 .. Len(lines) : lines[i].kind = "header"}
           h == SelectInSeq(lines, LAMBDA l : l.kind = "header")
<1>1. lines \in Seq(Line)
  BY SymbolAssumption DEF Line
<1>2. h = IF I # {} THEN Min(I) ELSE 0
  BY DEF SelectInSeq
<1>3. Min(I) = First(I)
  BY DEF Min, First
<1>4. Len(lines) \in Nat /\ \A i \in 1 .. Len(lines) : lines[i] \in Line
  BY <1>1, LenProperties, ElementOfSeq
<1>5. I \in SUBSET Nat /\ I \in SUBSET (1 .. Len(lines))
  BY <1>4
<1> HIDE DEF I, lines
<1>6. CASE I # {}
  <2>1. h \in 1 .. Len(lines)
    BY <1>2, <1>3, <1>5, <1>6, FirstIsLeast
  <2> HIDE DEF h
  <2>2. \A i \in h + 1 .. Len(lines) : lines[i] \in Line
    BY <1>4, <2>1
  <2>3. h + 1 \in Int /\ Len(lines) \in Int
    BY <1>4, <2>1
  <2>4. SubSeq(lines, h + 1, Len(lines)) \in Seq(Line)
    BY <2>2, <2>3, SubSeqProperties
  <2>5. h # 0
    BY <2>1, <1>4
  <2> QED
    BY <2>4, <2>5 DEF Body, h, lines
<1>7. CASE I = {}
  <2>1. h = 0
    BY <1>2, <1>7
  <2> HIDE DEF h
  <2> QED
    BY <2>1, EmptySeq DEF Body, h, lines
<1> QED
  BY <1>6, <1>7

\* What a line adds.
LoadLine(u, l, filter) ==
  IF Taken(l, filter) THEN symbol_add(u, l.name, l.val) ELSE u

\* The table after each line.
LEMMA LoadTrace ==
  ASSUME NEW t, IsTable(t), NEW file \in DOMAIN SymFiles, NEW filter
  PROVE  \E h : /\ h[0] = t
                /\ \A k \in 0 .. Len(Body(file)) - 1 :
                     h[k + 1] = LoadLine(h[k], Body(file)[k + 1], filter)
                /\ h[Len(Body(file))] = symbols_load_gccsym(t, file, filter)
<1> DEFINE body == Body(file)
           n == Len(body)
           G == CHOOSE iter : iter =
                  [s \in SUBSET DOMAIN body |->
                     IF s = {} THEN t ELSE LoadLine(iter[s \ {Max(s)}], body[Max(s)], filter)]
<1>1. symbols_load_gccsym(t, file, filter) = G[DOMAIN body]
  BY Zenon DEF symbols_load_gccsym, FoldLeft, MapThenFoldSet, LoadLine, Body
<1>2. body \in Seq(Line)
  BY BodyType
<1> HIDE DEF body
<1>3. n \in Nat /\ DOMAIN body = 1 .. n /\ \A i \in 1 .. n : body[i] \in Line
  BY <1>2, LenProperties, ElementOfSeq
<1> HIDE DEF n
<1>4. PICK S : t \in Seq(S)
  BY DEF IsTable
<1> DEFINE N == [name : STRING, val : Word]
           X == {u \in Seq(S \cup N) : IsTable(u)}
           op == [p \in X \X (1 .. n) |-> LoadLine(p[1], body[p[2]], filter)]
<1>5. t \in X
  BY <1>4
<1>6. ASSUME NEW u \in X, NEW k \in 1 .. n
      PROVE  LoadLine(u, body[k], filter) \in X
  <2>1. body[k].name \in STRING /\ body[k].val \in Word
    BY <1>3 DEF Line
  <2>2. Symbol(body[k].name, body[k].val) \in N
    BY <2>1 DEF Symbol
  <2>3. symbol_add(u, body[k].name, body[k].val) \in Seq(S \cup N)
    <3>1. Append(u, Symbol(body[k].name, body[k].val)) \in Seq(S \cup N)
      BY <2>2, AppendProperties
    <3> QED
      BY <3>1 DEF symbol_add
  <2>4. IsTable(symbol_add(u, body[k].name, body[k].val))
    BY <2>1, AddTable, Zenon
  <2> QED
    BY <2>3, <2>4 DEF LoadLine
<1>7. op \in [X \X (1 .. n) -> X]
  <2> HIDE DEF X
  <2> QED
    BY <1>6
<1>8. PICK f : IsFold(f, X, t, n, op)
  <2> HIDE DEF op, X
  <2> QED
    BY <1>3, <1>5, <1>7, FoldExists, Zenon
<1>9. \A s \in SUBSET (1 .. n) :
        f[s] = IF s = {} THEN t ELSE LoadLine(f[s \ {Max(s)}], body[Max(s)], filter)
  <2> SUFFICES ASSUME NEW s \in SUBSET (1 .. n), s # {}
               PROVE  f[s] = LoadLine(f[s \ {Max(s)}], body[Max(s)], filter)
    BY <1>8 DEF IsFold
  <2>1. Max(s) = Greatest(s)
    BY DEF Max, Greatest
  <2>2. Greatest(s) \in 1 .. n /\ s \ {Greatest(s)} \in SUBSET (1 .. n)
    BY <1>3, GreatestIn
  <2>3. f[s \ {Greatest(s)}] \in X
    BY <1>8, <2>2 DEF IsFold
  <2>4. f[s] = op[<<f[s \ {Greatest(s)}], Greatest(s)>>]
    BY <1>8 DEF IsFold
  <2> HIDE DEF X
  <2> QED
    BY <2>1, <2>2, <2>3, <2>4
<1>10. f = [s \in SUBSET DOMAIN body |->
              IF s = {} THEN t ELSE LoadLine(f[s \ {Max(s)}], body[Max(s)], filter)]
  <2> HIDE DEF X, op
  <2> QED
    BY <1>3, <1>8, <1>9 DEF IsFold
<1>11. G = [s \in SUBSET DOMAIN body |->
              IF s = {} THEN t ELSE LoadLine(G[s \ {Max(s)}], body[Max(s)], filter)]
  BY <1>10, Zenon
<1> HIDE DEF G, X, op
<1> DEFINE h == [k \in 0 .. n |-> G[1 .. k]]
<1>12. h[0] = t
  <2>1. 1 .. 0 = {} /\ {} \in SUBSET DOMAIN body
    OBVIOUS
  <2>2. G[{}] = t
    BY <1>11, <2>1
  <2> QED
    BY <1>3, <2>1, <2>2
<1>13. ASSUME NEW k \in 0 .. n - 1
       PROVE  h[k + 1] = LoadLine(h[k], body[k + 1], filter)
  <2> DEFINE s == 1 .. k + 1
  <2>1. k + 1 \in 1 .. n /\ k \in 0 .. n /\ k + 1 \in 0 .. n /\ (k + 1) - 1 = k
    BY <1>3
  <2>2. s \in SUBSET (1 .. n) /\ s # {} /\ Greatest(s) = k + 1 /\ s \ {k + 1} = 1 .. (k + 1) - 1
    BY <1>3, <2>1, PrefixFacts
  <2>3. Max(s) = k + 1
    BY <2>2 DEF Max, Greatest
  <2>4. G[s] = LoadLine(G[s \ {k + 1}], body[k + 1], filter)
    <3> HIDE DEF s
    <3> QED
      BY <1>3, <1>11, <2>2, <2>3
  <2> QED
    BY <2>1, <2>2, <2>4
<1>14. h[n] = symbols_load_gccsym(t, file, filter)
  BY <1>1, <1>3
<1> HIDE DEF h
<1>15. \E g : /\ g[0] = t
              /\ \A k \in 0 .. n - 1 : g[k + 1] = LoadLine(g[k], body[k + 1], filter)
              /\ g[n] = symbols_load_gccsym(t, file, filter)
  BY <1>12, <1>13, <1>14
<1> QED
  BY <1>15 DEF n, body

------------------------------------------------------------------------------
(* A distance below half the address space is the same as a signed number. *)

\* The width of a word makes numbers.
LEMMA WidthFacts == WBITS \in Nat /\ WBITS - 1 \in Nat /\ 2 ^ WBITS \in Int /\ 2 ^ (WBITS - 1) \in Int
<1>1. WBITS \in Nat /\ WBITS - 1 \in Nat
  BY ByteAssumption DEF WBITS
<1> QED
  BY <1>1

\* A difference read as a signed number is a number.
LEMMA SignedFacts ==
  ASSUME NEW x \in Int
  PROVE  Signed(x) \in Int
<1>1. x - 2 ^ WBITS \in Int
  BY WidthFacts
<1> QED
  BY <1>1 DEF Signed

\* The distance of two words is a number.
LEMMA WordDifference ==
  ASSUME NEW x \in Word, NEW y \in Word
  PROVE  x \in Int /\ y \in Int /\ x - y \in Int
<1>1. x \in Int /\ y \in Int
  BY WidthFacts DEF Word
<1> QED
  BY <1>1

\* Loading a file extends the table: the fold keeps what each line keeps.
LEMMA LoadKeeps ==
  ASSUME NEW t, IsTable(t), NEW file \in DOMAIN SymFiles, NEW filter
  PROVE  /\ IsTable(symbols_load_gccsym(t, file, filter))
         /\ Extends(t, symbols_load_gccsym(t, file, filter))
<1> DEFINE body == Body(file)
           n == Len(body)
<1>1. body \in Seq(Line)
  BY BodyType
<1>2. PICK h : /\ h[0] = t
               /\ \A k \in 0 .. n - 1 : h[k + 1] = LoadLine(h[k], body[k + 1], filter)
               /\ h[n] = symbols_load_gccsym(t, file, filter)
  BY LoadTrace, Zenon
<1> HIDE DEF body
<1>3. n \in Nat /\ \A i \in 1 .. n : body[i] \in Line
  BY <1>1, LenProperties, ElementOfSeq
<1> HIDE DEF n
<1> DEFINE K == {k \in 0 .. n : IsTable(h[k]) /\ Extends(t, h[k])}
<1>4. 0 \in K
  <2>1. Extends(t, t)
    BY DEF Extends
  <2> QED
    BY <1>2, <1>3, <2>1
<1>5. ASSUME NEW k \in 0 .. n - 1, k \in K
      PROVE  k + 1 \in K
  <2> DEFINE u == h[k]
             l == body[k + 1]
  <2>1. l.val \in Word /\ k + 1 \in 0 .. n
    BY <1>3 DEF Line
  <2>2. IsTable(u) /\ Extends(t, u) /\ h[k + 1] = LoadLine(u, l, filter)
    BY <1>2, <1>5
  <2> HIDE DEF u, l
  <2>3. IsTable(h[k + 1]) /\ Extends(t, h[k + 1])
    <3>1. CASE Taken(l, filter)
      <4>1. h[k + 1] = symbol_add(u, l.name, l.val)
        BY <2>2, <3>1 DEF LoadLine
      <4>2. IsTable(h[k + 1]) /\ Extends(u, h[k + 1])
        BY <2>1, <2>2, <4>1, AddTable, AddExtends, Zenon
      <4> QED
        BY <2>2, <4>2, ExtendsAgain
    <3>2. CASE ~ Taken(l, filter)
      BY <2>2, <3>2 DEF LoadLine
    <3> QED
      BY <3>1, <3>2
  <2> QED
    BY <2>1, <2>3
<1>6. n \in K
  <2> HIDE DEF K
  <2>1. \A k \in 0 .. n : k \in K
    BY <1>3, <1>4, <1>5, Steps
  <2> QED
    BY <1>3, <2>1
<1> QED
  BY <1>2, <1>6

------------------------------------------------------------------------------
(* The symbol of an address: the fold over the table.                      *)

Unfound == [closest |-> Nowhere, delta |-> MAX_DELTA]

\* What is found after each symbol.
LEMMA WhereTrace ==
  ASSUME NEW t, IsTable(t), NEW addr \in Word
  PROVE  \E h : /\ h[0] = Unfound
                /\ \A k \in 0 .. Len(t) - 1 : h[k + 1] = Closer(h[k], t[k + 1], addr)
                /\ h[Len(t)].closest = SYM_where(t, addr)
<1> DEFINE n == Len(t)
           G == CHOOSE iter : iter =
                  [s \in SUBSET DOMAIN t |->
                     IF s = {} THEN [closest |-> Nowhere, delta |-> MAX_DELTA]
                     ELSE Closer(iter[s \ {Max(s)}], t[Max(s)], addr)]
<1>1. SYM_where(t, addr) = G[DOMAIN t].closest
  BY Zenon DEF SYM_where, FoldLeft, MapThenFoldSet
<1>3. n \in Nat /\ DOMAIN t = 1 .. n /\ \A i \in 1 .. n : t[i].val \in Word
  BY TableFacts
<1> HIDE DEF n
<1> DEFINE X == [closest : {Nowhere} \cup Names(t), delta : Int]
           op == [p \in X \X (1 .. n) |-> Closer(p[1], t[p[2]], addr)]
<1>5. Unfound \in X
  BY SymbolAssumption DEF Unfound
<1>6. ASSUME NEW u \in X, NEW k \in 1 .. n
      PROVE  Closer(u, t[k], addr) \in X
  <2>1. t[k].name \in Names(t)
    BY <1>3 DEF Names
  <2>2. Signed(addr - t[k].val) \in Int
    <3>1. addr - t[k].val \in Int
      BY <1>3, WordDifference
    <3> QED
      BY <3>1, SignedFacts
  <2> QED
    BY <2>1, <2>2 DEF Closer
<1>7. op \in [X \X (1 .. n) -> X]
  <2> HIDE DEF X
  <2> QED
    BY <1>6
<1>8. PICK f : IsFold(f, X, Unfound, n, op)
  <2> HIDE DEF op, X
  <2> QED
    BY <1>3, <1>5, <1>7, FoldExists, Zenon
<1>9. \A s \in SUBSET (1 .. n) :
        f[s] = IF s = {} THEN Unfound ELSE Closer(f[s \ {Max(s)}], t[Max(s)], addr)
  <2> SUFFICES ASSUME NEW s \in SUBSET (1 .. n), s # {}
               PROVE  f[s] = Closer(f[s \ {Max(s)}], t[Max(s)], addr)
    BY <1>8 DEF IsFold
  <2>1. Max(s) = Greatest(s)
    BY DEF Max, Greatest
  <2>2. Greatest(s) \in 1 .. n /\ s \ {Greatest(s)} \in SUBSET (1 .. n)
    BY <1>3, GreatestIn
  <2>3. f[s \ {Greatest(s)}] \in X
    BY <1>8, <2>2 DEF IsFold
  <2>4. f[s] = op[<<f[s \ {Greatest(s)}], Greatest(s)>>]
    BY <1>8 DEF IsFold
  <2> HIDE DEF X
  <2> QED
    BY <2>1, <2>2, <2>3, <2>4
<1>10. f = [s \in SUBSET DOMAIN t |->
              IF s = {} THEN Unfound ELSE Closer(f[s \ {Max(s)}], t[Max(s)], addr)]
  <2> HIDE DEF X, op
  <2> QED
    BY <1>3, <1>8, <1>9 DEF IsFold
<1>11. G = [s \in SUBSET DOMAIN t |->
              IF s = {} THEN Unfound ELSE Closer(G[s \ {Max(s)}], t[Max(s)], addr)]
  BY <1>10, Zenon DEF Unfound
<1> HIDE DEF G, X, op
<1> DEFINE h == [k \in 0 .. n |-> G[1 .. k]]
<1>12. h[0] = Unfound
  <2>1. 1 .. 0 = {} /\ {} \in SUBSET DOMAIN t
    OBVIOUS
  <2>2. G[{}] = Unfound
    BY <1>11, <2>1
  <2> QED
    BY <1>3, <2>1, <2>2
<1>13. ASSUME NEW k \in 0 .. n - 1
       PROVE  h[k + 1] = Closer(h[k], t[k + 1], addr)
  <2> DEFINE s == 1 .. k + 1
  <2>1. k + 1 \in 1 .. n /\ k \in 0 .. n /\ k + 1 \in 0 .. n /\ (k + 1) - 1 = k
    BY <1>3
  <2>2. s \in SUBSET (1 .. n) /\ s # {} /\ Greatest(s) = k + 1 /\ s \ {k + 1} = 1 .. (k + 1) - 1
    BY <1>3, <2>1, PrefixFacts
  <2>3. Max(s) = k + 1
    BY <2>2 DEF Max, Greatest
  <2>4. G[s] = Closer(G[s \ {k + 1}], t[k + 1], addr)
    <3> HIDE DEF s
    <3> QED
      BY <1>3, <1>11, <2>2, <2>3
  <2> QED
    BY <2>1, <2>2, <2>4
<1>14. h[n].closest = SYM_where(t, addr)
  BY <1>1, <1>3
<1> HIDE DEF h
<1>15. \E g : /\ g[0] = Unfound
              /\ \A k \in 0 .. n - 1 : g[k + 1] = Closer(g[k], t[k + 1], addr)
              /\ g[n].closest = SYM_where(t, addr)
  BY <1>12, <1>13, <1>14
<1> QED
  BY <1>15 DEF n

\* The symbols an address may belong to, and that it belongs to the nearest.
Near(t, addr) == {i \in Below(t, addr) : Distance(t, addr, i) < MAX_DELTA}

\* The search of where ends at a nearest of the near symbols, if there is one.
LEMMA WhereFinds ==
  ASSUME NEW t, IsTable(t), NEW addr \in Word
  PROVE  LET near == Near(t, addr)
         IN  IF near = {} THEN SYM_where(t, addr) = Nowhere
             ELSE \E i \in near :
                    /\ SYM_where(t, addr) = t[i].name
                    /\ \A k \in near : Distance(t, addr, i) <= Distance(t, addr, k)
<1> DEFINE n == Len(t)
           dist(i) == Signed(addr - t[i].val)
           near == Near(t, addr)
<1>1. PICK h : /\ h[0] = Unfound
               /\ \A k \in 0 .. n - 1 : h[k + 1] = Closer(h[k], t[k + 1], addr)
               /\ h[n].closest = SYM_where(t, addr)
  BY WhereTrace, Zenon
<1>2. /\ n \in Nat /\ DOMAIN t = 1 .. n
      /\ \A i \in 1 .. n : t[i].val \in Word
  BY TableFacts
<1> HIDE DEF n
<1>3. \A i \in 1 .. n : t[i].val \in Int /\ dist(i) \in Int
  <2>1. TAKE i \in 1 .. n
  <2>2. t[i].val \in Int /\ addr - t[i].val \in Int
    BY <1>2, WordDifference
  <2> QED
    BY <2>2, SignedFacts
<1>4. \A i \in 1 .. n : i \in near <=> t[i].val < addr /\ dist(i) < MAX_DELTA
  BY <1>2 DEF Near, Below, Distance
<1>5. near \subseteq 1 .. n
  BY <1>2 DEF Near, Below
<1> HIDE DEF near
<1> DEFINE Found(i, b) == b.closest = t[i].name /\ b.delta = dist(i)
           None(k) == h[k] = Unfound /\ \A j \in 1 .. k : j \notin near
           Some(k) == \E i \in 1 .. k :
                        /\ i \in near /\ Found(i, h[k])
                        /\ \A j \in 1 .. k : j \in near => dist(i) <= dist(j)
           K == {k \in 0 .. n : None(k) \/ Some(k)}
<1>6. 0 \in K
  BY <1>1, <1>2
<1>7. ASSUME NEW k \in 0 .. n - 1, k \in K
      PROVE  k + 1 \in K
  <2> DEFINE s == t[k + 1]
             m == k + 1
  <2>1. m \in 1 .. n /\ m \in 0 .. n /\ k \in Nat /\ k \in 0 .. n
    BY <1>2
  <2>2. h[m] = Closer(h[k], s, addr)
    BY <1>1
  <2>3. \A j \in 1 .. m : j \in 1 .. k \/ j = m
    BY <2>1
  <2>4. 1 .. k \subseteq 1 .. m /\ m \in 1 .. m /\ 1 .. k \subseteq 1 .. n
    BY <2>1, <1>2
  <2>5. dist(m) = Signed(addr - s.val) /\ dist(m) \in Int /\ s.val \in Int
    BY <1>3, <2>1
  <2>6. h[k].delta \in Int /\ h[k].delta <= MAX_DELTA
    <3>1. CASE None(k)
      BY <3>1, SymbolAssumption DEF Unfound
    <3>2. CASE Some(k)
      <4>1. PICK i \in 1 .. k : i \in near /\ Found(i, h[k])
        BY <3>2
      <4>2. dist(i) < MAX_DELTA /\ dist(i) \in Int
        BY <4>1, <1>3, <1>4, <2>4
      <4> QED
        BY <4>1, <4>2, SymbolAssumption
    <3> QED
      BY <1>7, <3>1, <3>2
  <2>7. CASE s.val < addr /\ dist(m) < h[k].delta
    <3>1. Signed(addr - s.val) = dist(m)
      BY <2>5
    <3>2. h[m] = [closest |-> s.name, delta |-> dist(m)]
      BY <2>2, <2>7, <3>1 DEF Closer
    <3>3. Found(m, h[m])
      BY <3>2
    <3>4. m \in near
      <4>1. dist(m) < MAX_DELTA
        BY <2>5, <2>6, <2>7, SymbolAssumption
      <4> QED
        BY <1>4, <2>1, <2>7, <4>1
    <3>5. \A j \in 1 .. k : j \in near => dist(m) <= dist(j)
      <4>1. CASE None(k)
        BY <4>1
      <4>2. CASE Some(k)
        <5>1. PICK i \in 1 .. k :
                /\ i \in near /\ Found(i, h[k])
                /\ \A j \in 1 .. k : j \in near => dist(i) <= dist(j)
          BY <4>2
        <5>2. TAKE j \in 1 .. k
        <5>3. HAVE j \in near
        <5>4. dist(i) <= dist(j) /\ dist(i) \in Int /\ dist(j) \in Int /\ dist(m) < dist(i)
          BY <5>1, <5>3, <2>7, <2>4, <1>3
        <5> QED
          BY <5>4, <2>5
      <4> QED
        BY <1>7, <4>1, <4>2
    <3>6. dist(m) <= dist(m)
      BY <2>5
    <3>7. \A j \in 1 .. m : j \in near => dist(m) <= dist(j)
      BY <2>3, <3>5, <3>6
    <3>8. Some(m)
      BY <2>4, <3>3, <3>4, <3>7
    <3> QED
      BY <2>1, <3>8
  <2>8. CASE ~ (s.val < addr /\ dist(m) < h[k].delta)
    <3>1. h[m] = h[k]
      <4>1. CASE s.val < addr
        <5>1. Signed(addr - s.val) = dist(m)
          BY <2>5
        <5>2. ~ (Signed(addr - s.val) < h[k].delta)
          BY <2>8, <4>1, <5>1
        <5> QED
          BY <2>2, <5>2 DEF Closer
      <4>2. CASE ~ (s.val < addr)
        BY <2>2, <4>2 DEF Closer
      <4> QED
        BY <4>1, <4>2
    <3>2. CASE None(k)
      <4>1. h[k].delta = MAX_DELTA
        BY <3>2 DEF Unfound
      <4>2. m \notin near
        BY <1>4, <2>1, <2>8, <4>1
      <4>3. None(m)
        BY <2>3, <3>1, <3>2, <4>2
      <4> QED
        BY <2>1, <4>3
    <3>3. CASE Some(k)
      <4>1. PICK i \in 1 .. k :
              /\ i \in near /\ Found(i, h[k])
              /\ \A j \in 1 .. k : j \in near => dist(i) <= dist(j)
        BY <3>3
      <4>2. m \in near => dist(i) <= dist(m)
        <5>1. HAVE m \in near
        <5>2. s.val < addr
          BY <1>4, <2>1, <5>1
        <5>3. ~ (dist(m) < dist(i)) /\ dist(i) \in Int
          BY <2>8, <4>1, <5>2, <2>4, <1>3
        <5> QED
          BY <5>3, <2>5
      <4>3. \A j \in 1 .. m : j \in near => dist(i) <= dist(j)
        BY <2>3, <4>1, <4>2
      <4>4. i \in 1 .. m /\ Found(i, h[m])
        BY <2>4, <3>1, <4>1
      <4>5. Some(m)
        BY <4>1, <4>3, <4>4
      <4> QED
        BY <2>1, <4>5
    <3> QED
      BY <1>7, <3>2, <3>3
  <2> QED
    BY <2>7, <2>8
<1>8. None(n) \/ Some(n)
  <2> HIDE DEF K
  <2>1. \A k \in 0 .. n : k \in K
    BY <1>2, <1>6, <1>7, Steps
  <2>2. n \in K
    BY <1>2, <2>1
  <2> QED
    BY <2>2 DEF K
<1>9. CASE None(n)
  <2>1. near = {}
    BY <1>5, <1>9
  <2>2. SYM_where(t, addr) = Nowhere
    BY <1>1, <1>9 DEF Unfound
  <2> QED
    BY <2>1, <2>2 DEF near
<1>10. CASE Some(n)
  <2>1. PICK i \in near :
          /\ SYM_where(t, addr) = t[i].name
          /\ \A j \in near : dist(i) <= dist(j)
    BY <1>1, <1>5, <1>10
  <2> QED
    BY <2>1 DEF near, Distance
<1> QED
  BY <1>8, <1>9, <1>10

------------------------------------------------------------------------------
(* The invariant: the symbols have words as values, the location is a      *)
(* word, and what `where' said is what it says of the table there is.      *)

Asked ==
  /\ told.of \in Word
  /\ told.sym = SYM_where(table, told.of)
  /\ told.label = Listed(table, told.sym)

SymInv ==
  /\ IsTable(table)
  /\ CIA \in Word
  /\ told # Silent => Asked

\* No symbols are a table.
LEMMA NoSymbols == IsTable(<<>>)
  BY EmptySeq DEF IsTable

\* A session starts with no symbols.
LEMMA SymInit == Init => SymInv
<1> SUFFICES ASSUME Init PROVE SymInv
  OBVIOUS
<1>1. IsTable(table)
  BY NoSymbols DEF Init
<1>2. PICK x : x \in Stops
  BY SessionAssumption
<1>3. x \in Word
  BY <1>2, SessionAssumption
<1>4. 0 \in Word
  BY <1>3, WidthFacts DEF Word
<1> QED
  BY <1>1, <1>4 DEF Init, SymInv

\* What an argument stands for is a word.
LEMMA ValueIsWord ==
  ASSUME SymInv, NEW arg, Resolves(arg)
  PROVE  shell_getvalue(arg) \in Word
<1>1. CASE arg = "."
  BY <1>1 DEF shell_getvalue, SymInv
<1>2. CASE arg # "." /\ arg \in Names(table)
  <2>1. PICK i \in 1 .. Len(table) : symbol_get_byname(table, arg) = table[i].val
    BY <1>2, FirstNamed DEF SymInv
  <2>2. table[i].val \in Word
    BY TableFacts DEF SymInv
  <2> QED
    BY <1>2, <2>1, <2>2 DEF shell_getvalue
<1>3. CASE arg # "." /\ arg \notin Names(table)
  BY <1>3, SessionAssumption DEF shell_getvalue, Resolves
<1> QED
  BY <1>1, <1>2, <1>3

\* What a command does to the symbols: it keeps them, and the first
\* definitions, or removes them all.
LEMMA EffectSymbols ==
  ASSUME SymInv, NEW c, NEW d, Effect(c, d)
  PROVE  SymInv' /\ (table' = <<>> \/ Extends(table, table'))
<1>0. IsTable(table) /\ CIA \in Word
  BY DEF SymInv
<1>1. Extends(table, table)
  BY DEF Extends
<1>2. CASE /\ table' = table /\ CIA' = CIA /\ told' = Silent
  BY <1>0, <1>1, <1>2 DEF SymInv
<1>3. CASE Runs(c, d)
  <2>1. table' = table /\ CIA' \in Word /\ told' = Silent
    BY <1>3, SessionAssumption DEF Runs
  <2> QED
    BY <1>0, <1>1, <2>1 DEF SymInv
<1>4. CASE Where(c, d)
  <2>1. /\ table' = table /\ CIA' = CIA
        /\ told'.sym = SYM_where(table, CIA) /\ told'.of = CIA
        /\ told'.label = Listed(table, SYM_where(table, CIA))
    BY <1>4 DEF Where
  <2>2. Asked'
    BY <1>0, <2>1 DEF Asked
  <2> QED
    BY <1>0, <1>1, <2>1, <2>2 DEF SymInv
<1>5. CASE SymDefine(c, d)
  <2>1. CASE table' = table
    <3>1. CIA' = CIA /\ told' = Silent
      BY <1>5 DEF SymDefine
    <3> QED
      BY <1>2, <2>1, <3>1
  <2>2. CASE Resolves(c.val) /\ table' = symbol_add(table, c.arg, shell_getvalue(c.val))
    <3>1. IsTable(table') /\ Extends(table, table')
      BY <1>0, <2>2, ValueIsWord, AddTable, AddExtends, Zenon
    <3>2. CIA' = CIA /\ told' = Silent
      BY <1>5 DEF SymDefine
    <3> QED
      BY <1>0, <3>1, <3>2 DEF SymInv
  <2> QED
    BY <1>5, <2>1, <2>2, Zenon DEF SymDefine
<1>6. CASE SymLoad(c, d)
  <2>1. CASE table' = table
    <3>1. CIA' = CIA /\ told' = Silent
      BY <1>6 DEF SymLoad
    <3> QED
      BY <1>2, <2>1, <3>1
  <2>2. CASE c.arg \in DOMAIN SymFiles /\ table' = symbols_load_gccsym(table, c.arg, Filter)
    <3>1. IsTable(table') /\ Extends(table, table')
      BY <1>0, <2>2, LoadKeeps, Zenon
    <3>2. CIA' = CIA /\ told' = Silent
      BY <1>6 DEF SymLoad
    <3> QED
      BY <1>0, <3>1, <3>2 DEF SymInv
  <2> QED
    BY <1>6, <2>1, <2>2, Zenon DEF SymLoad
<1>7. CASE table' = <<>> /\ CIA' = CIA /\ told' = Silent
  BY <1>0, <1>7, NoSymbols DEF SymInv
<1> QED
  BY <1>2, <1>3, <1>4, <1>5, <1>6, <1>7
     DEF Effect, Echo, Fail, Unknown, Unassemble, SymFree, ResetAll, Exit, Do

\* Every command keeps the table, extends it, or empties it.
LEMMA SymStep ==
  ASSUME SymInv, [Next]_vars
  PROVE  SymInv' /\ (table' = <<>> \/ Extends(table, table'))
<1>1. Extends(table, table)
  BY DEF Extends
<1>2. CASE UNCHANGED <<table, CIA, told>>
  BY <1>1, <1>2 DEF SymInv, Asked
<1>3. CASE UNCHANGED <<table, CIA>> /\ told' = Silent
  BY <1>1, <1>3 DEF SymInv
<1>4. CASE RunCommand
  <2>1. PICK p : Effect(Meant(p), Remembered(p))
    BY <1>4 DEF RunCommand
  <2> QED
    BY <2>1, EffectSymbols
<1> QED
  BY <1>2, <1>3, <1>4 DEF Next, Edit, Eof, Enter, Call, ScriptLine, Return, MainReturn, Crash,
     vars, svars

(* A name keeps the value of its first definition, whatever is defined, or *)
(* loaded from files of any length, until the symbols are removed: the     *)
(* list of symbols.c only grows at its end, and is searched from its head. *)
THEOREM FirstDefinitionTheorem == Spec => FirstDefinitionHolds
<1> DEFINE Holds ==
      table' # <<>> =>
        \A n \in Names(table) :
          n \in Names(table') /\ symbol_get_byname(table', n) = symbol_get_byname(table, n)
<1>1. SymInv /\ [Next]_vars => SymInv' /\ [Holds]_vars
  BY SymStep, Zenon DEF Extends
<1> QED
  BY <1>1, SymInit, PTL DEF Spec, FirstDefinitionHolds

\* Two symbols whose low bits are the same.
SameLabel(t, i, k) == t[i].val % LABEL_SPACE = t[k].val % LABEL_SPACE

\* The listing of a symbol shows its name, or that of an earlier one.
LEMMA ListedIs ==
  ASSUME NEW t, IsTable(t), NEW n \in Names(t), n # Nowhere
  PROVE  \E i, k \in DOMAIN t :
           i <= k /\ t[i].name = Listed(t, n) /\ t[k].name = n /\ SameLabel(t, i, k)
<1>0. DOMAIN t = 1 .. Len(t) /\ Len(t) \in Nat
  BY TableFacts
<1>1. PICK k \in 1 .. Len(t) : t[k].name = n /\ symbol_get_byname(t, n) = t[k].val
  BY FirstNamed, Zenon
<1> DEFINE I == {i \in 1 .. Len(t) : t[i].val % LABEL_SPACE = t[k].val % LABEL_SPACE}
<1>2. I \in SUBSET Nat /\ k \in I
  BY <1>0
<1>3. First(I) \in I /\ First(I) <= k
  BY <1>2, FirstIsLeast
<1>4. SelectInSeq(t, LAMBDA s : s.val % LABEL_SPACE = t[k].val % LABEL_SPACE) = First(I)
  BY <1>2 DEF SelectInSeq, Min, First
<1>5. t[First(I)].name = Listed(t, n)
  BY <1>1, <1>4 DEF Listed, symbol_get_byaddr
<1>6. First(I) \in DOMAIN t /\ SameLabel(t, First(I), k)
  BY <1>0, <1>3 DEF SameLabel
<1> QED
  BY <1>0, <1>1, <1>3, <1>5, <1>6

(* `where' finds, in every table, a symbol strictly below the location at  *)
(* the least distance of those within MAX_DELTA, or none: the distance is  *)
(* the int of SYM_where, negative for a symbol further below than half the *)
(* address space.  It shows that symbol, or one defined earlier with the   *)
(* same low bits.                                                          *)
THEOREM WhereTheorem == Spec => []WhereIsNearest
<1>1. SymInv => WhereIsNearest
  <2> SUFFICES ASSUME SymInv, told # Silent
               PROVE  FindsNearest /\ ShowsFound
    BY DEF WhereIsNearest
  <2>1. /\ told.of \in Word /\ told.sym = SYM_where(table, told.of) /\ IsTable(table)
        /\ told.label = Listed(table, told.sym)
    BY DEF SymInv, Asked
  <2>2. FindsNearest
    <3> SUFFICES LET near == Near(table, told.of)
                 IN  IF near = {} THEN told.sym = Nowhere
                     ELSE \E i \in near :
                            /\ told.sym = table[i].name
                            /\ \A k \in near :
                                 Distance(table, told.of, i) <= Distance(table, told.of, k)
      BY Zenon DEF FindsNearest, Near
    <3> QED
      BY <2>1, WhereFinds, Zenon
  <2>3. ShowsFound
    <3> SUFFICES ASSUME told.label # told.sym
                 PROVE  \E i, k \in DOMAIN table :
                          /\ i < k /\ table[i].name = told.label /\ table[k].name = told.sym
                          /\ SameLabel(table, i, k)
      BY Zenon DEF ShowsFound, SameLabel
    <3>1. told.sym # Nowhere
      BY <2>1 DEF Listed
    <3>2. told.sym \in Names(table)
      BY <2>1, <3>1, WhereFinds, Zenon DEF Names, Near, Below
    <3>3. PICK i \in DOMAIN table : \E k \in DOMAIN table :
            /\ i <= k /\ table[i].name = told.label /\ table[k].name = told.sym
            /\ SameLabel(table, i, k)
      BY <2>1, <3>1, <3>2, ListedIs, Zenon
    <3>4. PICK k \in DOMAIN table :
            /\ i <= k /\ table[i].name = told.label /\ table[k].name = told.sym
            /\ SameLabel(table, i, k)
      BY <3>3
    <3>5. i # k /\ i \in Nat /\ k \in Nat
      BY <2>1, <3>4, TableFacts
    <3> QED
      BY <3>4, <3>5
  <2> QED
    BY <2>2, <2>3
<1>2. SymInv /\ [Next]_vars => SymInv'
  BY SymStep
<1> QED
  BY <1>1, <1>2, SymInit, PTL DEF Spec
=============================================================================
