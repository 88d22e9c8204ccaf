---------------------------- MODULE AiAgentProofs ----------------------------
(***************************************************************************)
(* Theorems about AiAgent, for any turns, menus of tool calls and limits.  *)
(*                                                                         *)
(* Pace counts the nodes of a turn, Memory says what the stored and the    *)
(* loaded conversations consist of.  The report of a turn rests on three   *)
(* invariants more: every call is where its tag says and has written what  *)
(* its state says (Placed), the comments stored are those of calls that    *)
(* succeeded (Commented), and a cell holds what the last call that wrote   *)
(* it left there, round by round, while nothing disturbs the turn (Held).  *)
(* That an action names exactly the cells of its call is ColumnsTold.      *)
(***************************************************************************)
EXTENDS AiAgent, SequenceTheorems, NaturalsInduction, WellFoundedInduction, TLAPS

\* The steps of one turn.
TurnStep(t) ==
    \/ Load(t) \/ Plan(t) \/ ModelFails(t)
    \/ \E i \in DOMAIN batch[t] : ToolStep(t, i) \/ ToolFail(t, i)
    \/ Gather(t) \/ Synthesize(t) \/ Save(t)

\* The next-state relation, with the steps of a turn gathered in one operator.
LEMMA NextIs == ANext <=> (\E t \in Turns : TurnStep(t)) \/ Expire \/ Crash \/ AllOver
BY DEF ANext, TurnStep
-----------------------------------------------------------------------------
(* The rounds of a turn.                                                      *)

(* A turn spends one step on the planner and one on the tools in each round,   *)
(* and it has steps left wherever a further node is due.                       *)
Paced(t) ==
    LET rounds == Len(trace[t]) IN
    /\ pc[t] = "planner" => steps[t] = 2 * rounds /\ steps[t] < RECURSION_LIMIT
    /\ pc[t] \in {"tools", "synthesizer"} => steps[t] = 2 * rounds + 1 /\ steps[t] < RECURSION_LIMIT
    /\ pc[t] = "save" => steps[t] = 2 * rounds + 2 /\ steps[t] <= RECURSION_LIMIT
    /\ pc[t] \in {"idle", "answered", "failed"} => steps[t] = 0 /\ trace[t] = <<>>

Pace == \A t \in Turns : Paced(t)

(* What the steps of one turn leave alone.                                     *)
LEMMA Others ==
    ASSUME ATypeOK, NEW t \in Turns, TurnStep(t), NEW u \in Turns \ {t}
    PROVE  /\ pc'[u] = pc[u] /\ steps'[u] = steps[u] /\ trace'[u] = trace[u]
           /\ history'[u] = history[u] /\ past'[u] = past[u] /\ batch'[u] = batch[u]
<1> USE DEF ATypeOK
<1>1. CASE Load(t) \/ Gather(t) \/ Synthesize(t) \/ Save(t)
  BY <1>1 DEF Load, Gather, Synthesize, Save, Throw, Forget
<1>2. CASE Plan(t) \/ ModelFails(t)
  BY <1>2 DEF Plan, ModelFails, Throw, Forget
<1>3. ASSUME NEW i \in DOMAIN batch[t], ToolStep(t, i) \/ ToolFail(t, i)
      PROVE  /\ pc'[u] = pc[u] /\ steps'[u] = steps[u] /\ trace'[u] = trace[u]
             /\ history'[u] = history[u] /\ past'[u] = past[u] /\ batch'[u] = batch[u]
  BY <1>3 DEF ToolStep, ToolFail
<1> QED BY <1>1, <1>2, <1>3 DEF TurnStep

\* No turn has spent a step at first.
LEMMA PaceInit == AInit => Pace
BY LimitAssumption DEF AInit, Pace, Paced

\* Every node spends one step, and goes on only below the limit.
LEMMA PaceStep == ATypeOK /\ Pace /\ [ANext]_avars => Pace'
<1> SUFFICES ASSUME ATypeOK, Pace, [ANext]_avars PROVE Pace'
  OBVIOUS
<1>1. CASE UNCHANGED avars
  BY <1>1 DEF avars, Pace, Paced
<1>2. CASE Expire
  BY <1>2 DEF Expire, Pace, Paced
<1>3. CASE Crash
  BY <1>3 DEF Crash, Pace, Paced, ATypeOK, Running
<1>4. ASSUME NEW t \in Turns, TurnStep(t) PROVE Pace'
  <2>1. \A u \in Turns \ {t} : Paced(u)'
    BY <1>4, Others, ZenonT(40) DEF Pace, Paced
  <2>2. /\ Paced(t) /\ steps[t] \in Nat /\ Len(trace[t]) \in Nat
        /\ trace[t] \in Seq(Seq(Calls)) /\ batch[t] \in Seq(Calls)
    BY LimitAssumption DEF Pace, ATypeOK
  <2>3. Paced(t)'
    <3> USE <2>2, LimitAssumption DEF Paced
    <3>1. CASE Load(t)
      BY <3>1 DEF Load, ATypeOK
    <3>2. ASSUME Throw(t) PROVE Paced(t)'
      BY <3>2 DEF Throw, Forget, ATypeOK
    <3>3. CASE Plan(t)
      <4>1. CASE ~OutOfSteps(t)
        BY <3>3, <4>1 DEF Plan, OutOfSteps, ATypeOK
      <4> QED BY <3>2, <3>3, <4>1 DEF Plan
    <3>4. CASE ModelFails(t)
      BY <3>2, <3>4 DEF ModelFails
    <3>5. ASSUME NEW i \in DOMAIN batch[t], ToolStep(t, i) \/ ToolFail(t, i) PROVE Paced(t)'
      BY <3>5 DEF ToolStep, ToolFail
    <3>6. CASE Gather(t)
      <4>1. CASE ~OutOfSteps(t)
        <5>1. pc'[t] = "planner" /\ steps'[t] = steps[t] + 1 /\ trace'[t] = Append(trace[t], batch[t])
          BY <3>6, <4>1 DEF Gather, ATypeOK
        <5>2. Len(trace'[t]) = Len(trace[t]) + 1
          BY <5>1
        <5> QED BY <3>6, <4>1, <5>1, <5>2 DEF Gather, OutOfSteps
      <4> QED BY <3>2, <3>6, <4>1 DEF Gather
    <3>7. CASE Synthesize(t)
      BY <3>7 DEF Synthesize, ATypeOK
    <3>8. CASE Save(t)
      BY <3>8 DEF Save, Forget, ATypeOK
    <3> QED BY <1>4, <3>1, <3>3, <3>4, <3>5, <3>6, <3>7, <3>8 DEF TurnStep
  <2> QED BY <2>1, <2>3 DEF Pace
<1> QED BY <1>1, <1>2, <1>3, <1>4, NextIs DEF AllOver
-----------------------------------------------------------------------------
(* What a saved turn leaves of the conversation: with n pairs before it, the    *)
(* first of them is dropped when there are as many as are kept.                *)
Dropped(n) == IF n < MAX_HISTORY_PAIRS THEN 0 ELSE 1

\* What a conversation is after its oldest pairs are dropped and one is added.
LEMMA UpdatedIs ==
    ASSUME ATypeOK, NEW t \in Turns, NEW n \in 0..MAX_HISTORY_PAIRS, Len(history[t]) = 2 * n
    PROVE  LET u == Updated(t)
               d == Dropped(n)
               m == n + 1 - d
           IN  /\ u \in Seq(Messages) /\ Len(u) = 2 * m /\ m \in 1..MAX_HISTORY_PAIRS
               /\ \A k \in 1..2 * m - 2 : u[k] = history[t][k + 2 * d]
               /\ u[2 * m - 1] = [role |-> "human", turn |-> t]
               /\ u[2 * m] = [role |-> "ai", turn |-> t]
<1> USE LimitAssumption
<1> DEFINE h == history[t]
           s == h \o Pair(t)
           d == Dropped(n)
           m == n + 1 - d
<1>1. h \in Seq(Messages) /\ Pair(t) \in Seq(Messages) /\ Len(Pair(t)) = 2
  <2> DEFINE a == [role |-> "human", turn |-> t]
             b == [role |-> "ai", turn |-> t]
  <2>1. a \in Messages /\ b \in Messages
    BY DEF Messages
  <2>2. Pair(t) = <<a, b>>
    BY DEF Pair
  <2> HIDE DEF a, b
  <2> QED BY <2>1, <2>2 DEF ATypeOK
<1>2. /\ s \in Seq(Messages) /\ Len(s) = Len(h) + 2
      /\ \A k \in 1..Len(h) + 2 : s[k] = IF k <= Len(h) THEN h[k] ELSE Pair(t)[k - Len(h)]
  <2> DEFINE q == Pair(t)
  <2>1. q \in Seq(Messages) /\ Len(q) = 2 /\ h \in Seq(Messages)
    BY <1>1
  <2>2. s = h \o q
    OBVIOUS
  <2> HIDE DEF q, h, s
  <2>3. /\ h \o q \in Seq(Messages) /\ Len(h \o q) = Len(h) + Len(q)
        /\ \A k \in 1..Len(h) + Len(q) : (h \o q)[k] = IF k <= Len(h) THEN h[k] ELSE q[k - Len(h)]
    BY <2>1, ConcatProperties
  <2>4. /\ s \in Seq(Messages) /\ Len(s) = Len(h) + 2
        /\ \A k \in 1..Len(h) + 2 : s[k] = IF k <= Len(h) THEN h[k] ELSE q[k - Len(h)]
    BY <2>1, <2>2, <2>3
  <2> QED BY <2>4 DEF q
<1>3. /\ \A k \in 1..2 * n : s[k] = h[k]
      /\ s[2 * n + 1] = Pair(t)[1] /\ s[2 * n + 2] = Pair(t)[2]
  <2> HIDE DEF s, h
  <2>1. Len(h) = 2 * n
    BY DEF h
  <2> QED BY <1>2, <2>1
<1>5. Updated(t) = SubSeq(s, 2 * d + 1, Len(s))
  <2>1. n = MAX_HISTORY_PAIRS \/ n < MAX_HISTORY_PAIRS
    OBVIOUS
  <2>2. Updated(t) = Trimmed(s)
    BY DEF Updated
  <2>3. Len(s) = 2 * n + 2
    BY <1>2
  <2> HIDE DEF s
  <2>4. CASE n = MAX_HISTORY_PAIRS
    <3>1. d = 1
      BY <2>4 DEF Dropped
    <3>2. Trimmed(s) = SubSeq(s, 3, Len(s))
      BY <2>3, <2>4 DEF Trimmed
    <3> QED BY <2>2, <3>1, <3>2
  <2>5. CASE n < MAX_HISTORY_PAIRS
    <3>1. d = 0
      BY <2>5 DEF Dropped
    <3>2. Trimmed(s) = SubSeq(s, 1, Len(s))
      BY <2>3, <2>5 DEF Trimmed
    <3> QED BY <2>2, <3>1, <3>2
  <2> QED BY <2>1, <2>4, <2>5
<1>6. d \in {0, 1} /\ m \in 1..MAX_HISTORY_PAIRS /\ d <= n
  BY DEF Dropped
<1>7. /\ Updated(t) \in Seq(Messages) /\ Len(Updated(t)) = 2 * m
      /\ \A k \in 1..2 * m : Updated(t)[k] = s[k + 2 * d]
  <2> HIDE DEF s, d
  <2>1. \A k \in 2 * d + 1 .. Len(s) : s[k] \in Messages
    BY <1>2, <1>6
  <2>2. Len(s) - (2 * d + 1) + 1 = 2 * m
    BY <1>2, <1>6
  <2> QED BY <1>2, <1>5, <1>6, <2>1, <2>2, SubSeqProperties, SMTT(20)
<1>8. \A k \in 1..2 * m - 2 : Updated(t)[k] = h[k + 2 * d]
  <2> SUFFICES ASSUME NEW k \in 1..2 * m - 2 PROVE Updated(t)[k] = h[k + 2 * d]
    OBVIOUS
  <2> HIDE DEF s, d, h
  <2>1. k + 2 * d \in 1..2 * n /\ k \in 1..2 * m
    BY <1>6
  <2> QED BY <1>3, <1>7, <2>1
<1>9. Updated(t)[2 * m - 1] = Pair(t)[1] /\ Updated(t)[2 * m] = Pair(t)[2]
  <2> HIDE DEF s, d, h
  <2>1. 2 * m - 1 + 2 * d = 2 * n + 1 /\ 2 * m + 2 * d = 2 * n + 2
    BY <1>6
  <2>2. 2 * m - 1 \in 1..2 * m /\ 2 * m \in 1..2 * m
    BY <1>6
  <2> QED BY <1>3, <1>7, <2>1, <2>2
<1> QED BY <1>6, <1>7, <1>8, <1>9 DEF Pair

(* The stored conversation and those the turns loaded are of this length.      *)
Even == /\ \E n \in 0..MAX_HISTORY_PAIRS : Len(context) = 2 * n
        /\ \A t \in Turns : \E n \in 0..MAX_HISTORY_PAIRS : Len(history[t]) = 2 * n

\* At first every conversation is empty.
LEMMA EvenInit == AInit => Even
<1> SUFFICES ASSUME AInit PROVE Even
  OBVIOUS
<1>1. 0 \in 0..MAX_HISTORY_PAIRS /\ Len(<<>>) = 2 * 0
  BY LimitAssumption
<1> QED BY <1>1 DEF AInit, Even

\* A conversation grows by a question and an answer, and shrinks by pairs.
LEMMA EvenStep == ATypeOK /\ Even /\ [ANext]_avars => Even'
<1> SUFFICES ASSUME ATypeOK, Even, [ANext]_avars PROVE Even'
  OBVIOUS
<1>0. 0 \in 0..MAX_HISTORY_PAIRS /\ Len(<<>>) = 2 * 0
  BY LimitAssumption
<1>1. CASE UNCHANGED avars
  BY <1>1 DEF avars, Even
<1>2. CASE Expire \/ Crash
  BY <1>0, <1>2 DEF Expire, Crash, Even, stored
<1>3. ASSUME NEW t \in Turns, TurnStep(t) PROVE Even'
  <2> SUFFICES /\ \E n \in 0..MAX_HISTORY_PAIRS : Len(context') = 2 * n
               /\ \E n \in 0..MAX_HISTORY_PAIRS : Len(history'[t]) = 2 * n
    BY <1>3, Others DEF Even
  <2>1. Throw(t) => history'[t] = <<>>
    BY DEF Throw, Forget, ATypeOK
  <2>2. CASE Load(t)
    BY <1>0, <2>2 DEF Load, Even, ATypeOK, stored
  <2>3. CASE Plan(t) \/ ModelFails(t)
    BY <1>0, <2>1, <2>3 DEF Plan, ModelFails, Even, stored
  <2>4. ASSUME NEW i \in DOMAIN batch[t], ToolStep(t, i) \/ ToolFail(t, i)
        PROVE  UNCHANGED <<context, history>>
    BY <2>4 DEF ToolStep, ToolFail, stored
  <2>5. CASE Gather(t) \/ Synthesize(t)
    BY <1>0, <2>1, <2>5 DEF Gather, Synthesize, Even, stored
  <2>6. CASE Save(t)
    <3>1. history'[t] = <<>>
      BY <2>6 DEF Save, Forget, ATypeOK
    <3>2. PICK n \in 0..MAX_HISTORY_PAIRS : Len(history[t]) = 2 * n
      BY DEF Even
    <3>3. \E m \in 0..MAX_HISTORY_PAIRS : Len(Updated(t)) = 2 * m
      <4> DEFINE m == n + 1 - Dropped(n)
      <4>1. Len(Updated(t)) = 2 * m /\ m \in 1..MAX_HISTORY_PAIRS
        BY <3>2, UpdatedIs
      <4> HIDE DEF m
      <4> QED BY <4>1, LimitAssumption
    <3> QED BY <1>0, <2>6, <3>1, <3>3 DEF Save, Even
  <2> QED BY <1>3, <2>2, <2>3, <2>4, <2>5, <2>6 DEF TurnStep, Even
<1> QED BY <1>1, <1>2, <1>3, NextIs DEF AllOver
-----------------------------------------------------------------------------
(* Types.                                                                     *)

\* The empty sheet is a sheet.
LEMMA BlanksType == Blanks \in [Positions -> Tags \cup {Empty}]
BY DEF Blanks

\* The initial states are well typed.
LEMMA TypeInit == AInit => ATypeOK
<1> SUFFICES ASSUME AInit PROVE ATypeOK
  OBVIOUS
<1>1. /\ <<>> \in Seq(Messages) /\ <<>> \in Seq(Calls) /\ <<>> \in Seq(Seq(Calls))
      /\ <<>> \in Seq(Turns) /\ 0 \in 0..RECURSION_LIMIT
  BY LimitAssumption
<1> QED BY <1>1, BlanksType DEF AInit, ATypeOK

\* Dropping what a turn held keeps the types.
LEMMA ForgetTypes ==
    ASSUME ATypeOK, NEW t \in Turns, Forget(t)
    PROVE  /\ history' \in [Turns -> Seq(Messages)] /\ steps' \in [Turns -> 0..RECURSION_LIMIT]
           /\ batch' \in [Turns -> Seq(Calls)] /\ trace' \in [Turns -> Seq(Seq(Calls))]
           /\ view' \in [Turns -> [Positions -> Tags \cup {Empty}]] /\ alone' \in [Turns -> BOOLEAN]
<1>1. /\ <<>> \in Seq(Messages) /\ <<>> \in Seq(Calls) /\ <<>> \in Seq(Seq(Calls))
      /\ 0 \in 0..RECURSION_LIMIT
  BY LimitAssumption
<1> QED BY <1>1, BlanksType DEF ATypeOK, Forget

\* The planner's calls, numbered, are calls.
LEMMA NumberedType ==
    ASSUME ATypeOK, NEW t \in Turns, NEW asked \in Menu[t] \cup {<<>>}
    PROVE  Numbered(t, asked) \in Seq(Calls)
<1>1. asked \in Seq([kind: ToolKinds, cells: Seq(Positions)])
  <2>1. <<>> \in Seq([kind: ToolKinds, cells: Seq(Positions)])
    OBVIOUS
  <2> QED BY <2>1, MenuAssumption
<1>2. Len(trace[t]) \in Nat /\ Len(asked) \in Nat
  BY <1>1 DEF ATypeOK
<1>3. ASSUME NEW i \in 1..Len(asked)
      PROVE  [kind |-> asked[i].kind, cells |-> asked[i].cells,
              tag |-> <<t, Len(trace[t]) + 1, i>>, done |-> 0, state |-> "running"] \in Calls
  <2>1. asked[i] \in [kind: ToolKinds, cells: Seq(Positions)]
    BY <1>1, ElementOfSeq
  <2>2. <<t, Len(trace[t]) + 1, i>> \in Tags
    BY <1>2 DEF Tags
  <2> QED BY <2>1, <2>2 DEF Calls
<1> QED BY <1>2, <1>3 DEF Numbered

\* The types are kept by every step.
LEMMA TypeStep == ATypeOK /\ Pace /\ Even /\ [ANext]_avars => ATypeOK'
<1> SUFFICES ASSUME ATypeOK, Pace, Even, [ANext]_avars PROVE ATypeOK'
  OBVIOUS
<1>0. /\ <<>> \in Seq(Messages) /\ <<>> \in Seq(Calls) /\ <<>> \in Seq(Seq(Calls))
      /\ <<>> \in Seq(Turns) /\ 0 \in 0..RECURSION_LIMIT
  BY LimitAssumption
<1>1. CASE UNCHANGED avars
  BY <1>1 DEF avars, ATypeOK
<1>2. CASE Expire
  BY <1>0, <1>2 DEF Expire, ATypeOK
<1>3. CASE Crash
  BY <1>0, <1>3, BlanksType DEF Crash, ATypeOK, stored
<1>4. ASSUME NEW t \in Turns, TurnStep(t) PROVE ATypeOK'
  <2> USE DEF stored
  <2>1. Throw(t) => /\ pc' \in [Turns -> {"idle", "planner", "tools", "synthesizer", "save",
                                           "answered", "failed"}]
                    /\ Forget(t)
    BY DEF Throw, ATypeOK
  <2>2. steps[t] < RECURSION_LIMIT /\ pc[t] \in {"planner", "tools", "synthesizer"}
           => steps[t] + 1 \in 0..RECURSION_LIMIT
    BY LimitAssumption DEF ATypeOK
  <2>3. CASE Load(t)
    <3>2. past' \in [Turns -> SUBSET Turns] /\ view' \in [Turns -> [Positions -> Tags \cup {Empty}]]
      BY <2>3 DEF Load, ATypeOK
    <3>3. history' \in [Turns -> Seq(Messages)] /\ orderly' \in BOOLEAN
      BY <1>0, <2>3 DEF Load, ATypeOK
    <3> QED BY <2>3, <3>2, <3>3 DEF Load, ATypeOK
  <2>4. CASE Plan(t)
    <3>1. CASE Throw(t)
      BY <2>1, <2>4, <3>1, ForgetTypes DEF Plan, ATypeOK
    <3>2. CASE ~OutOfSteps(t)
      <4>1. PICK asked \in Menu[t] \cup {<<>>} :
              /\ batch' = [batch EXCEPT ![t] = Numbered(t, asked)]
              /\ pc' = [pc EXCEPT ![t] = IF asked = <<>> THEN "synthesizer" ELSE "tools"]
        BY <2>4, <3>2 DEF Plan
      <4>2. steps' \in [Turns -> 0..RECURSION_LIMIT]
        BY <2>2, <2>4, <3>2 DEF Plan, ATypeOK, Pace, Paced
      <4> QED BY <2>4, <3>2, <4>1, <4>2, NumberedType DEF Plan, ATypeOK
    <3> QED BY <2>4, <3>1, <3>2 DEF Plan
  <2>5. CASE ModelFails(t)
    BY <2>1, <2>5, ForgetTypes DEF ModelFails, ATypeOK
  <2>6. ASSUME NEW i \in DOMAIN batch[t], ToolStep(t, i) PROVE ATypeOK'
    <3> DEFINE c == batch[t][i]
    <3>1. c \in Calls /\ batch[t] \in Seq(Calls) /\ i \in 1..Len(batch[t])
      BY DEF ATypeOK
    <3>2. /\ c.tag \in Tags /\ c.done \in Nat /\ c.cells \in Seq(Positions)
          /\ c.kind \in {"read", "set_cells", "delete_cells", "add_comment"}
      BY <3>1 DEF Calls, ToolKinds
    <3>3. PICK s \in {"running", "ok"} :
            batch' = [batch EXCEPT ![t][i].done = @ + 1, ![t][i].state = s]
      BY <2>6 DEF ToolStep
    <3>4. [c EXCEPT !.done = @ + 1, !.state = s] \in Calls
      <4> DEFINE d == [c EXCEPT !.done = c.done + 1]
      <4> HIDE DEF c
      <4>1. d \in Calls
        <5> DEFINE n == c.done + 1
        <5>1. n \in Nat
          BY <3>2
        <5> HIDE DEF n
        <5>2. [c EXCEPT !.done = n] \in Calls
          BY <3>1, <5>1 DEF Calls
        <5> QED BY <5>2 DEF n
      <4>2. [d EXCEPT !.state = s] \in Calls
        <5> HIDE DEF d
        <5> QED BY <4>1 DEF Calls
      <4> QED BY <4>2, Zenon
    <3>5. batch' \in [Turns -> Seq(Calls)]
      <4>1. [batch[t] EXCEPT ![i] = [c EXCEPT !.done = @ + 1, !.state = s]] \in Seq(Calls)
        <5> HIDE DEF c
        <5> QED BY <3>1, <3>4, ExceptSeq
      <4>2. batch' = [batch EXCEPT ![t] = [batch[t] EXCEPT ![i] = [c EXCEPT !.done = @ + 1, !.state = s]]]
        BY <3>1, <3>3 DEF ATypeOK
      <4> HIDE DEF c
      <4> QED BY <4>1, <4>2 DEF ATypeOK
    <3>6. /\ \/ cells' = cells
             \/ \E q : cells' = [cells EXCEPT ![q] = c.tag]
             \/ cells' = [p \in Positions |-> IF p \in ToSet(c.cells) THEN Empty ELSE cells[p]]
          /\ comments' \subseteq comments \cup {c.tag}
          /\ alone' = alone \/ Disturb(t)
      <4> HIDE DEF c
      <4>1. ToolStep(t, i) =>
              CASE c.kind = "set_cells" ->
                     /\ cells' = [cells EXCEPT ![c.cells[c.done + 1]] = c.tag]
                     /\ Disturb(t) /\ UNCHANGED comments
                [] c.kind = "delete_cells" ->
                     /\ cells' = [p \in Positions |-> IF p \in ToSet(c.cells) THEN Empty ELSE cells[p]]
                     /\ Disturb(t) /\ UNCHANGED comments
                [] c.kind = "add_comment" ->
                     /\ comments' = comments \cup {c.tag}
                     /\ UNCHANGED <<cells, alone>>
                [] c.kind = "read" -> UNCHANGED <<cells, comments, alone>>
        BY DEF ToolStep, c
      <4> QED BY <2>6, <3>2, <4>1
    <3>7. cells' \in [Positions -> Tags \cup {Empty}] /\ comments' \subseteq Tags
      <4> HIDE DEF c
      <4> QED BY <3>2, <3>6 DEF ATypeOK
    <3>8. alone' \in [Turns -> BOOLEAN]
      BY <3>6 DEF Disturb, ATypeOK
    <3> QED BY <2>6, <3>5, <3>6, <3>7, <3>8 DEF ToolStep, ATypeOK
  <2>7. ASSUME NEW i \in DOMAIN batch[t], ToolFail(t, i) PROVE ATypeOK'
    <3> DEFINE c == batch[t][i]
    <3>1. c \in Calls /\ batch[t] \in Seq(Calls) /\ i \in 1..Len(batch[t])
      BY DEF ATypeOK
    <3>2. [c EXCEPT !.state = "failed"] \in Calls
      BY <3>1 DEF Calls
    <3>3. batch' \in [Turns -> Seq(Calls)]
      <4>1. [batch[t] EXCEPT ![i] = [c EXCEPT !.state = "failed"]] \in Seq(Calls)
        <5> HIDE DEF c
        <5> QED BY <3>1, <3>2, ExceptSeq
      <4>2. batch' = [batch EXCEPT ![t] = [batch[t] EXCEPT ![i] = [c EXCEPT !.state = "failed"]]]
        BY <2>7, <3>1 DEF ToolFail, ATypeOK
      <4> HIDE DEF c
      <4> QED BY <4>1, <4>2 DEF ATypeOK
    <3> QED BY <2>7, <3>3 DEF ToolFail, ATypeOK
  <2>8. CASE Gather(t)
    <3>1. CASE Throw(t)
      BY <2>1, <2>8, <3>1, ForgetTypes DEF Gather, ATypeOK
    <3>2. CASE ~OutOfSteps(t)
      <4>1. Append(trace[t], batch[t]) \in Seq(Seq(Calls))
        BY DEF ATypeOK
      <4>2. steps' \in [Turns -> 0..RECURSION_LIMIT]
        BY <2>2, <2>8, <3>2 DEF Gather, ATypeOK, Pace, Paced
      <4> QED BY <1>0, <2>8, <3>2, <4>1, <4>2 DEF Gather, ATypeOK
    <3> QED BY <2>8, <3>1, <3>2 DEF Gather
  <2>9. CASE Synthesize(t)
    BY <2>2, <2>9 DEF Synthesize, ATypeOK, Pace, Paced
  <2>10. CASE Save(t)
    <3>1. Updated(t) \in Seq(Messages)
      <4>1. PICK n \in 0..MAX_HISTORY_PAIRS : Len(history[t]) = 2 * n
        BY DEF Even
      <4> QED BY <4>1, UpdatedIs
    <3>2. Append(saves, t) \in Seq(Turns)
      BY DEF ATypeOK
    <3>3. context' \in Seq(Messages) /\ saves' \in Seq(Turns) /\ orderly' \in BOOLEAN
      BY <2>10, <3>1, <3>2 DEF Save, ATypeOK
    <3> QED BY <2>10, <3>3, ForgetTypes DEF Save, ATypeOK
  <2> QED BY <1>4, <2>3, <2>4, <2>5, <2>6, <2>7, <2>8, <2>9, <2>10 DEF TurnStep
<1> QED BY <1>1, <1>2, <1>3, <1>4, NextIs DEF AllOver
-----------------------------------------------------------------------------
(* The conversation.                                                          *)

\* The i-th turn of a conversation.
TurnOf(s, i) == s[2 * i].turn

(* A conversation of n whole turns, each answered before the next was asked.   *)
Whole(s, n) ==
    /\ Len(s) = 2 * n
    /\ \A i \in 1..n :
         /\ s[2 * i - 1] = [role |-> "human", turn |-> TurnOf(s, i)]
         /\ s[2 * i] = [role |-> "ai", turn |-> TurnOf(s, i)]
         /\ TurnOf(s, i) \in Turns /\ pc[TurnOf(s, i)] = "answered"
         /\ \A j \in 1..i - 1 : TurnOf(s, j) \in past[TurnOf(s, i)]

(* The turns of a conversation are among these.                               *)
Within(s, n, set) == \A i \in 1..n : TurnOf(s, i) \in set

(* What is stored is a conversation, and so is what a turn loaded, of turns     *)
(* answered before.                                                           *)
Memory ==
    /\ \E n \in 0..MAX_HISTORY_PAIRS : Whole(context, n)
    /\ \A t \in Turns : \E n \in 0..MAX_HISTORY_PAIRS :
          Whole(history[t], n) /\ (Running(t) => Within(history[t], n, past[t]))

\* An empty conversation is whole, and within any set of turns.
LEMMA WholeEmpty == 0 \in 0..MAX_HISTORY_PAIRS /\ Whole(<<>>, 0) /\ \A set : Within(<<>>, 0, set)
BY LimitAssumption DEF Whole, Within

\* The stored and the loaded conversations are whole at first.
LEMMA MemoryInit == AInit => Memory
<1> SUFFICES ASSUME AInit PROVE Memory
  OBVIOUS
<1> QED BY WholeEmpty DEF AInit, Memory

(* The steps that neither load nor save a conversation.                        *)
Quiet(t) ==
    /\ UNCHANGED <<context, saves, past>>
    /\ \A u \in Turns : pc'[u] = "answered" <=> pc[u] = "answered"
    /\ \A u \in Turns : Running(u)' => Running(u)
    /\ history' = history \/ (history'[t] = <<>> /\ ~Running(t)')
    /\ orderly' = orderly

\* Only loading and saving touch conversations.
LEMMA QuietSteps ==
    ASSUME ATypeOK, NEW t \in Turns, TurnStep(t)
    PROVE  Load(t) \/ Save(t) \/ Quiet(t)
<1> USE DEF Quiet, Running, stored
<1>1. ASSUME Throw(t), pc[t] \in {"planner", "tools", "synthesizer"}
      PROVE  /\ history'[t] = <<>> /\ pc'[t] = "failed"
             /\ \A u \in Turns : (pc'[u] = "answered" <=> pc[u] = "answered") /\ (Running(u)' => Running(u))
  BY <1>1 DEF Throw, Forget, ATypeOK
<1>2. CASE Plan(t)
  <2>1. CASE ~OutOfSteps(t)
    <3>1. PICK l \in {"synthesizer", "tools"} : pc' = [pc EXCEPT ![t] = l]
      BY <1>2, <2>1 DEF Plan
    <3> QED BY <1>2, <2>1, <3>1 DEF Plan, ATypeOK
  <2> QED BY <1>1, <1>2, <2>1 DEF Plan
<1>3. CASE ModelFails(t)
  BY <1>1, <1>3 DEF ModelFails
<1>4. CASE \E i \in DOMAIN batch[t] : ToolStep(t, i) \/ ToolFail(t, i)
  BY <1>4 DEF ToolStep, ToolFail
<1>5. CASE Gather(t)
  <2>1. CASE ~OutOfSteps(t)
    BY <1>5, <2>1 DEF Gather, ATypeOK
  <2> QED BY <1>1, <1>5, <2>1 DEF Gather
<1>6. CASE Synthesize(t)
  BY <1>6 DEF Synthesize, ATypeOK
<1> QED BY <1>2, <1>3, <1>4, <1>5, <1>6 DEF TurnStep

(* A conversation stays what it is while its turns do.                         *)
LEMMA WholeStays ==
    ASSUME NEW s, NEW n \in Nat, Whole(s, n),
           \A u \in Turns : pc[u] = "answered" => pc'[u] = "answered" /\ past'[u] = past[u]
    PROVE  /\ Len(s) = 2 * n
           /\ \A i \in 1..n :
                /\ s[2 * i - 1] = [role |-> "human", turn |-> TurnOf(s, i)]
                /\ s[2 * i] = [role |-> "ai", turn |-> TurnOf(s, i)]
                /\ TurnOf(s, i) \in Turns /\ pc'[TurnOf(s, i)] = "answered"
                /\ \A j \in 1..i - 1 : TurnOf(s, j) \in past'[TurnOf(s, i)]
BY DEF Whole

(* A saved turn makes a whole conversation of itself and what it loaded.       *)
LEMMA SavedWhole ==
    ASSUME ATypeOK, NEW t \in Turns, NEW n \in 0..MAX_HISTORY_PAIRS, Whole(history[t], n),
           Within(history[t], n, past[t])
    PROVE  LET u == Updated(t)
               d == Dropped(n)
               m == n + 1 - d
           IN  /\ m \in 1..MAX_HISTORY_PAIRS /\ Len(u) = 2 * m
               /\ \A i \in 1..m - 1 : /\ i + d \in 1..n
                                      /\ TurnOf(u, i) = TurnOf(history[t], i + d)
                                      /\ u[2 * i - 1] = history[t][2 * (i + d) - 1]
                                      /\ u[2 * i] = history[t][2 * (i + d)]
               /\ TurnOf(u, m) = t
               /\ u[2 * m - 1] = [role |-> "human", turn |-> t]
               /\ u[2 * m] = [role |-> "ai", turn |-> t]
<1> DEFINE u == Updated(t)
           h == history[t]
           d == Dropped(n)
           m == n + 1 - d
<1>1. Len(h) = 2 * n
  BY DEF Whole
<1>2. d \in {0, 1} /\ d <= n
  BY LimitAssumption DEF Dropped
<1>3. /\ Len(u) = 2 * m /\ m \in 1..MAX_HISTORY_PAIRS
      /\ \A k \in 1..2 * m - 2 : u[k] = h[k + 2 * d]
      /\ u[2 * m - 1] = [role |-> "human", turn |-> t]
      /\ u[2 * m] = [role |-> "ai", turn |-> t]
  BY <1>1, UpdatedIs
<1>4. ASSUME NEW i \in 1..m - 1
      PROVE  /\ i + d \in 1..n
             /\ u[2 * i - 1] = h[2 * (i + d) - 1] /\ u[2 * i] = h[2 * (i + d)]
  <2> HIDE DEF u, h, d
  <2>1. /\ i + d \in 1..n /\ 2 * i - 1 \in 1..2 * m - 2 /\ 2 * i \in 1..2 * m - 2
        /\ 2 * i - 1 + 2 * d = 2 * (i + d) - 1 /\ 2 * i + 2 * d = 2 * (i + d)
    BY <1>2, <1>4
  <2> QED BY <1>3, <2>1
<1>5. TurnOf(u, m) = t
  BY <1>3 DEF TurnOf
<1> HIDE DEF u, h, d
<1>6. ASSUME NEW i \in 1..m - 1 PROVE TurnOf(u, i) = TurnOf(h, i + d)
  BY <1>4, <1>6 DEF TurnOf
<1> QED BY <1>3, <1>4, <1>5, <1>6 DEF u, h, d

(* A conversation that was whole, and now is called x.                         *)
LEMMA WholeAs ==
    ASSUME \A u \in Turns : pc[u] = "answered" => pc'[u] = "answered" /\ past'[u] = past[u]
    PROVE  /\ \A n \in Nat : Whole(context, n) /\ context' = context => Whole(context, n)'
           /\ \A n \in Nat, t \in Turns :
                Whole(history[t], n) /\ history'[t] = history[t] => Whole(history[t], n)'
           /\ \A n \in Nat, t \in Turns :
                Whole(context, n) /\ history'[t] = context => Whole(history[t], n)'
<1>1. ASSUME NEW n \in Nat, Whole(context, n), context' = context PROVE Whole(context, n)'
  BY <1>1, WholeStays DEF Whole, TurnOf
<1>2. ASSUME NEW n \in Nat, NEW t \in Turns, Whole(history[t], n), history'[t] = history[t]
      PROVE  Whole(history[t], n)'
  BY <1>2, WholeStays DEF Whole, TurnOf
<1>3. ASSUME NEW n \in Nat, NEW t \in Turns, Whole(context, n), history'[t] = context
      PROVE  Whole(history[t], n)'
  BY <1>3, WholeStays DEF Whole, TurnOf
<1> QED BY <1>1, <1>2, <1>3

\* A conversation that is dropped leaves an empty one.
LEMMA WholeForgotten ==
    /\ 0 \in 0..MAX_HISTORY_PAIRS
    /\ \A t \in Turns : history'[t] = <<>> => Whole(history[t], 0)'
    /\ context' = <<>> => Whole(context, 0)'
BY LimitAssumption DEF Whole, Within, TurnOf

\* Conversations stay whole pairs of turns that were answered.
LEMMA MemoryStep == ATypeOK /\ Memory /\ [ANext]_avars => Memory'
<1> SUFFICES ASSUME ATypeOK, Memory, [ANext]_avars PROVE Memory'
  OBVIOUS
<1>0. 0..MAX_HISTORY_PAIRS \subseteq Nat
  BY LimitAssumption
<1>1. CASE UNCHANGED avars
  BY <1>1, ZenonT(40) DEF avars, Memory, Whole, Within, TurnOf, Running
<1>2. CASE Expire
  <2>1. /\ context' = <<>> /\ saves' = <<>> /\ UNCHANGED <<pc, history, past>>
    BY <1>2 DEF Expire
  <2>2. \A t \in Turns : \E n \in 0..MAX_HISTORY_PAIRS :
          Whole(history[t], n)' /\ (Running(t) => Within(history[t], n, past[t]))'
    BY <1>0, <2>1, ZenonT(40) DEF Memory, Whole, Within, TurnOf, Running
  <2> QED BY <2>1, <2>2, WholeForgotten DEF Memory
<1>3. CASE Crash
  <2>1. /\ UNCHANGED <<context, saves, past>> /\ \A t \in Turns : history'[t] = <<>> /\ ~Running(t)'
        /\ \A u \in Turns : pc[u] = "answered" => pc'[u] = "answered"
    BY <1>3 DEF Crash, Running, stored
  <2>2. \E n \in 0..MAX_HISTORY_PAIRS : Whole(context, n)'
    <3>1. PICK n \in 0..MAX_HISTORY_PAIRS : Whole(context, n)
      BY DEF Memory
    <3> QED BY <1>0, <2>1, <3>1, WholeAs DEF Within, TurnOf
  <2>3. \A t \in Turns : \E n \in 0..MAX_HISTORY_PAIRS :
          Whole(history[t], n)' /\ (Running(t) => Within(history[t], n, past[t]))'
    BY <2>1, WholeForgotten
  <2> QED BY <2>2, <2>3 DEF Memory
<1>4. ASSUME NEW t \in Turns, TurnStep(t) PROVE Memory'
  <2>0. \A u \in Turns \ {t} : history'[u] = history[u] /\ pc'[u] = pc[u] /\ past'[u] = past[u]
    BY <1>4, Others
  <2>1. PICK n \in 0..MAX_HISTORY_PAIRS : Whole(context, n)
    BY DEF Memory
  <2>2. CASE Quiet(t)
    <3>1. \A u \in Turns : pc[u] = "answered" => pc'[u] = "answered" /\ past'[u] = past[u]
      BY <2>2 DEF Quiet
    <3>2. Whole(context, n)'
      BY <1>0, <2>1, <2>2, <3>1, WholeAs DEF Quiet, Within, TurnOf
    <3>3. ASSUME NEW u \in Turns
          PROVE  \E m \in 0..MAX_HISTORY_PAIRS :
                   Whole(history[u], m)' /\ (Running(u) => Within(history[u], m, past[u]))'
      <4>1. CASE history'[u] = history[u]
        <5>1. PICK m \in 0..MAX_HISTORY_PAIRS :
                Whole(history[u], m) /\ (Running(u) => Within(history[u], m, past[u]))
          BY DEF Memory
        <5>2. Whole(history[u], m)'
          BY <1>0, <3>1, <4>1, <5>1, WholeAs
        <5>3. (Running(u) => Within(history[u], m, past[u]))'
          BY <2>2, <4>1, <5>1 DEF Quiet, Within, TurnOf
        <5> QED BY <5>2, <5>3
      <4>2. CASE history'[u] = <<>> /\ ~Running(u)'
        BY <4>2, WholeForgotten
      <4> QED BY <2>0, <2>2, <4>1, <4>2 DEF Quiet
    <3> QED BY <3>2, <3>3 DEF Memory
  <2>3. CASE Load(t)
    <3>1. /\ UNCHANGED <<context, saves>> /\ pc[t] = "idle" /\ pc'[t] = "planner"
          /\ past'[t] = {u \in Turns : pc[u] = "answered"} /\ history'[t] \in {context, <<>>}
      BY <2>3 DEF Load, stored, ATypeOK
    <3>2. \A u \in Turns : pc[u] = "answered" => pc'[u] = "answered" /\ past'[u] = past[u]
      BY <2>0, <3>1
    <3>3. Whole(context, n)'
      BY <1>0, <2>1, <3>1, <3>2, WholeAs DEF Within, TurnOf
    <3>4. ASSUME NEW u \in Turns \ {t}
          PROVE  \E m \in 0..MAX_HISTORY_PAIRS :
                   Whole(history[u], m)' /\ (Running(u) => Within(history[u], m, past[u]))'
      <4>1. PICK m \in 0..MAX_HISTORY_PAIRS :
              Whole(history[u], m) /\ (Running(u) => Within(history[u], m, past[u]))
        BY DEF Memory
      <4>2. Whole(history[u], m)'
        BY <1>0, <2>0, <3>2, <4>1, WholeAs
      <4>3. (Running(u) => Within(history[u], m, past[u]))'
        BY <2>0, <4>1 DEF Within, TurnOf, Running
      <4> QED BY <4>2, <4>3
    <3>5. \E m \in 0..MAX_HISTORY_PAIRS :
            Whole(history[t], m)' /\ (Running(t) => Within(history[t], m, past[t]))'
      <4>1. CASE history'[t] = context
        <5>1. Whole(history[t], n)'
          BY <1>0, <2>1, <3>2, <4>1, WholeAs
        <5>2. Within(history[t], n, past[t])'
          BY <2>1, <3>1, <4>1 DEF Whole, Within, TurnOf
        <5> QED BY <5>1, <5>2
      <4>2. CASE history'[t] = <<>>
        BY <4>2, WholeForgotten DEF Within
      <4> QED BY <3>1, <4>1, <4>2
    <3> QED BY <3>3, <3>4, <3>5 DEF Memory
  <2>4. CASE Save(t)
    <3>1. /\ pc[t] = "save" /\ pc'[t] = "answered" /\ past' = past /\ history'[t] = <<>>
          /\ \/ context' = Updated(t) /\ saves' = Append(saves, t)
             \/ UNCHANGED <<context, saves>>
      BY <2>4 DEF Save, Forget, ATypeOK
    <3>2. \A u \in Turns : pc[u] = "answered" => pc'[u] = "answered" /\ past'[u] = past[u]
      BY <2>0, <3>1
    <3>3. ASSUME NEW u \in Turns
          PROVE  \E m \in 0..MAX_HISTORY_PAIRS :
                   Whole(history[u], m)' /\ (Running(u) => Within(history[u], m, past[u]))'
      <4>1. CASE u = t
        <5>1. ~Running(t)'
          BY <3>1 DEF Running
        <5> QED BY <3>1, <4>1, <5>1, WholeForgotten
      <4>2. CASE u # t
        <5>1. PICK m \in 0..MAX_HISTORY_PAIRS :
                Whole(history[u], m) /\ (Running(u) => Within(history[u], m, past[u]))
          BY DEF Memory
        <5>2. Whole(history[u], m)'
          BY <1>0, <2>0, <3>2, <4>2, <5>1, WholeAs
        <5>3. (Running(u) => Within(history[u], m, past[u]))'
          BY <2>0, <4>2, <5>1 DEF Within, TurnOf, Running
        <5> QED BY <5>2, <5>3
      <4> QED BY <4>1, <4>2
    <3>4. CASE UNCHANGED <<context, saves>>
      <4>1. Whole(context, n)'
        BY <1>0, <2>1, <3>2, <3>4, WholeAs DEF Within, TurnOf
      <4> QED BY <3>3, <4>1 DEF Memory
    <3>5. CASE context' = Updated(t) /\ saves' = Append(saves, t)
      <4>1. PICK l \in 0..MAX_HISTORY_PAIRS : Whole(history[t], l) /\ Within(history[t], l, past[t])
        BY <3>1 DEF Memory, Running
      <4> DEFINE u == Updated(t)
                 h == history[t]
                 d == Dropped(l)
                 m == l + 1 - d
      <4>2. /\ m \in 1..MAX_HISTORY_PAIRS /\ Len(u) = 2 * m
            /\ \A i \in 1..m - 1 : /\ i + d \in 1..l
                                   /\ TurnOf(u, i) = TurnOf(h, i + d)
                                   /\ u[2 * i - 1] = h[2 * (i + d) - 1]
                                   /\ u[2 * i] = h[2 * (i + d)]
            /\ TurnOf(u, m) = t
            /\ u[2 * m - 1] = [role |-> "human", turn |-> t]
            /\ u[2 * m] = [role |-> "ai", turn |-> t]
        BY <4>1, SavedWhole
      <4>3. d \in {0, 1}
        BY DEF Dropped
      <4> HIDE DEF u, h, d
      <4>4. ASSUME NEW i \in 1..m
            PROVE  /\ u[2 * i - 1] = [role |-> "human", turn |-> TurnOf(u, i)]
                   /\ u[2 * i] = [role |-> "ai", turn |-> TurnOf(u, i)]
                   /\ TurnOf(u, i) \in Turns /\ pc'[TurnOf(u, i)] = "answered"
                   /\ \A j \in 1..i - 1 : TurnOf(u, j) \in past'[TurnOf(u, i)]
        <5>1. \A k \in 1..l :
                /\ h[2 * k - 1] = [role |-> "human", turn |-> TurnOf(h, k)]
                /\ h[2 * k] = [role |-> "ai", turn |-> TurnOf(h, k)]
                /\ TurnOf(h, k) \in Turns /\ pc'[TurnOf(h, k)] = "answered"
                /\ TurnOf(h, k) \in past'[t]
                /\ \A j \in 1..k - 1 : TurnOf(h, j) \in past'[TurnOf(h, k)]
          BY <3>1, <3>2, <4>1 DEF Whole, Within, h
        <5>2. CASE i = m
          <6>1. \A j \in 1..m - 1 : TurnOf(u, j) \in past'[t]
            BY <4>2, <5>1
          <6> QED BY <3>1, <4>2, <5>2, <6>1
        <5>3. CASE i \in 1..m - 1
          <6>1. \A j \in 1..i - 1 : j \in 1..m - 1 /\ j + d \in 1..(i + d) - 1
            BY <4>2, <4>3, <5>3
          <6>2. i + d \in 1..l /\ TurnOf(u, i) = TurnOf(h, i + d)
            BY <4>2, <5>3
          <6>3. \A j \in 1..i - 1 : TurnOf(u, j) \in past'[TurnOf(u, i)]
            BY <4>2, <5>1, <6>1, <6>2
          <6> QED BY <4>2, <5>1, <5>3, <6>2, <6>3
        <5> QED BY <4>2, <5>2, <5>3
      <4>5. Whole(context, m)'
        BY <3>5, <4>2, <4>4 DEF Whole, TurnOf, u
      <4> QED BY <3>3, <4>2, <4>5 DEF Memory
    <3> QED BY <3>1, <3>4, <3>5
  <2> QED BY <1>4, <2>2, <2>3, <2>4, QuietSteps
<1> QED BY <1>1, <1>2, <1>3, <1>4, NextIs DEF AllOver
-----------------------------------------------------------------------------
(* Turns one after the other.                                                 *)

(* How many of k saved turns are kept.                                         *)
Kept(k) == IF k < MAX_HISTORY_PAIRS THEN k ELSE MAX_HISTORY_PAIRS

(* These are the last of the saved turns.                                      *)
Latest(s, saved) ==
    LET n == Kept(Len(saved)) IN
    /\ Len(s) = 2 * n
    /\ \A i \in 1..n : TurnOf(s, i) = saved[Len(saved) - n + i]

(* While nothing overlaps or fails, at most one turn runs, on what is stored.   *)
Sequential ==
    orderly =>
       /\ \A t \in Turns : Running(t) => history[t] = context /\ \A u \in Turns : Running(u) => u = t
       /\ Latest(context, saves)

\* At first nothing is saved and nothing runs.
LEMMA SequentialInit == AInit => Sequential
<1> SUFFICES ASSUME AInit PROVE Sequential
  OBVIOUS
<1>1. \A t \in Turns : ~Running(t)
  BY DEF AInit, Running
<1>2. Len(<<>>) = 0 /\ Kept(0) = 0
  BY LimitAssumption DEF Kept
<1> QED BY <1>1, <1>2 DEF AInit, Sequential, Latest

\* Saving a turn on top of the latest conversation gives the latest one.
LEMMA SavedLatest ==
    ASSUME ATypeOK, Memory, NEW t \in Turns, Running(t), Latest(history[t], saves)
    PROVE  Latest(Updated(t), Append(saves, t))
<1> DEFINE k == Len(saves)
           n == Kept(k)
           h == history[t]
           u == Updated(t)
           d == Dropped(n)
           m == n + 1 - d
           saved == Append(saves, t)
<1>1. k \in Nat /\ n \in 0..MAX_HISTORY_PAIRS /\ n <= k
  BY LimitAssumption DEF ATypeOK, Kept
<1>2. PICK l \in 0..MAX_HISTORY_PAIRS : Whole(h, l) /\ Within(h, l, past[t])
  BY DEF Memory
<1>3. l = n
  <2> HIDE DEF h, n, k
  <2>1. 2 * l = 2 * n
    BY <1>2 DEF Whole, Latest, h, n, k
  <2> QED BY <1>1, <1>2, <2>1
<1>4. /\ m \in 1..MAX_HISTORY_PAIRS /\ Len(u) = 2 * m
      /\ \A i \in 1..m - 1 : i + d \in 1..n /\ TurnOf(u, i) = TurnOf(h, i + d)
      /\ TurnOf(u, m) = t
  BY <1>2, <1>3, SavedWhole
<1>5. Len(saved) = k + 1 /\ saved[k + 1] = t /\ \A i \in 1..k : saved[i] = saves[i]
  BY DEF ATypeOK
<1>6. d \in {0, 1} /\ m = Kept(k + 1)
  <2>1. CASE k < MAX_HISTORY_PAIRS
    <3>1. n = k
      BY <2>1 DEF Kept
    <3> HIDE DEF n, k
    <3> QED BY <1>1, <2>1, <3>1, LimitAssumption DEF Kept, Dropped
  <2>2. CASE ~(k < MAX_HISTORY_PAIRS)
    <3>1. n = MAX_HISTORY_PAIRS
      BY <2>2 DEF Kept
    <3> HIDE DEF n, k
    <3> QED BY <1>1, <2>2, <3>1, LimitAssumption DEF Kept, Dropped
  <2> QED BY <2>1, <2>2
<1>7. (k + 1) - m = k - n + d
  BY <1>1, <1>6
<1>8. \A i \in 1..n : TurnOf(h, i) = saves[k - n + i]
  BY DEF Latest
<1> HIDE DEF k, n, h, u, d, saved
<1>9. ASSUME NEW i \in 1..m PROVE TurnOf(u, i) = saved[(k + 1) - m + i]
  <2>1. CASE i = m
    <3>1. (k + 1) - m + m = k + 1
      BY <1>1, <1>6
    <3> QED BY <1>4, <1>5, <2>1, <3>1
  <2>2. CASE i \in 1..m - 1
    <3>1. i + d \in 1..n /\ TurnOf(u, i) = TurnOf(h, i + d)
      BY <1>4, <2>2
    <3>2. /\ k - n + (i + d) = (k + 1) - m + i
          /\ (k + 1) - m + i \in 1..k
      BY <1>1, <1>6, <1>7, <2>2, <3>1
    <3> QED BY <1>5, <1>8, <3>1, <3>2
  <2> QED BY <1>4, <2>1, <2>2
<1>10. Len(u) = 2 * Kept(Len(saved)) /\ Kept(Len(saved)) = m
  BY <1>4, <1>5, <1>6
<1> QED BY <1>5, <1>9, <1>10 DEF Latest, u, saved

\* Turns that do not overlap keep the latest conversation stored.
LEMMA SequentialStep == ATypeOK /\ Memory /\ Sequential /\ [ANext]_avars => Sequential'
<1> SUFFICES ASSUME ATypeOK, Memory, Sequential, [ANext]_avars, orderly' PROVE Sequential'
  BY DEF Sequential
<1>1. CASE UNCHANGED avars
  BY <1>1 DEF avars, Sequential, Running
<1>2. CASE Expire
  <2>1. /\ context' = <<>> /\ saves' = <<>>
        /\ \A t \in Turns : ~Running(t)'
    BY <1>2 DEF Expire, Running, ATypeOK
  <2>2. Len(<<>>) = 0 /\ Kept(0) = 0
    BY LimitAssumption DEF Kept
  <2>3. Latest(<<>>, <<>>)
    <3>1. Kept(Len(<<>>)) = 0 /\ Len(<<>>) = 2 * 0 /\ 1..0 = {}
      BY <2>2
    <3> QED BY <3>1 DEF Latest
  <2>4. Latest(context', saves')
    BY <2>1, <2>3
  <2> QED BY <2>1, <2>4 DEF Sequential
<1>3. CASE Crash
  BY <1>3 DEF Crash, Sequential, Running, stored
<1>4. ASSUME NEW t \in Turns, TurnStep(t) PROVE Sequential'
  <2>0. \A u \in Turns \ {t} : history'[u] = history[u] /\ pc'[u] = pc[u]
    BY <1>4, Others
  <2>1. CASE Quiet(t)
    BY <2>0, <2>1 DEF Quiet, Sequential
  <2>2. CASE Load(t)
    <3>1. /\ UNCHANGED <<context, saves>> /\ history'[t] = context /\ orderly
          /\ \A u \in Turns : ~Running(u)
      BY <2>2 DEF Load, stored, ATypeOK
    <3>2. \A u \in Turns \ {t} : ~Running(u)'
      BY <2>0, <3>1 DEF Running
    <3> QED BY <3>1, <3>2 DEF Sequential
  <2>3. CASE Save(t)
    <3>1. /\ pc[t] = "save" /\ pc'[t] = "answered" /\ orderly
          /\ context' = Updated(t) /\ saves' = Append(saves, t)
      BY <2>3 DEF Save, ATypeOK
    <3>2. Running(t) /\ \A u \in Turns \ {t} : ~Running(u)
      BY <3>1 DEF Sequential, Running
    <3>3. \A u \in Turns : ~Running(u)'
      BY <2>0, <3>1, <3>2 DEF Running
    <3>4. Latest(history[t], saves)
      BY <3>1, <3>2 DEF Sequential
    <3> QED BY <3>1, <3>2, <3>3, <3>4, SavedLatest DEF Sequential
  <2> QED BY <1>4, <2>1, <2>2, <2>3, QuietSteps
<1> QED BY <1>1, <1>2, <1>3, <1>4, NextIs DEF AllOver
-----------------------------------------------------------------------------
(* The theorems.                                                              *)

AInv == ATypeOK /\ Pace /\ Even /\ Memory /\ Sequential

\* The parts of the invariant together are inductive.
LEMMA AInvariance == ASpec => []AInv
<1>1. AInit => AInv
  BY TypeInit, PaceInit, EvenInit, MemoryInit, SequentialInit DEF AInv
<1>2. AInv /\ [ANext]_avars => AInv'
  BY TypeStep, PaceStep, EvenStep, MemoryStep, SequentialStep DEF AInv
<1> QED BY <1>1, <1>2, PTL DEF ASpec

(* The conversation, the cells and every turn stay well formed; in particular  *)
(* no turn runs more steps than it may.                                        *)
THEOREM AgentTypes == ASpec => []ATypeOK
<1>1. AInv => ATypeOK
  BY DEF AInv
<1> QED BY <1>1, AInvariance, PTL

(* The graph ends, whatever the model asks for and whatever the tools answer.   *)
THEOREM RoundsAreBounded == ASpec => []RoundsBounded
<1>1. AInv => RoundsBounded
  <2> SUFFICES ASSUME ATypeOK, Pace, NEW t \in Turns
               PROVE  LET rounds == Len(trace[t]) + IF pc[t] = "tools" THEN 1 ELSE 0 IN
                      /\ 2 * rounds <= RECURSION_LIMIT
                      /\ pc[t] = "save" => 2 * rounds + 2 <= RECURSION_LIMIT
    BY DEF AInv, RoundsBounded
  <2>1. Len(trace[t]) \in Nat
    BY DEF ATypeOK
  <2>2. trace[t] = <<>> => Len(trace[t]) = 0
    OBVIOUS
  <2>3. pc[t] \in {"idle", "planner", "tools", "synthesizer", "save", "answered", "failed"}
    BY DEF ATypeOK
  <2>4. Paced(t) /\ steps[t] \in Nat
    BY LimitAssumption DEF Pace, ATypeOK
  <2> DEFINE L == Len(trace[t])
             rounds == L + IF pc[t] = "tools" THEN 1 ELSE 0
  <2>5. /\ pc[t] \in {"planner", "tools"} => 2 * L <= steps[t] /\ steps[t] < RECURSION_LIMIT
        /\ pc[t] = "tools" => 2 * L + 1 = steps[t]
        /\ pc[t] = "synthesizer" => 2 * L <= RECURSION_LIMIT
        /\ pc[t] = "save" => 2 * L + 2 <= RECURSION_LIMIT
        /\ pc[t] \in {"idle", "answered", "failed"} => L = 0
    BY <2>1, <2>2, <2>4, LimitAssumption DEF Paced
  <2>6. rounds = IF pc[t] = "tools" THEN L + 1 ELSE L
    <3>1. CASE pc[t] = "tools"
      BY <3>1
    <3>2. CASE pc[t] # "tools"
      BY <2>1, <3>2
    <3> QED BY <3>1, <3>2
  <2> HIDE DEF L, rounds
  <2>8. L \in Nat
    BY <2>1 DEF L
  <2>9. /\ 2 * rounds <= RECURSION_LIMIT
        /\ pc[t] = "save" => 2 * rounds + 2 <= RECURSION_LIMIT
    BY <2>3, <2>4, <2>5, <2>6, <2>8, LimitAssumption
  <2> QED BY <2>9 DEF rounds, L
<1> QED BY <1>1, AInvariance, PTL

(* However turns overlap, fail or lose Redis, the stored conversation is a     *)
(* list of whole turns in the order in which they were had.                    *)
THEOREM ConversationsHappened == ASpec => []ConversationHappened
<1>1. AInv => ConversationHappened
  <2> SUFFICES ASSUME ATypeOK, Memory PROVE ConversationHappened
    BY DEF AInv
  <2>1. PICK n \in 0..MAX_HISTORY_PAIRS : Whole(context, n)
    BY DEF Memory
  <2>2. Len(context) = 2 * n /\ n \in Nat /\ n <= MAX_HISTORY_PAIRS
    BY <2>1, LimitAssumption DEF Whole
  <2>3. Len(context) % 2 = 0 /\ Len(context) \div 2 = n /\ Len(context) <= 2 * MAX_HISTORY_PAIRS
    BY <2>2, LimitAssumption
  <2>4. ASSUME NEW i \in 1..n
        PROVE  /\ SubSeq(context, 2 * i - 1, 2 * i) = Pair(Remembered(i))
               /\ \A j \in 1..i-1 : Remembered(j) \in past[Remembered(i)]
    <3> DEFINE a == [role |-> "human", turn |-> Remembered(i)]
               b == [role |-> "ai", turn |-> Remembered(i)]
               p == SubSeq(context, 2 * i - 1, 2 * i)
    <3>1. context[2 * i - 1] = a /\ context[2 * i] = b /\ Remembered(i) \in Turns
      BY <2>1 DEF Whole, TurnOf, Remembered
    <3>2. \A k \in 2 * i - 1 .. 2 * i : context[k] \in Messages
      BY <2>2 DEF ATypeOK
    <3>3. p \in Seq(Messages) /\ Len(p) = 2 /\ p[1] = context[2 * i - 1] /\ p[2] = context[2 * i]
      <4>1. ASSUME NEW m \in Int, NEW l \in Int, l = m + 1,
                   \A k \in m..l : context[k] \in Messages
            PROVE  /\ SubSeq(context, m, l) \in Seq(Messages)
                   /\ Len(SubSeq(context, m, l)) = 2
                   /\ SubSeq(context, m, l)[1] = context[m]
                   /\ SubSeq(context, m, l)[2] = context[l]
        <5>1. m <= l /\ l - m + 1 = 2 /\ m + 1 - 1 = m /\ m + 2 - 1 = l
          BY <4>1
        <5>2. /\ SubSeq(context, m, l) \in Seq(Messages)
              /\ Len(SubSeq(context, m, l)) = IF m <= l THEN l - m + 1 ELSE 0
              /\ \A k \in 1..l - m + 1 : SubSeq(context, m, l)[k] = context[m + k - 1]
          BY <4>1, SubSeqProperties
        <5>3. 1 \in 1..l - m + 1 /\ 2 \in 1..l - m + 1
          BY <5>1
        <5> QED BY <5>1, <5>2, <5>3
      <4>2. 2 * i - 1 \in Int /\ 2 * i \in Int /\ 2 * i = (2 * i - 1) + 1
        OBVIOUS
      <4> QED BY <3>2, <4>1, <4>2
    <3>4. p = <<a, b>>
      <4> HIDE DEF p, a, b
      <4>1. a \in Messages /\ b \in Messages
        BY <3>1 DEF a, b, Messages
      <4> QED BY <3>1, <3>3, <4>1
    <3>5. \A j \in 1..i-1 : Remembered(j) \in past[Remembered(i)]
      BY <2>1 DEF Whole, TurnOf, Remembered
    <3> QED BY <3>4, <3>5 DEF Pair
  <2> QED BY <2>3, <2>4 DEF ConversationHappened
<1> QED BY <1>1, AInvariance, PTL

(* Turns that follow one another are all remembered, up to the limit.          *)
THEOREM SequentialTurnsRemembered == ASpec => []SequentialMemory
<1>1. AInv => SequentialMemory
  BY DEF AInv, Sequential, Latest, Kept, SequentialMemory, TurnOf, Remembered
<1> QED BY <1>1, AInvariance, PTL
-----------------------------------------------------------------------------
(* A set of natural numbers that is not empty has a least element.            *)
LEMMA LeastNumber ==
    ASSUME NEW T, T \subseteq Nat, T # {}
    PROVE  \E x \in T : \A y \in T : x <= y
<1> DEFINE R == OpToRel(<, Nat)
<1>1. IsWellFoundedOn(R, Nat)
  BY NatLessThanWellFounded
<1>2. \A x, y \in Nat : <<x, y>> \in R <=> x < y
  BY DEF OpToRel
<1>3. \E x \in T : \A y \in T : ~ (<<y, x>> \in R)
  <2> HIDE DEF R
  <2> QED BY <1>1, WFMin
<1> HIDE DEF R
<1>4. PICK x \in T : \A y \in T : ~ (<<y, x>> \in R)
  BY <1>3
<1>5. ASSUME NEW y \in T PROVE x <= y
  <2>1. ~ (y < x)
    BY <1>2, <1>4
  <2> QED BY <2>1
<1> QED BY <1>5

\* The number a column's letters but the last spell, counted like a column.
Rest(n) == (n \div 26) - 1

\* The rest of a column comes before it, and with the last letter gives it back.
LEMMA RestIs ==
    \A n \in Nat : /\ Rest(n) \in Int /\ Rest(n) >= -1 /\ Rest(n) < n
                   /\ n % 26 \in 0..25 /\ n = (26 * (Rest(n) + 1)) + (n % 26)
BY DEF Rest


(* Letters for the columns up to m, found the way colToLetter finds them.       *)
Spells(f, m) ==
    /\ f \in [Int -> Seq(Nat)]
    /\ \A n \in Int : n < 0 => f[n] = <<>>
    /\ \A n \in Nat : n <= m => f[n] = Append(f[Rest(n)], n % 26)

\* Two such spellings agree as far as both reach.
LEMMA SpellingsAgree ==
    ASSUME NEW m \in Nat, NEW n \in Nat, NEW f, NEW g, Spells(f, m), Spells(g, n)
    PROVE  \A k \in Int : k <= m /\ k <= n => f[k] = g[k]
<1> DEFINE T == {k \in Nat : k <= m /\ k <= n /\ f[k] # g[k]}
<1>1. CASE T = {}
  <2>1. \A k \in Int : k < 0 => f[k] = g[k]
    BY DEF Spells
  <2> QED BY <1>1, <2>1
<1>2. CASE T # {}
  <2>1. T \subseteq Nat
    OBVIOUS
  <2>2. PICK x \in T : \A y \in T : x <= y
    <3> HIDE DEF T
    <3> QED BY <1>2, <2>1, LeastNumber
  <2>3. Rest(x) \in Int /\ Rest(x) < x
    BY RestIs
  <2>4. f[Rest(x)] = g[Rest(x)]
    <3>1. CASE Rest(x) < 0
      BY <2>3, <3>1 DEF Spells
    <3>2. CASE Rest(x) \in Nat
      BY <2>2, <2>3, <3>2
    <3> QED BY <2>3, <3>1, <3>2
  <2>5. f[x] = Append(f[Rest(x)], x % 26) /\ g[x] = Append(g[Rest(x)], x % 26)
    BY DEF Spells
  <2> QED BY <2>4, <2>5
<1> QED BY <1>1, <1>2

\* The columns can be spelled as far as one likes.
LEMMA SpellingsExist == \A m \in Nat : \E f : Spells(f, m)
<1> DEFINE T == {k \in Nat : ~ \E f : Spells(f, k)}
<1>1. SUFFICES ASSUME T # {} PROVE FALSE
  OBVIOUS
<1>2. PICK x \in T : \A y \in T : x <= y
  <2>1. T \subseteq Nat
    OBVIOUS
  <2> HIDE DEF T
  <2> QED BY <1>1, <2>1, LeastNumber
<1>3. Rest(x) \in Int /\ Rest(x) < x /\ x % 26 \in Nat
  BY RestIs
<1>4. \E f : /\ f \in [Int -> Seq(Nat)] /\ \A n \in Int : n < 0 => f[n] = <<>>
             /\ \A n \in Nat : n < x => f[n] = Append(f[Rest(n)], n % 26)
  <2>1. CASE x = 0
    <3> DEFINE b == [n \in Int |-> <<>>]
    <3>1. b \in [Int -> Seq(Nat)] /\ \A n \in Int : n < 0 => b[n] = <<>>
      OBVIOUS
    <3>2. \A n \in Nat : ~ n < x
      BY <2>1
    <3> QED BY <3>1, <3>2
  <2>2. CASE x # 0
    <3>1. x - 1 \in Nat /\ x - 1 \notin T
      BY <1>2, <2>2
    <3>2. PICK f : Spells(f, x - 1)
      BY <3>1
    <3>3. \A n \in Nat : n < x => n <= x - 1
      OBVIOUS
    <3> QED BY <3>2, <3>3 DEF Spells
  <2> QED BY <2>1, <2>2
<1>5. PICK f : /\ f \in [Int -> Seq(Nat)] /\ \A n \in Int : n < 0 => f[n] = <<>>
               /\ \A n \in Nat : n < x => f[n] = Append(f[Rest(n)], n % 26)
  BY <1>4
<1> DEFINE g == [n \in Int |-> IF n = x THEN Append(f[Rest(x)], x % 26) ELSE f[n]]
<1>6. Append(f[Rest(x)], x % 26) \in Seq(Nat)
  <2>1. f[Rest(x)] \in Seq(Nat)
    BY <1>3, <1>5
  <2> QED BY <1>3, <2>1
<1>7. g \in [Int -> Seq(Nat)]
  BY <1>5, <1>6
<1>8. \A n \in Int : n # x => g[n] = f[n]
  OBVIOUS
<1>9. g[x] = Append(f[Rest(x)], x % 26)
  OBVIOUS
<1> HIDE DEF g
<1>10. Spells(g, x)
  <2>1. ASSUME NEW n \in Int, n < 0 PROVE g[n] = <<>>
    <3>1. n # x
      BY <2>1
    <3> QED BY <1>5, <1>8, <2>1, <3>1
  <2>2. ASSUME NEW n \in Nat, n <= x PROVE g[n] = Append(g[Rest(n)], n % 26)
    <3>1. Rest(n) \in Int /\ Rest(n) # x
      BY <2>2, RestIs
    <3>2. g[Rest(n)] = f[Rest(n)]
      BY <1>8, <3>1
    <3>3. CASE n = x
      BY <1>9, <3>2, <3>3
    <3>4. CASE n # x
      <4>1. n \in Int /\ n < x
        BY <2>2, <3>4
      <4>2. f[n] = Append(f[Rest(n)], n % 26)
        BY <1>5, <4>1
      <4> QED BY <1>8, <3>2, <3>4, <4>1, <4>2
    <3> QED BY <3>3, <3>4
  <2> QED BY <1>7, <2>1, <2>2 DEF Spells
<1> QED BY <1>10

(* colToLetter ends for every column, with the letters its loop collects.       *)
LEMMA ColToLetterIs ==
    /\ \A n \in Int : n < 0 => ColToLetter[n] = <<>>
    /\ \A n \in Nat : ColToLetter[n] = Append(ColToLetter[Rest(n)], n % 26)
    /\ ColToLetter \in [Int -> Seq(Nat)]
<1> DEFINE s(n) == CHOOSE f : Spells(f, n)
           F == [n \in Int |-> IF n < 0 THEN <<>> ELSE s(n)[n]]
<1>1. \A n \in Nat : Spells(s(n), n)
  BY SpellingsExist
<1>2. \A n \in Int : n < 0 => F[n] = <<>>
  OBVIOUS
<1>3. \A n \in Nat : F[n] = s(n)[n]
  OBVIOUS
<1>4. F \in [Int -> Seq(Nat)]
  <2>1. \A n \in Nat : s(n)[n] \in Seq(Nat)
    <3> HIDE DEF s
    <3> QED BY <1>1 DEF Spells
  <2> HIDE DEF s
  <2> QED BY <2>1
<1> HIDE DEF s, F
<1>5. ASSUME NEW n \in Nat PROVE F[n] = Append(F[Rest(n)], n % 26)
  <2>1. Rest(n) \in Int /\ Rest(n) < n
    BY RestIs
  <2>2. F[Rest(n)] = s(n)[Rest(n)]
    <3>1. CASE Rest(n) < 0
      BY <1>1, <1>2, <2>1, <3>1 DEF Spells
    <3>2. CASE Rest(n) \in Nat
      <4>1. Spells(s(n), n) /\ Spells(s(Rest(n)), Rest(n))
        BY <1>1, <3>2
      <4>2. s(n)[Rest(n)] = s(Rest(n))[Rest(n)]
        BY <2>1, <3>2, <4>1, SpellingsAgree
      <4> QED BY <1>3, <3>2, <4>2
    <3> QED BY <2>1, <3>1, <3>2
  <2>3. s(n)[n] = Append(s(n)[Rest(n)], n % 26)
    <3>1. Spells(s(n), n) /\ n <= n
      BY <1>1
    <3> QED BY <3>1 DEF Spells
  <2> QED BY <1>3, <2>2, <2>3
<1> DEFINE Eq(f) == f = [n \in Int |-> IF n < 0 THEN <<>> ELSE Append(f[(n \div 26) - 1], n % 26)]
<1>6. Eq(F)
  <2>1. ASSUME NEW n \in Int
        PROVE  F[n] = IF n < 0 THEN <<>> ELSE Append(F[(n \div 26) - 1], n % 26)
    <3>1. CASE n < 0
      BY <1>2, <3>1
    <3>2. CASE n \in Nat
      <4>1. ~ n < 0
        BY <3>2
      <4>2. F[n] = Append(F[(n \div 26) - 1], n % 26)
        BY <1>5, <3>2 DEF Rest
      <4> QED BY <4>1, <4>2, Zenon
    <3> QED BY <3>1, <3>2
  <2> QED BY <1>4, <2>1
<1>7. ColToLetter = CHOOSE f : Eq(f)
  BY Zenon DEF ColToLetter
<1>8. Eq(ColToLetter)
  <2> HIDE DEF Eq
  <2> QED BY <1>6, <1>7
<1>9. \A n \in Int : ColToLetter[n] = IF n < 0 THEN <<>> ELSE Append(ColToLetter[(n \div 26) - 1], n % 26)
  <2> DEFINE b(n) == IF n < 0 THEN <<>> ELSE Append(ColToLetter[(n \div 26) - 1], n % 26)
  <2>1. ColToLetter = [n \in Int |-> b(n)]
    BY <1>8, Zenon
  <2> HIDE DEF b
  <2>2. \A n \in Int : ColToLetter[n] = b(n)
    BY <2>1
  <2> QED BY <2>2 DEF b
<1>10. \A n \in Nat : ColToLetter[n] = Append(ColToLetter[Rest(n)], n % 26)
  <2> SUFFICES ASSUME NEW n \in Nat
               PROVE  ColToLetter[n] = Append(ColToLetter[(n \div 26) - 1], n % 26)
    BY DEF Rest
  <2>1. n \in Int /\ ~ n < 0
    OBVIOUS
  <2> QED BY <1>9, <2>1, Zenon
<1>11. \A n \in Int : n < 0 => ColToLetter[n] = <<>>
  BY <1>9, Zenon
<1>12. \A n \in Int : ColToLetter[n] \in Seq(Nat)
  <2> DEFINE T == {k \in Nat : ColToLetter[k] \notin Seq(Nat)}
  <2>1. CASE T = {}
    <3>1. \A n \in Int : n < 0 => ColToLetter[n] \in Seq(Nat)
      BY <1>11, EmptySeq
    <3> QED BY <2>1, <3>1
  <2>2. CASE T # {}
    <3>1. PICK x \in T : \A y \in T : x <= y
      <4>1. T \subseteq Nat
        OBVIOUS
      <4> HIDE DEF T
      <4> QED BY <2>2, <4>1, LeastNumber
    <3>2. Rest(x) \in Int /\ Rest(x) < x /\ x % 26 \in Nat
      BY RestIs
    <3>3. ColToLetter[Rest(x)] \in Seq(Nat)
      <4>1. CASE Rest(x) < 0
        BY <1>11, <3>2, <4>1, EmptySeq
      <4>2. CASE Rest(x) \in Nat
        BY <3>1, <3>2, <4>2
      <4> QED BY <3>2, <4>1, <4>2
    <3>4. ColToLetter[x] = Append(ColToLetter[Rest(x)], x % 26)
      BY <1>10
    <3>5. ColToLetter[x] \in Seq(Nat)
      BY <3>2, <3>3, <3>4, AppendProperties
    <3> QED BY <3>5
  <2> QED BY <2>1, <2>2
<1>13. ColToLetter \in [Int -> Seq(Nat)]
  <2> DEFINE b(n) == IF n < 0 THEN <<>> ELSE Append(ColToLetter[(n \div 26) - 1], n % 26)
  <2>1. ColToLetter = [n \in Int |-> b(n)]
    BY <1>8, Zenon
  <2> HIDE DEF b
  <2> QED BY <1>12, <2>1
<1> QED BY <1>10, <1>11, <1>13

\* A sequence of digits with one digit more.
LEMMA OneDigitMore ==
    ASSUME NEW s \in Seq(Nat), NEW a \in Nat
    PROVE  /\ Append(s, a) # <<>> /\ Len(s) \in Nat
           /\ Len(Append(s, a)) = Len(s) + 1 /\ Append(s, a)[Len(s) + 1] = a
           /\ \A i \in 1..Len(s) : Append(s, a)[i] = s[i]
OBVIOUS

(* No two columns are told the same way: an action names exactly the cells its  *)
(* call wrote (toA1 is what the client takes the cells of an action by).        *)
THEOREM ColumnsTold ==
    \A m, n \in Nat : ColToLetter[m] = ColToLetter[n] => m = n
<1> DEFINE T == {k \in Nat : \E n \in Nat : k # n /\ ColToLetter[k] = ColToLetter[n]}
<1>1. SUFFICES ASSUME T # {} PROVE FALSE
  OBVIOUS
<1>2. PICK x \in T : \A y \in T : x <= y
  <2>1. T \subseteq Nat
    OBVIOUS
  <2> HIDE DEF T
  <2> QED BY <1>1, <2>1, LeastNumber
<1>3. PICK n \in Nat : x # n /\ ColToLetter[x] = ColToLetter[n]
  OBVIOUS
<1> DEFINE r == ColToLetter[Rest(x)]
           q == ColToLetter[Rest(n)]
           d == x % 26
           e == n % 26
<1>4. /\ Rest(x) \in Int /\ Rest(x) >= -1 /\ Rest(x) < x /\ d \in Nat
      /\ x = (26 * (Rest(x) + 1)) + d
      /\ Rest(n) \in Int /\ Rest(n) >= -1 /\ Rest(n) < n /\ e \in Nat
      /\ n = (26 * (Rest(n) + 1)) + e
  <2>1. d \in 0..25 /\ x = (26 * (Rest(x) + 1)) + d
    BY RestIs
  <2>2. e \in 0..25 /\ n = (26 * (Rest(n) + 1)) + e
    BY RestIs
  <2>3. Rest(x) \in Int /\ Rest(x) >= -1 /\ Rest(x) < x
    BY RestIs
  <2>4. Rest(n) \in Int /\ Rest(n) >= -1 /\ Rest(n) < n
    BY RestIs
  <2> HIDE DEF d, e
  <2> QED BY <2>1, <2>2, <2>3, <2>4
<1>5. r \in Seq(Nat) /\ q \in Seq(Nat)
  BY <1>4, ColToLetterIs
<1>6. Append(r, d) = Append(q, e)
  BY <1>3, ColToLetterIs
<1>7. r = q /\ d = e
  <2> HIDE DEF r, q, d, e
  <2>1. /\ Len(Append(r, d)) = Len(r) + 1 /\ Append(r, d)[Len(r) + 1] = d
        /\ \A i \in 1..Len(r) : Append(r, d)[i] = r[i]
        /\ Len(Append(q, e)) = Len(q) + 1 /\ Append(q, e)[Len(q) + 1] = e
        /\ \A i \in 1..Len(q) : Append(q, e)[i] = q[i]
        /\ Len(r) \in Nat /\ Len(q) \in Nat
    <3>1. r \in Seq(Nat) /\ q \in Seq(Nat) /\ d \in Nat /\ e \in Nat
      BY <1>4, <1>5
    <3> QED BY <3>1, OneDigitMore
  <2>2. Len(r) = Len(q) /\ d = e /\ \A i \in 1..Len(r) : r[i] = q[i]
    BY <1>6, <2>1
  <2> QED BY <1>5, <2>2, SeqEqual
<1>8. Rest(x) # Rest(n)
  BY <1>3, <1>4, <1>7
<1>9. CASE Rest(x) >= 0 /\ Rest(n) >= 0
  BY <1>2, <1>4, <1>7, <1>8, <1>9
<1>10. ASSUME NEW k \in Int, k >= -1, k < 0 PROVE ColToLetter[k] = <<>>
  BY <1>10, ColToLetterIs
<1>11. ASSUME NEW k \in Nat PROVE ColToLetter[k] # <<>>
  <2>1. ColToLetter[Rest(k)] \in Seq(Nat) /\ k % 26 \in Nat
    BY RestIs, ColToLetterIs
  <2>2. ColToLetter[k] = Append(ColToLetter[Rest(k)], k % 26)
    BY ColToLetterIs
  <2> QED BY <2>1, <2>2, OneDigitMore
<1>12. CASE ~ (Rest(x) >= 0 /\ Rest(n) >= 0)
  <2>1. /\ Rest(x) \in Int /\ Rest(x) >= -1 /\ Rest(n) \in Int /\ Rest(n) >= -1
        /\ ColToLetter[Rest(x)] = ColToLetter[Rest(n)]
    BY <1>4, <1>7
  <2> HIDE DEF T, r, q, d, e
  <2>2. CASE Rest(x) < 0 /\ Rest(n) < 0
    <3>1. Rest(x) = Rest(n)
      BY <2>1, <2>2
    <3> QED BY <1>8, <3>1
  <2>3. CASE Rest(x) < 0 /\ Rest(n) >= 0
    <3>1. ColToLetter[Rest(x)] = <<>>
      BY <1>10, <2>1, <2>3
    <3>2. ColToLetter[Rest(n)] # <<>>
      BY <1>11, <2>1, <2>3
    <3> QED BY <2>1, <3>1, <3>2
  <2>4. CASE Rest(x) >= 0 /\ Rest(n) < 0
    <3>1. ColToLetter[Rest(n)] = <<>>
      BY <1>10, <2>1, <2>4
    <3>2. ColToLetter[Rest(x)] # <<>>
      BY <1>11, <2>1, <2>4
    <3> QED BY <2>1, <3>1, <3>2
  <2> QED BY <1>12, <2>1, <2>2, <2>3, <2>4
<1> QED BY <1>9, <1>12
-----------------------------------------------------------------------------
(* The calls of a turn.                                                       *)

\* The rounds of a turn, the one that runs counted as the last.
Round(t, k) == IF k = Len(trace[t]) + 1 THEN batch[t] ELSE trace[t][k]
Rounds(t)   == 1..Len(trace[t]) + 1

(* A call is where its tag says.  One that is over has written all its cells,   *)
(* unless it failed; the calls of a finished round are over.                   *)
PlacedAt(t, k, i) ==
    LET c == Round(t, k)[i] IN
    /\ c.tag = <<t, k, i>>
    /\ c.state = "running" => k = Len(trace[t]) + 1
    /\ c.kind = "set_cells" => /\ c.done <= Len(c.cells)
                               /\ c.state = "running" => c.done < Len(c.cells)
                               /\ c.state = "ok" => c.done = Len(c.cells)
PlacedTurn(t) ==
    /\ pc[t] # "tools" => batch[t] = <<>>
    /\ \A k \in Rounds(t) : \A i \in DOMAIN Round(t, k) : PlacedAt(t, k, i)

Placed == \A t \in Turns : PlacedTurn(t)

\* The rounds are sequences of calls, the running one among them.
LEMMA RoundsType ==
    ASSUME ATypeOK, NEW t \in Turns
    PROVE  /\ Len(trace[t]) \in Nat /\ Rounds(t) \subseteq Nat /\ Len(trace[t]) + 1 \in Rounds(t)
           /\ \A k \in Rounds(t) : Round(t, k) \in Seq(Calls)
<1>1. trace[t] \in Seq(Seq(Calls)) /\ batch[t] \in Seq(Calls)
  BY DEF ATypeOK
<1>2. Len(trace[t]) \in Nat
  BY <1>1
<1>3. ASSUME NEW k \in Rounds(t) PROVE Round(t, k) \in Seq(Calls)
  <2>1. CASE k = Len(trace[t]) + 1
    BY <1>1, <2>1 DEF Round
  <2>2. CASE k # Len(trace[t]) + 1
    <3>1. k \in 1..Len(trace[t])
      BY <1>2, <2>2 DEF Rounds
    <3>2. trace[t][k] \in Seq(Calls)
      BY <1>1, <3>1, ElementOfSeq
    <3> QED BY <2>2, <3>2 DEF Round
  <2> QED BY <2>1, <2>2
<1> QED BY <1>2, <1>3 DEF Rounds

\* What stands in a round is a call.
LEMMA CallsType ==
    ASSUME ATypeOK, NEW t \in Turns, NEW k \in Rounds(t), NEW i \in DOMAIN Round(t, k)
    PROVE  Round(t, k)[i] \in Calls
<1>1. Round(t, k) \in Seq(Calls)
  BY RoundsType
<1> QED BY <1>1

(* A turn that does not act keeps its rounds.                                  *)
LEMMA RoundsStay ==
    ASSUME NEW t, trace'[t] = trace[t], batch'[t] = batch[t]
    PROVE  Rounds(t)' = Rounds(t) /\ \A k : Round(t, k)' = Round(t, k)
BY DEF Rounds, Round

(* A turn without calls has one round, an empty one.                           *)
LEMMA RoundsEmpty ==
    ASSUME NEW t, trace'[t] = <<>>, batch'[t] = <<>>
    PROVE  Rounds(t)' = {1} /\ Round(t, 1)' = <<>>
<1>1. Len(<<>>) = 0
  OBVIOUS
<1>2. Rounds(t)' = 1..1
  BY <1>1 DEF Rounds
<1> QED BY <1>1, <1>2 DEF Round

(* A gathered round moves to the results, and an empty one takes its place.    *)
LEMMA RoundsGathered ==
    ASSUME ATypeOK, NEW t \in Turns, trace'[t] = Append(trace[t], batch[t]), batch'[t] = <<>>,
           NEW n, n = Len(trace[t])
    PROVE  /\ Len(trace'[t]) = n + 1 /\ Rounds(t)' = 1..n + 2 /\ Rounds(t) = 1..n + 1
           /\ \A k \in 1..n + 1 : Round(t, k)' = Round(t, k)
           /\ Round(t, n + 2)' = <<>>
<1>1. trace[t] \in Seq(Seq(Calls)) /\ batch[t] \in Seq(Calls) /\ n \in Nat
  BY DEF ATypeOK
<1>2. /\ Len(trace'[t]) = n + 1 /\ trace'[t][n + 1] = batch[t]
      /\ \A k \in 1..n : trace'[t][k] = trace[t][k]
  BY <1>1, AppendProperties
<1>3. Rounds(t)' = 1..n + 2 /\ Rounds(t) = 1..n + 1
  BY <1>1, <1>2 DEF Rounds
<1>4. ASSUME NEW k \in 1..n + 1 PROVE Round(t, k)' = Round(t, k)
  BY <1>1, <1>2 DEF Round
<1>5. Round(t, n + 2)' = <<>>
  BY <1>1, <1>2 DEF Round
<1> QED BY <1>2, <1>3, <1>4, <1>5

(* What one statement of a call does to its turn.                              *)
Advanced(t, i) ==
    LET c == batch[t][i]
        d == batch'[t][i]
    IN  /\ c \in Calls /\ d \in Calls /\ c.state = "running"
        /\ d.kind = c.kind /\ d.cells = c.cells /\ d.tag = c.tag /\ d.done = c.done + 1
        /\ d.state = IF c.kind = "set_cells" /\ c.done + 1 < Len(c.cells) THEN "running" ELSE "ok"

Elsewhere(t, i) ==
    /\ trace' = trace /\ pc' = pc
    /\ DOMAIN batch'[t] = DOMAIN batch[t]
    /\ \A j \in DOMAIN batch[t] : j # i => batch'[t][j] = batch[t][j]

\* A statement advances its call and nothing else of the turns.
LEMMA StepAdvances ==
    ASSUME ATypeOK, ATypeOK', NEW t \in Turns, NEW i \in DOMAIN batch[t], ToolStep(t, i)
    PROVE  Elsewhere(t, i) /\ Advanced(t, i)
<1> DEFINE c == batch[t][i]
           s == IF c.kind = "set_cells" /\ c.done + 1 < Len(c.cells) THEN "running" ELSE "ok"
<1>1. batch' = [batch EXCEPT ![t][i].done = @ + 1, ![t][i].state = s]
  BY DEF ToolStep
<1>2. c \in Calls /\ batch[t] \in Seq(Calls) /\ batch \in [Turns -> Seq(Calls)]
  BY DEF ATypeOK
<1>3. c.state = "running" /\ trace' = trace /\ pc' = pc
  BY DEF ToolStep
<1> HIDE DEF s
<1>4. batch'[t] = [batch[t] EXCEPT ![i] = [c EXCEPT !.done = @ + 1, !.state = s]]
  BY <1>1, <1>2
<1>5. batch'[t][i] = [c EXCEPT !.done = @ + 1, !.state = s]
  <2> HIDE DEF c
  <2> QED BY <1>2, <1>4
<1>6. Elsewhere(t, i)
  <2> HIDE DEF c
  <2> QED BY <1>2, <1>3, <1>4 DEF Elsewhere
<1>7. batch'[t] \in Seq(Calls) /\ i \in DOMAIN batch'[t]
  BY <1>6 DEF ATypeOK, Elsewhere
<1>8. batch'[t][i] \in Calls
  BY <1>7
<1>9. /\ batch'[t][i].kind = c.kind /\ batch'[t][i].cells = c.cells /\ batch'[t][i].tag = c.tag
      /\ batch'[t][i].done = c.done + 1 /\ batch'[t][i].state = s
  <2> HIDE DEF c
  <2> QED BY <1>2, <1>5 DEF Calls
<1> QED BY <1>2, <1>3, <1>6, <1>8, <1>9 DEF Advanced, s

\* A failing statement marks its call and nothing else of the turns.
LEMMA FailStays ==
    ASSUME ATypeOK, NEW t \in Turns, NEW i \in DOMAIN batch[t], ToolFail(t, i)
    PROVE  /\ Elsewhere(t, i) /\ batch'[t][i] = [batch[t][i] EXCEPT !.state = "failed"]
           /\ batch[t][i].state = "running" /\ batch[t][i] \in Calls
<1> DEFINE c == batch[t][i]
<1>1. batch' = [batch EXCEPT ![t][i].state = "failed"]
  BY DEF ToolFail
<1>2. c \in Calls /\ batch[t] \in Seq(Calls) /\ batch \in [Turns -> Seq(Calls)]
  BY DEF ATypeOK
<1>3. batch'[t] = [batch[t] EXCEPT ![i] = [c EXCEPT !.state = "failed"]]
  BY <1>1, <1>2
<1>4. batch'[t][i] = [c EXCEPT !.state = "failed"]
  <2> HIDE DEF c
  <2> QED BY <1>2, <1>3
<1>5. Elsewhere(t, i)
  <2>1. trace' = trace /\ pc' = pc
    BY DEF ToolFail
  <2> HIDE DEF c
  <2> QED BY <1>2, <1>3, <2>1 DEF Elsewhere
<1>6. batch[t][i].state = "running"
  BY DEF ToolFail
<1> QED BY <1>2, <1>4, <1>5, <1>6

(* The rounds around a call that advances.                                     *)
LEMMA RoundsElse ==
    ASSUME ATypeOK, NEW t \in Turns, NEW i \in DOMAIN batch[t], Elsewhere(t, i),
           NEW m, m = Len(trace[t]) + 1
    PROVE  /\ Rounds(t)' = Rounds(t) /\ m \in Rounds(t)
           /\ Round(t, m) = batch[t] /\ Round(t, m)' = batch'[t]
           /\ \A k \in Rounds(t) : DOMAIN Round(t, k)' = DOMAIN Round(t, k)
           /\ \A k \in Rounds(t) : \A j \in DOMAIN Round(t, k) :
                k # m \/ j # i => Round(t, k)'[j] = Round(t, k)[j]
<1>1. trace' = trace
  BY DEF Elsewhere
<1>2. Len(trace[t]) + 1 \in Rounds(t)
  BY RoundsType
<1> QED BY <1>1, <1>2 DEF Elsewhere, Round, Rounds

\* A turn without calls has them all in their places.
LEMMA PlacedEmpty ==
    ASSUME NEW t \in Turns, trace'[t] = <<>>, batch'[t] = <<>>
    PROVE  PlacedTurn(t)'
<1>1. Rounds(t)' = {1} /\ Round(t, 1)' = <<>>
  BY RoundsEmpty
<1>2. DOMAIN <<>> = {}
  OBVIOUS
<1> QED BY <1>1, <1>2 DEF PlacedTurn

\* At first there are no calls.
LEMMA PlacedInit == AInit => Placed
<1> SUFFICES ASSUME AInit, NEW t \in Turns PROVE PlacedTurn(t)
  BY DEF Placed
<1>1. batch[t] = <<>> /\ trace[t] = <<>> /\ Len(<<>>) = 0 /\ DOMAIN <<>> = {}
  BY DEF AInit
<1>2. Rounds(t) = 1..1 /\ Round(t, 1) = <<>>
  BY <1>1 DEF Rounds, Round
<1> QED BY <1>1, <1>2 DEF PlacedTurn

\* The steps of one turn keep its calls in their places.
LEMMA PlacedTurnStep ==
    ASSUME ATypeOK, ATypeOK', Pace, NEW t \in Turns, PlacedTurn(t), TurnStep(t)
    PROVE  PlacedTurn(t)'
<1>0. Len(trace[t]) \in Nat /\ pc \in [Turns -> {"idle", "planner", "tools", "synthesizer", "save",
                                              "answered", "failed"}]
  BY RoundsType DEF ATypeOK
<1>1. ASSUME trace'[t] = trace[t], batch'[t] = batch[t], pc[t] # "tools"
      PROVE  PlacedTurn(t)'
  <2>1. Rounds(t)' = Rounds(t) /\ \A k : Round(t, k)' = Round(t, k)
    BY <1>1, RoundsStay
  <2> QED BY <1>1, <2>1 DEF PlacedTurn, PlacedAt
<1>2. ASSUME Throw(t) \/ Save(t) PROVE PlacedTurn(t)'
  <2>1. trace'[t] = <<>> /\ batch'[t] = <<>>
    BY <1>2 DEF Throw, Save, Forget, ATypeOK
  <2> QED BY <2>1, PlacedEmpty
<1>3. CASE Load(t) \/ Synthesize(t)
  <2>1. trace'[t] = trace[t] /\ batch'[t] = batch[t] /\ pc[t] # "tools"
    BY <1>3 DEF Load, Synthesize
  <2> QED BY <1>1, <2>1
<1>4. CASE Plan(t) /\ ~OutOfSteps(t)
  <2>0. PICK m \in Nat : m = Len(trace[t]) + 1
    BY <1>0
  <2>1. PICK asked \in Menu[t] \cup {<<>>} :
          /\ batch' = [batch EXCEPT ![t] = Numbered(t, asked)]
          /\ pc' = [pc EXCEPT ![t] = IF asked = <<>> THEN "synthesizer" ELSE "tools"]
    BY <1>4 DEF Plan
  <2>2. trace' = trace /\ batch[t] = <<>> /\ batch'[t] = Numbered(t, asked)
    BY <1>4, <2>1 DEF Plan, PlacedTurn, ATypeOK
  <2>3. pc'[t] # "tools" => asked = <<>>
    BY <1>0, <2>1
  <2>4. asked = <<>> => batch'[t] = <<>>
    <3>1. Len(<<>>) = 0 /\ 1..0 = {}
      OBVIOUS
    <3>2. asked = <<>> => Numbered(t, asked) \in Seq(Calls) /\ DOMAIN Numbered(t, asked) = {}
      BY <2>1, <3>1, NumberedType DEF Numbered
    <3> QED BY <2>2, <3>2
  <2>5. \A k \in Rounds(t) : k # m => Round(t, k)' = Round(t, k)
    BY <2>0, <2>2 DEF Round
  <2>6. Rounds(t)' = Rounds(t) /\ Round(t, m)' = Numbered(t, asked)
    BY <2>0, <2>2 DEF Rounds, Round
  <2>7. ASSUME NEW i \in DOMAIN Numbered(t, asked) PROVE PlacedAt(t, m, i)'
    <3>1. i \in 1..Len(asked) /\ asked \in Menu[t]
      <4>1. Len(<<>>) = 0
        OBVIOUS
      <4> QED BY <2>1, <4>1 DEF Numbered
    <3>2. asked \in Seq([kind: ToolKinds, cells: Seq(Positions)])
      BY <3>1, MenuAssumption
    <3>3. asked[i].cells \in Seq(Positions) /\ (asked[i].kind = "set_cells" => asked[i].cells # <<>>)
      <4>1. asked[i] \in [kind: ToolKinds, cells: Seq(Positions)]
        BY <3>1, <3>2, ElementOfSeq
      <4>2. i \in DOMAIN asked
        BY <3>1, <3>2
      <4> QED BY <3>1, <4>1, <4>2, MenuAssumption
    <3>4. asked[i].kind = "set_cells" => 0 < Len(asked[i].cells)
      BY <3>3
    <3> DEFINE c == Numbered(t, asked)[i]
    <3>5. /\ c.tag = <<t, m, i>> /\ c.state = "running" /\ c.done = 0
          /\ c.kind = asked[i].kind /\ c.cells = asked[i].cells
      BY <2>0, <3>1 DEF Numbered
    <3>6. Len(asked[i].cells) \in Nat
      BY <3>3
    <3> HIDE DEF c
    <3>7. c = Round(t, m)'[i]
      BY <2>6 DEF c
    <3> QED BY <1>0, <2>0, <2>2, <3>4, <3>5, <3>6, <3>7 DEF PlacedAt
  <2>8. ASSUME NEW k \in Rounds(t), NEW i \in DOMAIN Round(t, k)' PROVE PlacedAt(t, k, i)'
    <3>1. CASE k = m
      BY <2>6, <2>7, <3>1
    <3>2. CASE k # m
      <4>1. PlacedAt(t, k, i)
        BY <2>5, <3>2 DEF PlacedTurn
      <4> QED BY <2>2, <2>5, <3>2, <4>1 DEF PlacedAt
    <3> QED BY <3>1, <3>2
  <2> QED BY <2>3, <2>4, <2>6, <2>8 DEF PlacedTurn
<1>5. ASSUME NEW i \in DOMAIN batch[t], ToolStep(t, i) \/ ToolFail(t, i) PROVE PlacedTurn(t)'
  <2>0. PICK m \in Nat : m = Len(trace[t]) + 1
    BY <1>0
  <2>1. Elsewhere(t, i)
    BY <1>5, StepAdvances, FailStays
  <2>2. /\ Rounds(t)' = Rounds(t) /\ m \in Rounds(t)
        /\ Round(t, m) = batch[t] /\ Round(t, m)' = batch'[t]
        /\ \A k \in Rounds(t) : DOMAIN Round(t, k)' = DOMAIN Round(t, k)
        /\ \A k \in Rounds(t) : \A j \in DOMAIN Round(t, k) :
             k # m \/ j # i => Round(t, k)'[j] = Round(t, k)[j]
    BY <2>0, <2>1, RoundsElse
  <2>3. trace' = trace /\ pc' = pc
    BY <2>1 DEF Elsewhere
  <2>4. PlacedAt(t, m, i)
    BY <2>2 DEF PlacedTurn
  <2>5. PlacedAt(t, m, i)'
    <3> DEFINE c == batch[t][i]
               d == batch'[t][i]
    <3>1. /\ c.tag = <<t, m, i>> /\ (c.kind = "set_cells" => c.done <= Len(c.cells))
          /\ (c.kind = "set_cells" /\ c.state = "running" => c.done < Len(c.cells))
      BY <2>2, <2>4 DEF PlacedAt
    <3>2. CASE ToolStep(t, i)
      <4>1. Advanced(t, i)
        BY <3>2, StepAdvances
      <4>2. /\ c \in Calls /\ c.state = "running"
            /\ d.kind = c.kind /\ d.cells = c.cells /\ d.tag = c.tag /\ d.done = c.done + 1
            /\ d.state = IF c.kind = "set_cells" /\ c.done + 1 < Len(c.cells) THEN "running" ELSE "ok"
        BY <4>1, Zenon DEF Advanced
      <4>3. c.done \in Nat /\ Len(c.cells) \in Nat
        BY <4>2 DEF Calls
      <4>4. Round(t, m)'[i] = d /\ m = Len(trace'[t]) + 1
        BY <2>0, <2>2, <2>3
      <4> HIDE DEF c, d
      <4>5. d.kind = "set_cells" =>
              /\ d.done <= Len(d.cells)
              /\ d.state = "running" => d.done < Len(d.cells)
              /\ d.state = "ok" => d.done = Len(d.cells)
        BY <3>1, <4>2, <4>3
      <4>6. d.tag = <<t, m, i>>
        BY <3>1, <4>2
      <4> QED BY <4>4, <4>5, <4>6 DEF PlacedAt
    <3>3. CASE ToolFail(t, i)
      <4>1. d = [c EXCEPT !.state = "failed"] /\ c \in Calls
        BY <3>3, FailStays
      <4>2. Round(t, m)'[i] = d /\ m = Len(trace'[t]) + 1
        BY <2>0, <2>2, <2>3
      <4> HIDE DEF c, d
      <4>3. /\ d.kind = c.kind /\ d.cells = c.cells /\ d.tag = c.tag /\ d.done = c.done
            /\ d.state = "failed"
        BY <4>1 DEF Calls
      <4> QED BY <3>1, <4>2, <4>3 DEF PlacedAt
    <3> QED BY <1>5, <3>2, <3>3
  <2>6. ASSUME NEW k \in Rounds(t), NEW j \in DOMAIN Round(t, k), k # m \/ j # i
        PROVE  PlacedAt(t, k, j)'
    <3>1. PlacedAt(t, k, j) /\ Round(t, k)'[j] = Round(t, k)[j]
      BY <2>2, <2>6 DEF PlacedTurn
    <3> QED BY <2>3, <3>1 DEF PlacedAt
  <2>7. \A k \in Rounds(t)' : \A j \in DOMAIN Round(t, k)' : PlacedAt(t, k, j)'
    BY <2>2, <2>5, <2>6
  <2>8. pc[t] = "tools"
    <3>1. batch[t] # <<>>
      <4>1. DOMAIN <<>> = {}
        OBVIOUS
      <4> QED BY <4>1
    <3> QED BY <3>1 DEF PlacedTurn
  <2> QED BY <2>3, <2>7, <2>8 DEF PlacedTurn
<1>6. CASE Gather(t) /\ ~OutOfSteps(t)
  <2>0. PICK n \in Nat : n = Len(trace[t])
    BY <1>0
  <2>1. trace'[t] = Append(trace[t], batch[t]) /\ batch'[t] = <<>>
    BY <1>6 DEF Gather, ATypeOK
  <2>2. /\ Len(trace'[t]) = n + 1 /\ Rounds(t)' = 1..n + 2 /\ Rounds(t) = 1..n + 1
        /\ \A k \in 1..n + 1 : Round(t, k)' = Round(t, k)
        /\ Round(t, n + 2)' = <<>>
    BY <2>0, <2>1, RoundsGathered
  <2>3. \A i \in DOMAIN batch[t] : batch[t][i].state # "running"
    BY <1>6 DEF Gather
  <2>4. ASSUME NEW k \in 1..n + 1, NEW i \in DOMAIN Round(t, k) PROVE PlacedAt(t, k, i)'
    <3>1. PlacedAt(t, k, i)
      BY <2>2 DEF PlacedTurn
    <3>2. Round(t, k)[i].state # "running"
      <4>1. k = n + 1 => Round(t, k) = batch[t]
        BY <2>0 DEF Round
      <4> QED BY <2>0, <2>3, <3>1, <4>1 DEF PlacedAt
    <3> QED BY <2>2, <3>1, <3>2 DEF PlacedAt
  <2>5. DOMAIN <<>> = {} /\ \A k \in 1..n + 2 : k \in 1..n + 1 \/ k = n + 2
    BY <1>0
  <2> QED BY <2>1, <2>2, <2>4, <2>5 DEF PlacedTurn
<1>7. Plan(t) \/ ModelFails(t) \/ Gather(t) =>
        \/ Throw(t) \/ (Plan(t) /\ ~OutOfSteps(t)) \/ (Gather(t) /\ ~OutOfSteps(t))
  BY DEF Plan, ModelFails, Gather
<1> QED BY <1>2, <1>3, <1>4, <1>5, <1>6, <1>7 DEF TurnStep

\* The calls stay in their places.
LEMMA PlacedStep == ATypeOK /\ ATypeOK' /\ Pace /\ Placed /\ [ANext]_avars => Placed'
<1> SUFFICES ASSUME ATypeOK, ATypeOK', Pace, Placed, [ANext]_avars, NEW u \in Turns
             PROVE  PlacedTurn(u)'
  BY DEF Placed
<1>1. ASSUME trace'[u] = trace[u], batch'[u] = batch[u], pc'[u] = pc[u] PROVE PlacedTurn(u)'
  <2>1. Rounds(u)' = Rounds(u) /\ \A k : Round(u, k)' = Round(u, k)
    BY <1>1, RoundsStay
  <2> QED BY <1>1, <2>1 DEF Placed, PlacedTurn, PlacedAt
<1>2. CASE UNCHANGED avars \/ Expire
  BY <1>1, <1>2 DEF avars, Expire
<1>3. CASE Crash
  <2>1. trace'[u] = <<>> /\ batch'[u] = <<>>
    BY <1>3 DEF Crash
  <2> QED BY <2>1, PlacedEmpty
<1>4. ASSUME NEW t \in Turns, TurnStep(t) PROVE PlacedTurn(u)'
  <2>1. CASE u = t
    BY <1>4, <2>1, PlacedTurnStep DEF Placed
  <2>2. CASE u # t
    BY <1>1, <1>4, <2>2, Others
  <2> QED BY <2>1, <2>2
<1> QED BY <1>2, <1>3, <1>4, NextIs DEF AllOver
\* The comment of the call is stored.
Noted(c) == c.kind = "add_comment" /\ c.state = "ok"

(* While a turn runs, the comments stored under its name are those of its       *)
(* calls; before it runs there are none.                                       *)
CommentedTurn(t) ==
    /\ pc[t] = "idle" => \A g \in comments : g[1] # t
    /\ Running(t) =>
         /\ \A k \in Rounds(t) : \A i \in DOMAIN Round(t, k) :
              Noted(Round(t, k)[i]) => <<t, k, i>> \in comments
         /\ \A g \in comments : g[1] = t =>
              /\ g[2] \in Rounds(t) /\ g[3] \in DOMAIN Round(t, g[2])
              /\ Noted(Round(t, g[2])[g[3]])

Commented == \A t \in Turns : CommentedTurn(t)

\* The steps of one turn keep the comments accounted for.
LEMMA CommentedTurnStep ==
    ASSUME ATypeOK, ATypeOK', Pace, NEW t \in Turns, PlacedTurn(t), CommentedTurn(t), TurnStep(t)
    PROVE  CommentedTurn(t)'
<1>0. Len(trace[t]) \in Nat /\ pc \in [Turns -> {"idle", "planner", "tools", "synthesizer", "save",
                                              "answered", "failed"}]
  BY RoundsType DEF ATypeOK
<1>1. ASSUME Throw(t) \/ Save(t) PROVE CommentedTurn(t)'
  <2>1. pc'[t] \in {"failed", "answered"}
    BY <1>0, <1>1 DEF Throw, Save
  <2> QED BY <2>1 DEF CommentedTurn, Running
<1>2. CASE Load(t)
  <2>1. /\ pc[t] = "idle" /\ pc'[t] = "planner" /\ comments' = comments
        /\ trace'[t] = trace[t] /\ batch'[t] = batch[t]
    BY <1>0, <1>2 DEF Load, stored
  <2>2. trace[t] = <<>> /\ batch[t] = <<>>
    BY <2>1 DEF Pace, Paced, PlacedTurn
  <2>3. Rounds(t)' = {1} /\ Round(t, 1)' = <<>> /\ DOMAIN <<>> = {}
    BY <2>1, <2>2, RoundsEmpty
  <2>4. \A g \in comments : g[1] # t
    BY <2>1 DEF CommentedTurn
  <2> QED BY <2>1, <2>3, <2>4 DEF CommentedTurn
<1>3. CASE Synthesize(t)
  <2>1. /\ pc[t] = "synthesizer" /\ pc'[t] = "save" /\ comments' = comments
        /\ trace'[t] = trace[t] /\ batch'[t] = batch[t]
    BY <1>0, <1>3 DEF Synthesize, stored
  <2>2. Rounds(t)' = Rounds(t) /\ \A k : Round(t, k)' = Round(t, k)
    BY <2>1, RoundsStay
  <2> QED BY <2>1, <2>2 DEF CommentedTurn, Running
<1>4. CASE Plan(t) /\ ~OutOfSteps(t)
  <2>0. PICK m \in Nat : m = Len(trace[t]) + 1
    BY <1>0
  <2>1. PICK asked \in Menu[t] \cup {<<>>} : batch' = [batch EXCEPT ![t] = Numbered(t, asked)]
    BY <1>4 DEF Plan
  <2>2. /\ trace' = trace /\ batch[t] = <<>> /\ batch'[t] = Numbered(t, asked)
        /\ comments' = comments /\ pc[t] = "planner" /\ pc'[t] # "idle"
    BY <1>0, <1>4, <2>1, ZenonT(40) DEF Plan, PlacedTurn, ATypeOK, stored
  <2>3. /\ \A k \in Rounds(t) : k # m => Round(t, k)' = Round(t, k)
        /\ Rounds(t)' = Rounds(t) /\ Round(t, m)' = Numbered(t, asked) /\ Round(t, m) = <<>>
    BY <2>0, <2>2 DEF Round, Rounds
  <2>4. \A i \in DOMAIN Numbered(t, asked) : ~Noted(Numbered(t, asked)[i])
    BY DEF Numbered, Noted
  <2>5. DOMAIN <<>> = {}
    OBVIOUS
  <2>6. \A k \in Rounds(t)' : \A i \in DOMAIN Round(t, k)' :
           Noted(Round(t, k)'[i]) => <<t, k, i>> \in comments'
    BY <2>2, <2>3, <2>4 DEF CommentedTurn, Running
  <2>7. \A g \in comments' : g[1] = t =>
          /\ g[2] \in Rounds(t)' /\ g[3] \in DOMAIN Round(t, g[2])'
          /\ Noted(Round(t, g[2])'[g[3]])
    BY <2>2, <2>3, <2>5 DEF CommentedTurn, Running
  <2> QED BY <2>2, <2>6, <2>7 DEF CommentedTurn, Noted
<1>5. ASSUME NEW i \in DOMAIN batch[t], ToolStep(t, i) \/ ToolFail(t, i) PROVE CommentedTurn(t)'
  <2>0. PICK m \in Nat : m = Len(trace[t]) + 1
    BY <1>0
  <2>1. Elsewhere(t, i)
    BY <1>5, StepAdvances, FailStays
  <2>2. /\ Rounds(t)' = Rounds(t) /\ m \in Rounds(t)
        /\ Round(t, m) = batch[t] /\ Round(t, m)' = batch'[t]
        /\ \A k \in Rounds(t) : DOMAIN Round(t, k)' = DOMAIN Round(t, k)
        /\ \A k \in Rounds(t) : \A j \in DOMAIN Round(t, k) :
             k # m \/ j # i => Round(t, k)'[j] = Round(t, k)[j]
    BY <2>0, <2>1, RoundsElse
  <2>3. trace' = trace /\ pc' = pc /\ pc[t] = "tools"
    <3>1. batch[t] # <<>>
      <4>1. DOMAIN <<>> = {}
        OBVIOUS
      <4> QED BY <4>1
    <3> QED BY <2>1, <3>1 DEF Elsewhere, PlacedTurn
  <2> DEFINE c == batch[t][i]
             d == batch'[t][i]
  <2>4. c.tag = <<t, m, i>> /\ c.state = "running"
    <3>1. PlacedAt(t, m, i)
      BY <2>2 DEF PlacedTurn
    <3> QED BY <1>5, <2>2, <3>1 DEF PlacedAt, ToolStep, ToolFail
  <2>5. \/ ~Noted(d) /\ comments' = comments
        \/ Noted(d) /\ comments' = comments \cup {<<t, m, i>>}
    <3>1. CASE ToolFail(t, i)
      <4>1. d = [c EXCEPT !.state = "failed"] /\ c \in Calls /\ comments' = comments
        BY <3>1, FailStays DEF ToolFail, stored
      <4> HIDE DEF c, d
      <4>2. d.state = "failed"
        BY <4>1 DEF Calls
      <4> QED BY <4>1, <4>2 DEF Noted
    <3>2. CASE ToolStep(t, i)
      <4>1. Advanced(t, i)
        BY <3>2, StepAdvances
      <4>2. /\ c \in Calls /\ d.kind = c.kind
            /\ d.state = IF c.kind = "set_cells" /\ c.done + 1 < Len(c.cells) THEN "running" ELSE "ok"
        BY <4>1, Zenon DEF Advanced
      <4>3. c.kind \in {"read", "set_cells", "delete_cells", "add_comment"}
        BY <4>2 DEF Calls, ToolKinds
      <4>4. CASE c.kind = "add_comment"
        <5>1. comments' = comments \cup {c.tag}
          BY <3>2, <4>4 DEF ToolStep
        <5> HIDE DEF c, d
        <5> QED BY <2>4, <4>2, <4>4, <5>1 DEF Noted
      <4>5. CASE c.kind # "add_comment"
        <5>1. comments' = comments
          BY <3>2, <4>3, <4>5 DEF ToolStep
        <5> HIDE DEF c, d
        <5> QED BY <4>2, <4>5, <5>1 DEF Noted
      <4> QED BY <4>4, <4>5
    <3> QED BY <1>5, <3>1, <3>2
  <2>6. ~Noted(c)
    BY <2>4 DEF Noted
  <2>7. Round(t, m)[i] = c /\ Round(t, m)'[i] = d
    BY <2>2
  <2> HIDE DEF c, d
  <2>8. \A k \in Rounds(t)' : \A j \in DOMAIN Round(t, k)' :
           Noted(Round(t, k)'[j]) => <<t, k, j>> \in comments'
    <3> SUFFICES ASSUME NEW k \in Rounds(t), NEW j \in DOMAIN Round(t, k), Noted(Round(t, k)'[j])
                 PROVE  <<t, k, j>> \in comments'
      BY <2>2
    <3>1. CASE k = m /\ j = i
      BY <2>5, <2>7, <3>1
    <3>2. CASE ~(k = m /\ j = i)
      <4>1. Noted(Round(t, k)[j])
        BY <2>2, <3>2
      <4> QED BY <2>3, <2>5, <4>1 DEF CommentedTurn, Running
    <3> QED BY <3>1, <3>2
  <2>9. \A g \in comments' : g[1] = t =>
          /\ g[2] \in Rounds(t)' /\ g[3] \in DOMAIN Round(t, g[2])'
          /\ Noted(Round(t, g[2])'[g[3]])
    <3> SUFFICES ASSUME NEW g \in comments', g[1] = t
                 PROVE  /\ g[2] \in Rounds(t)' /\ g[3] \in DOMAIN Round(t, g[2])'
                        /\ Noted(Round(t, g[2])'[g[3]])
      OBVIOUS
    <3>1. CASE g \in comments
      <4>1. g[2] \in Rounds(t) /\ g[3] \in DOMAIN Round(t, g[2]) /\ Noted(Round(t, g[2])[g[3]])
        BY <2>3, <3>1 DEF CommentedTurn, Running
      <4>2. ~(g[2] = m /\ g[3] = i)
        BY <2>6, <2>7, <4>1
      <4> QED BY <2>2, <4>1, <4>2
    <3>2. CASE g \notin comments
      <4>1. g = <<t, m, i>> /\ Noted(d)
        BY <2>5, <3>2
      <4>2. g[2] = m /\ g[3] = i
        BY <4>1
      <4> QED BY <2>2, <2>7, <4>1, <4>2
    <3> QED BY <3>1, <3>2
  <2> QED BY <2>3, <2>8, <2>9 DEF CommentedTurn, Noted
<1>6. CASE Gather(t) /\ ~OutOfSteps(t)
  <2>0. PICK n \in Nat : n = Len(trace[t])
    BY <1>0
  <2>1. /\ trace'[t] = Append(trace[t], batch[t]) /\ batch'[t] = <<>>
        /\ pc[t] = "tools" /\ pc'[t] = "planner" /\ comments' = comments
    BY <1>6 DEF Gather, ATypeOK, stored
  <2>2. /\ Rounds(t)' = 1..n + 2 /\ Rounds(t) = 1..n + 1
        /\ \A k \in 1..n + 1 : Round(t, k)' = Round(t, k)
        /\ Round(t, n + 2)' = <<>>
    BY <2>0, <2>1, RoundsGathered
  <2>3. DOMAIN <<>> = {} /\ \A k \in 1..n + 2 : k \in 1..n + 1 \/ k = n + 2
    OBVIOUS
  <2>4. \A k \in 1..n + 1 : k \in 1..n + 2
    OBVIOUS
  <2>5. \A k \in Rounds(t)' : \A i \in DOMAIN Round(t, k)' :
           Noted(Round(t, k)'[i]) => <<t, k, i>> \in comments'
    BY <2>1, <2>2, <2>3 DEF CommentedTurn, Running
  <2>6. \A g \in comments' : g[1] = t =>
          /\ g[2] \in Rounds(t)' /\ g[3] \in DOMAIN Round(t, g[2])'
          /\ Noted(Round(t, g[2])'[g[3]])
    BY <2>1, <2>2, <2>4 DEF CommentedTurn, Running
  <2> QED BY <2>1, <2>5, <2>6 DEF CommentedTurn, Noted
<1>7. Plan(t) \/ ModelFails(t) \/ Gather(t) =>
        \/ Throw(t) \/ (Plan(t) /\ ~OutOfSteps(t)) \/ (Gather(t) /\ ~OutOfSteps(t))
  BY DEF Plan, ModelFails, Gather
<1> QED BY <1>1, <1>2, <1>3, <1>4, <1>5, <1>6, <1>7 DEF TurnStep

\* A comment is stored under the name of the turn that acts.
LEMMA CommentsOfActor ==
    ASSUME ATypeOK, NEW t \in Turns, PlacedTurn(t), TurnStep(t)
    PROVE  comments \subseteq comments' /\ \A g \in comments' : g \in comments \/ g[1] = t
<1>1. ASSUME NEW i \in DOMAIN batch[t], ToolStep(t, i)
      PROVE  comments \subseteq comments' /\ \A g \in comments' : g \in comments \/ g[1] = t
  <2>0. PICK m \in Nat : m = Len(trace[t]) + 1
    BY RoundsType
  <2>1. m \in Rounds(t) /\ Round(t, m) = batch[t]
    BY <2>0, RoundsType DEF Round
  <2>2. batch[t][i].tag = <<t, m, i>>
    BY <2>1 DEF PlacedTurn, PlacedAt
  <2>3. batch[t] \in Seq(Calls) /\ batch[t][i] \in Calls
    BY DEF ATypeOK
  <2>4. batch[t][i].kind \in {"read", "set_cells", "delete_cells", "add_comment"}
    BY <2>3 DEF Calls, ToolKinds
  <2>5. comments \subseteq comments' /\ comments' \subseteq comments \cup {batch[t][i].tag}
    BY <1>1, <2>4 DEF ToolStep
  <2> QED BY <2>2, <2>5
<1>2. ASSUME NEW i \in DOMAIN batch[t], ToolFail(t, i) PROVE comments' = comments
  BY <1>2 DEF ToolFail, stored
<1>3. Load(t) \/ Plan(t) \/ ModelFails(t) \/ Gather(t) \/ Synthesize(t) \/ Save(t)
         => comments' = comments
  BY DEF Load, Plan, ModelFails, Gather, Synthesize, Save, stored
<1> QED BY <1>1, <1>2, <1>3 DEF TurnStep

\* At first there are no comments.
LEMMA CommentedInit == AInit => Commented
BY DEF AInit, Commented, CommentedTurn, Running

\* The comments stay accounted for.
LEMMA CommentedStep ==
    ATypeOK /\ ATypeOK' /\ Pace /\ Placed /\ Commented /\ [ANext]_avars => Commented'
<1> SUFFICES ASSUME ATypeOK, ATypeOK', Pace, Placed, Commented, [ANext]_avars, NEW u \in Turns
             PROVE  CommentedTurn(u)'
  BY DEF Commented
<1>1. ASSUME trace'[u] = trace[u], batch'[u] = batch[u], pc'[u] = pc[u],
             comments \subseteq comments', \A g \in comments' : g \in comments \/ g[1] # u
      PROVE  CommentedTurn(u)'
  <2>1. Rounds(u)' = Rounds(u) /\ \A k : Round(u, k)' = Round(u, k)
    BY <1>1, RoundsStay
  <2> QED BY <1>1, <2>1 DEF Commented, CommentedTurn, Running
<1>2. CASE UNCHANGED avars \/ Expire
  BY <1>1, <1>2 DEF avars, Expire
<1>3. CASE Crash
  <2>1. comments' = comments /\ (pc'[u] = "idle" => pc[u] = "idle")
        /\ pc'[u] \notin {"planner", "tools", "synthesizer", "save"}
    BY <1>3 DEF Crash, ATypeOK, Running, stored
  <2> QED BY <2>1 DEF Commented, CommentedTurn, Running
<1>4. ASSUME NEW t \in Turns, TurnStep(t) PROVE CommentedTurn(u)'
  <2>1. CASE u = t
    BY <1>4, <2>1, CommentedTurnStep DEF Placed, Commented
  <2>2. CASE u # t
    <3>1. trace'[u] = trace[u] /\ batch'[u] = batch[u] /\ pc'[u] = pc[u]
      BY <1>4, <2>2, Others
    <3>2. \A g \in comments' : g \in comments \/ g[1] # u
      BY <1>4, <2>2, CommentsOfActor DEF Placed
    <3>3. comments \subseteq comments'
      BY <1>4, CommentsOfActor DEF Placed
    <3> QED BY <1>1, <3>1, <3>2, <3>3
  <2> QED BY <2>1, <2>2
<1> QED BY <1>2, <1>3, <1>4, NextIs DEF AllOver
-----------------------------------------------------------------------------
(* The cells a turn has written.                                              *)

\* The cells a call has written, so far.
Touched(c) ==
    CASE c.kind = "set_cells"                      -> {c.cells[j] : j \in 1..c.done}
      [] c.kind = "delete_cells" /\ c.state = "ok" -> ToSet(c.cells)
      [] OTHER                                     -> {}

\* The calls that have written p, by round and place.
Writers(t, p) ==
    UNION {{<<k, i>> : i \in {j \in DOMAIN Round(t, k) : p \in Touched(Round(t, k)[j])}}
           : k \in Rounds(t)}

(* A cell holds what the last call that wrote it left there, or, if there is     *)
(* none, what the turn found in it.                                            *)
HeldAt(t, p) ==
    \/ Writers(t, p) = {} /\ cells[p] = view[t][p]
    \/ \E w \in Writers(t, p) :
         /\ \A v \in Writers(t, p) : v[1] < w[1] \/ v = w
         /\ cells[p] = Mark(Round(t, w[1])[w[2]])

\* No call has failed, and no two calls of a round name the same cell.
SmoothSoFar(t) ==
    \A k \in Rounds(t) : \A i, j \in DOMAIN Round(t, k) :
       LET c == Round(t, k)[i]
           d == Round(t, k)[j]
       IN  c.state # "failed" /\ (i # j => ToSet(c.cells) \cap ToSet(d.cells) = {})

HeldTurn(t) == Running(t) /\ alone[t] /\ SmoothSoFar(t) => \A p \in Positions : HeldAt(t, p)

Held == \A t \in Turns : HeldTurn(t)

\* The writers of a cell, spelled out.
LEMMA WritersAre ==
    ASSUME NEW t, NEW p
    PROVE  \A w : w \in Writers(t, p) <=>
             \E k \in Rounds(t) : \E i \in DOMAIN Round(t, k) :
                w = <<k, i>> /\ p \in Touched(Round(t, k)[i])
<1>1. \A w : w \in Writers(t, p) <=>
        \E k \in Rounds(t) :
           w \in {<<k, i>> : i \in {j \in DOMAIN Round(t, k) : p \in Touched(Round(t, k)[j])}}
  BY Zenon DEF Writers
<1> QED BY <1>1, Zenon

(* The same, of the state after a step.                                        *)
LEMMA WritersWillBe ==
    ASSUME NEW t, NEW p
    PROVE  \A w : w \in Writers(t, p)' <=>
             \E k \in Rounds(t)' : \E i \in DOMAIN Round(t, k)' :
                w = <<k, i>> /\ p \in Touched(Round(t, k)'[i])
<1>1. \A w : w \in Writers(t, p)' <=>
        \E k \in Rounds(t)' :
           w \in {<<k, i>> : i \in {j \in DOMAIN Round(t, k)' : p \in Touched(Round(t, k)'[j])}}
  BY ZenonT(40) DEF Writers, Touched
<1> QED BY <1>1, Zenon

(* What is held stays when neither the calls that wrote it nor the cell change. *)
LEMMA HeldStays ==
    ASSUME NEW t, NEW p, HeldAt(t, p),
           \A k \in Rounds(t) : \A i \in DOMAIN Round(t, k) :
              p \in Touched(Round(t, k)[i]) =>
                 /\ k \in Rounds(t)' /\ i \in DOMAIN Round(t, k)'
                 /\ p \in Touched(Round(t, k)'[i])
                 /\ Mark(Round(t, k)'[i]) = Mark(Round(t, k)[i]),
           \A k \in Rounds(t)' : \A i \in DOMAIN Round(t, k)' :
              p \in Touched(Round(t, k)'[i]) =>
                 k \in Rounds(t) /\ i \in DOMAIN Round(t, k) /\ p \in Touched(Round(t, k)[i]),
           cells'[p] = cells[p], view'[t] = view[t]
    PROVE  HeldAt(t, p)'
<1>1. \A w : w \in Writers(t, p)' => w \in Writers(t, p)
  BY WritersAre, WritersWillBe
<1>2. \A w : w \in Writers(t, p) => w \in Writers(t, p)'
  BY WritersAre, WritersWillBe
<1>3. Writers(t, p)' = Writers(t, p)
  BY <1>1, <1>2
<1>4. CASE Writers(t, p) = {} /\ cells[p] = view[t][p]
  BY <1>3, <1>4 DEF HeldAt
<1>5. CASE \E w \in Writers(t, p) :
             /\ \A v \in Writers(t, p) : v[1] < w[1] \/ v = w
             /\ cells[p] = Mark(Round(t, w[1])[w[2]])
  <2>1. PICK w \in Writers(t, p) : /\ \A v \in Writers(t, p) : v[1] < w[1] \/ v = w
                                  /\ cells[p] = Mark(Round(t, w[1])[w[2]])
    BY <1>5
  <2>2. PICK k \in Rounds(t) : \E i \in DOMAIN Round(t, k) :
          w = <<k, i>> /\ p \in Touched(Round(t, k)[i])
    BY WritersAre
  <2>3. PICK i \in DOMAIN Round(t, k) : w = <<k, i>> /\ p \in Touched(Round(t, k)[i])
    BY <2>2
  <2>4. cells'[p] = Mark(Round(t, w[1])'[w[2]])
    <3>1. w[1] = k /\ w[2] = i
      BY <2>3
    <3>2. Mark(Round(t, k)'[i]) = Mark(Round(t, k)[i])
      BY <2>3
    <3> QED BY <2>1, <3>1, <3>2
  <2> QED BY <1>3, <2>1, <2>4 DEF HeldAt, Mark
<1> QED BY <1>4, <1>5 DEF HeldAt
(* A statement that writes the cells N: the i-th call of the running round is   *)
(* the last to have written them, and it leaves the others alone.             *)
LEMMA HeldWritten ==
    ASSUME ATypeOK, NEW t \in Turns, NEW i \in DOMAIN batch[t], Elsewhere(t, i),
           NEW N, NEW p, HeldAt(t, p), SmoothSoFar(t)', view'[t] = view[t],
           batch'[t][i].cells = batch[t][i].cells,
           Touched(batch'[t][i]) = Touched(batch[t][i]) \cup N,
           Touched(batch'[t][i]) \subseteq ToSet(batch'[t][i].cells),
           Mark(batch'[t][i]) = Mark(batch[t][i]),
           \A k \in Rounds(t) : \A j \in DOMAIN Round(t, k) :
              Touched(Round(t, k)[j]) \subseteq ToSet(Round(t, k)[j].cells),
           cells'[p] = IF p \in N THEN Mark(batch'[t][i]) ELSE cells[p]
    PROVE  HeldAt(t, p)'
<1>0. PICK m \in Nat : m = Len(trace[t]) + 1
  BY RoundsType
<1>1. /\ Rounds(t)' = Rounds(t) /\ m \in Rounds(t)
      /\ Round(t, m) = batch[t] /\ Round(t, m)' = batch'[t]
      /\ \A k \in Rounds(t) : DOMAIN Round(t, k)' = DOMAIN Round(t, k)
      /\ \A k \in Rounds(t) : \A j \in DOMAIN Round(t, k) :
           k # m \/ j # i => Round(t, k)'[j] = Round(t, k)[j]
  BY <1>0, RoundsElse
<1>2. \A k \in Rounds(t) : k < m \/ k = m
  BY <1>0, RoundsType DEF Rounds
<1>3. CASE p \notin N
  <2>1. ASSUME NEW k \in Rounds(t), NEW j \in DOMAIN Round(t, k)
        PROVE  /\ p \in Touched(Round(t, k)'[j]) <=> p \in Touched(Round(t, k)[j])
               /\ Mark(Round(t, k)'[j]) = Mark(Round(t, k)[j])
    <3>1. CASE k = m /\ j = i
      BY <1>1, <1>3, <3>1
    <3>2. CASE ~(k = m /\ j = i)
      BY <1>1, <3>2
    <3> QED BY <3>1, <3>2
  <2>2. cells'[p] = cells[p]
    BY <1>3
  <2>3. \A k \in Rounds(t) : \A j \in DOMAIN Round(t, k) :
           p \in Touched(Round(t, k)[j]) =>
              /\ k \in Rounds(t)' /\ j \in DOMAIN Round(t, k)'
              /\ p \in Touched(Round(t, k)'[j])
              /\ Mark(Round(t, k)'[j]) = Mark(Round(t, k)[j])
    BY <1>1, <2>1
  <2>4. \A k \in Rounds(t)' : \A j \in DOMAIN Round(t, k)' :
           p \in Touched(Round(t, k)'[j]) =>
              k \in Rounds(t) /\ j \in DOMAIN Round(t, k) /\ p \in Touched(Round(t, k)[j])
    BY <1>1, <2>1
  <2> QED BY <2>2, <2>3, <2>4, HeldStays
<1>4. CASE p \in N
  <2>1. cells'[p] = Mark(Round(t, m)'[i]) /\ p \in Touched(Round(t, m)'[i])
    BY <1>1, <1>4
  <2>2. <<m, i>> \in Writers(t, p)'
    BY <1>1, <2>1, WritersWillBe
  <2>3. ASSUME NEW v \in Writers(t, p)' PROVE v[1] < m \/ v = <<m, i>>
    <3>1. PICK k \in Rounds(t)' : \E j \in DOMAIN Round(t, k)' :
            v = <<k, j>> /\ p \in Touched(Round(t, k)'[j])
      BY WritersWillBe
    <3>2. PICK j \in DOMAIN Round(t, k)' : v = <<k, j>> /\ p \in Touched(Round(t, k)'[j])
      BY <3>1
    <3>3. CASE k < m
      BY <3>2, <3>3
    <3>4. CASE k = m
      <4>1. SUFFICES ASSUME j # i PROVE FALSE
        BY <3>2, <3>4
      <4>2. j \in DOMAIN batch[t] /\ Round(t, m)'[j] = Round(t, m)[j]
        BY <1>1, <3>2, <3>4, <4>1
      <4>3. p \in ToSet(Round(t, m)'[j].cells)
        BY <1>1, <3>2, <3>4, <4>2
      <4>4. p \in ToSet(Round(t, m)'[i].cells)
        BY <1>1, <2>1
      <4>5. ToSet(Round(t, m)'[i].cells) \cap ToSet(Round(t, m)'[j].cells) = {}
        BY <1>1, <4>1, <4>2, ZenonT(40) DEF SmoothSoFar
      <4> QED BY <4>3, <4>4, <4>5
    <3> QED BY <1>1, <1>2, <3>3, <3>4
  <2>4. <<m, i>>[1] = m /\ <<m, i>>[2] = i
    OBVIOUS
  <2>5. /\ \A v \in Writers(t, p)' : v[1] < <<m, i>>[1] \/ v = <<m, i>>
        /\ cells'[p] = Mark(Round(t, <<m, i>>[1])'[<<m, i>>[2]])
    BY <2>1, <2>3, <2>4
  <2> QED BY <2>2, <2>5 DEF HeldAt, Mark
<1> QED BY <1>3, <1>4

\* A call writes no other cells than its own.
LEMMA TouchedOwn ==
    ASSUME NEW c \in Calls, c.kind = "set_cells" => c.done <= Len(c.cells)
    PROVE  Touched(c) \subseteq ToSet(c.cells)
<1>1. c.kind \in {"read", "set_cells", "delete_cells", "add_comment"} /\ c.done \in Nat
      /\ c.cells \in Seq(Positions) /\ Len(c.cells) \in Nat
  BY DEF Calls, ToolKinds
<1>2. ToSet(c.cells) = {c.cells[j] : j \in 1..Len(c.cells)}
  BY <1>1 DEF ToSet
<1>3. CASE c.kind = "set_cells"
  <2>1. 1..c.done \subseteq 1..Len(c.cells)
    BY <1>1, <1>3
  <2> QED BY <1>2, <1>3, <2>1 DEF Touched
<1> QED BY <1>3 DEF Touched

\* A statement of a call keeps what its turn wrote.
LEMMA HeldToolStep ==
    ASSUME ATypeOK, ATypeOK', NEW t \in Turns, PlacedTurn(t), PlacedTurn(t)', HeldTurn(t),
           NEW i \in DOMAIN batch[t], ToolStep(t, i)
    PROVE  HeldTurn(t)'
<1> SUFFICES ASSUME Running(t)', alone'[t], SmoothSoFar(t)', NEW p \in Positions
             PROVE  HeldAt(t, p)'
  BY DEF HeldTurn
<1> DEFINE c == batch[t][i]
           d == batch'[t][i]
<1>0. PICK m \in Nat : m = Len(trace[t]) + 1
  BY RoundsType
<1>1. Elsewhere(t, i) /\ Advanced(t, i)
  BY StepAdvances
<1>2. /\ Rounds(t)' = Rounds(t) /\ m \in Rounds(t)
      /\ Round(t, m) = batch[t] /\ Round(t, m)' = batch'[t]
      /\ \A k \in Rounds(t) : DOMAIN Round(t, k)' = DOMAIN Round(t, k)
      /\ \A k \in Rounds(t) : \A j \in DOMAIN Round(t, k) :
           k # m \/ j # i => Round(t, k)'[j] = Round(t, k)[j]
  BY <1>0, <1>1, RoundsElse
<1>3. /\ c \in Calls /\ d \in Calls /\ c.state = "running"
      /\ d.kind = c.kind /\ d.cells = c.cells /\ d.tag = c.tag /\ d.done = c.done + 1
      /\ d.state = IF c.kind = "set_cells" /\ c.done + 1 < Len(c.cells) THEN "running" ELSE "ok"
  BY <1>1, Zenon DEF Advanced
<1>4. /\ c.kind \in {"read", "set_cells", "delete_cells", "add_comment"} /\ c.done \in Nat
      /\ c.cells \in Seq(Positions) /\ Len(c.cells) \in Nat
  BY <1>3 DEF Calls, ToolKinds
<1>5. /\ c.kind = "set_cells" => c.done < Len(c.cells)
      /\ d.kind = "set_cells" => d.done <= Len(d.cells)
  <2>1. PlacedAt(t, m, i)
    BY <1>2 DEF PlacedTurn
  <2>2. c.kind = "set_cells" => c.done < Len(c.cells)
    BY <1>2, <1>3, <2>1 DEF PlacedAt
  <2> HIDE DEF c, d
  <2> QED BY <1>3, <1>4, <2>2
<1>6. view'[t] = view[t] /\ pc' = pc
  BY DEF ToolStep
<1>7. /\ alone'[t] = alone[t]
      /\ \/ c.kind = "set_cells" /\ cells' = [cells EXCEPT ![c.cells[c.done + 1]] = c.tag]
         \/ c.kind = "delete_cells"
              /\ cells' = [q \in Positions |-> IF q \in ToSet(c.cells) THEN Empty ELSE cells[q]]
         \/ c.kind \notin {"set_cells", "delete_cells"} /\ cells' = cells
  <2>1. Disturb(t) => alone'[t] = alone[t]
    BY DEF Disturb, ATypeOK
  <2>2. CASE c.kind = "set_cells"
    BY <2>1, <2>2 DEF ToolStep
  <2>3. CASE c.kind = "delete_cells"
    BY <2>1, <2>3 DEF ToolStep
  <2>4. CASE c.kind = "add_comment" \/ c.kind = "read"
    <3>1. UNCHANGED <<cells, alone>>
      BY <2>4 DEF ToolStep
    <3> HIDE DEF c
    <3> QED BY <2>4, <3>1
  <2> HIDE DEF c
  <2> QED BY <1>4, <2>2, <2>3, <2>4
<1>8. SmoothSoFar(t)
  <2>1. ASSUME NEW k \in Rounds(t), NEW j \in DOMAIN Round(t, k)
        PROVE  /\ Round(t, k)'[j].cells = Round(t, k)[j].cells
               /\ Round(t, k)[j].state # "failed"
    <3>1. Round(t, k)'[j].state # "failed"
      BY <1>2, <2>1 DEF SmoothSoFar
    <3>2. CASE k = m /\ j = i
      BY <1>2, <1>3, <3>2
    <3>3. CASE ~(k = m /\ j = i)
      BY <1>2, <3>1, <3>3
    <3> QED BY <3>2, <3>3
  <2>2. ASSUME NEW k \in Rounds(t), NEW j \in DOMAIN Round(t, k), NEW l \in DOMAIN Round(t, k), j # l
        PROVE  ToSet(Round(t, k)[j].cells) \cap ToSet(Round(t, k)[l].cells) = {}
    <3>1. ToSet(Round(t, k)'[j].cells) \cap ToSet(Round(t, k)'[l].cells) = {}
      BY <1>2, <2>2 DEF SmoothSoFar
    <3>2. /\ Round(t, k)'[j].cells = Round(t, k)[j].cells
          /\ Round(t, k)'[l].cells = Round(t, k)[l].cells
      BY <2>1
    <3> QED BY <3>1, <3>2
  <2> QED BY <2>1, <2>2 DEF SmoothSoFar
<1>9. HeldAt(t, p)
  BY <1>6, <1>7, <1>8 DEF HeldTurn, Running
<1>10. \A k \in Rounds(t) : \A j \in DOMAIN Round(t, k) :
          Touched(Round(t, k)[j]) \subseteq ToSet(Round(t, k)[j].cells)
  BY CallsType, TouchedOwn DEF PlacedTurn, PlacedAt
<1>11. Touched(d) \subseteq ToSet(d.cells)
  <2> HIDE DEF c, d
  <2> QED BY <1>3, <1>5, TouchedOwn
<1>12. Mark(d) = Mark(c)
  <2> HIDE DEF c, d
  <2> QED BY <1>3 DEF Mark
<1>13. \E N : /\ Touched(d) = Touched(c) \cup N
              /\ cells'[p] = IF p \in N THEN Mark(d) ELSE cells[p]
  <2>1. cells \in [Positions -> Tags \cup {Empty}]
    BY DEF ATypeOK
  <2> HIDE DEF c, d
  <2>2. CASE c.kind = "set_cells" /\ cells' = [cells EXCEPT ![c.cells[c.done + 1]] = c.tag]
    <3> DEFINE q == c.cells[c.done + 1]
    <3>1. Touched(d) = Touched(c) \cup {q}
      <4>1. \A j : j \in 1..c.done + 1 <=> j \in 1..c.done \/ j = c.done + 1
        BY <1>4
      <4>2. Touched(d) = {c.cells[j] : j \in 1..c.done + 1} /\ Touched(c) = {c.cells[j] : j \in 1..c.done}
        BY <1>3, <2>2 DEF Touched
      <4> QED BY <4>1, <4>2
    <3>2. Mark(d) = c.tag
      BY <1>3, <2>2 DEF Mark
    <3>3. cells'[p] = IF p \in {q} THEN Mark(d) ELSE cells[p]
      BY <2>1, <2>2, <3>2
    <3> HIDE DEF q
    <3> QED BY <3>1, <3>3
  <2>3. CASE /\ c.kind = "delete_cells"
             /\ cells' = [q \in Positions |-> IF q \in ToSet(c.cells) THEN Empty ELSE cells[q]]
    <3> DEFINE N == ToSet(c.cells)
    <3>1. d.state = "ok" /\ Mark(d) = Empty
      BY <1>3, <2>3 DEF Mark
    <3>2. Touched(d) = N /\ Touched(c) = {}
      BY <1>3, <2>3, <3>1 DEF Touched
    <3>3. cells'[p] = IF p \in N THEN Mark(d) ELSE cells[p]
      BY <2>3, <3>1
    <3> HIDE DEF N
    <3> QED BY <3>2, <3>3
  <2>4. CASE c.kind \notin {"set_cells", "delete_cells"} /\ cells' = cells
    <3> DEFINE N == {}
    <3>1. Touched(d) = Touched(c) \cup N
      BY <1>3, <2>4 DEF Touched
    <3>2. cells'[p] = IF p \in N THEN Mark(d) ELSE cells[p]
      BY <2>4
    <3> HIDE DEF N
    <3> QED BY <3>1, <3>2
  <2> QED BY <1>7, <2>2, <2>3, <2>4
<1>14. PICK N : /\ Touched(d) = Touched(c) \cup N
                /\ cells'[p] = IF p \in N THEN Mark(d) ELSE cells[p]
  BY <1>13
<1> QED BY <1>1, <1>3, <1>6, <1>9, <1>10, <1>11, <1>12, <1>14, HeldWritten
\* The other steps of a turn leave what it wrote.
LEMMA HeldTurnStep ==
    ASSUME ATypeOK, ATypeOK', Pace, NEW t \in Turns, PlacedTurn(t), PlacedTurn(t)', HeldTurn(t),
           TurnStep(t)
    PROVE  HeldTurn(t)'
<1>0. Len(trace[t]) \in Nat /\ pc \in [Turns -> {"idle", "planner", "tools", "synthesizer", "save",
                                              "answered", "failed"}]
  BY RoundsType DEF ATypeOK
<1>1. ASSUME Throw(t) \/ Save(t) PROVE HeldTurn(t)'
  <2>1. pc'[t] \in {"failed", "answered"}
    BY <1>0, <1>1 DEF Throw, Save
  <2> QED BY <2>1 DEF HeldTurn, Running
<1>2. CASE Load(t)
  <2>1. /\ pc[t] = "idle" /\ cells' = cells /\ view'[t] = cells
        /\ trace'[t] = trace[t] /\ batch'[t] = batch[t]
    BY <1>0, <1>2 DEF Load, stored, ATypeOK
  <2>2. trace[t] = <<>> /\ batch[t] = <<>>
    BY <2>1 DEF Pace, Paced, PlacedTurn
  <2>3. Rounds(t)' = {1} /\ Round(t, 1)' = <<>> /\ DOMAIN <<>> = {}
    BY <2>1, <2>2, RoundsEmpty
  <2>4. ASSUME NEW p \in Positions PROVE HeldAt(t, p)'
    <3>1. Writers(t, p)' = {}
      BY <2>3, WritersWillBe
    <3> QED BY <2>1, <3>1 DEF HeldAt
  <2> QED BY <2>4 DEF HeldTurn
<1>3. ASSUME cells' = cells, view'[t] = view[t], alone'[t] = alone[t], Running(t),
             \A k \in Rounds(t) : /\ k \in Rounds(t)'
                                  /\ \A i \in DOMAIN Round(t, k) :
                                       i \in DOMAIN Round(t, k)' /\ Round(t, k)'[i] = Round(t, k)[i],
             \A k \in Rounds(t)' : \A i \in DOMAIN Round(t, k)' :
                \/ k \in Rounds(t) /\ i \in DOMAIN Round(t, k)
                \/ Touched(Round(t, k)'[i]) = {}
      PROVE  HeldTurn(t)'
  <2> SUFFICES ASSUME alone'[t], SmoothSoFar(t)', NEW p \in Positions PROVE HeldAt(t, p)'
    BY DEF HeldTurn
  <2>1. SmoothSoFar(t)
    <3>1. ASSUME NEW k \in Rounds(t), NEW i \in DOMAIN Round(t, k), NEW j \in DOMAIN Round(t, k)
          PROVE  /\ Round(t, k)[i].state # "failed"
                 /\ i # j => ToSet(Round(t, k)[i].cells) \cap ToSet(Round(t, k)[j].cells) = {}
      <4>1. /\ Round(t, k)'[i].state # "failed"
            /\ i # j => ToSet(Round(t, k)'[i].cells) \cap ToSet(Round(t, k)'[j].cells) = {}
        BY <1>3 DEF SmoothSoFar
      <4> QED BY <1>3, <4>1
    <3> QED BY <3>1 DEF SmoothSoFar
  <2>2. HeldAt(t, p)
    BY <1>3, <2>1 DEF HeldTurn
  <2>3. \A k \in Rounds(t) : \A i \in DOMAIN Round(t, k) :
           p \in Touched(Round(t, k)[i]) =>
              /\ k \in Rounds(t)' /\ i \in DOMAIN Round(t, k)'
              /\ p \in Touched(Round(t, k)'[i])
              /\ Mark(Round(t, k)'[i]) = Mark(Round(t, k)[i])
    BY <1>3
  <2>4. \A k \in Rounds(t)' : \A i \in DOMAIN Round(t, k)' :
           p \in Touched(Round(t, k)'[i]) =>
              k \in Rounds(t) /\ i \in DOMAIN Round(t, k) /\ p \in Touched(Round(t, k)[i])
    BY <1>3
  <2>5. cells'[p] = cells[p] /\ view'[t] = view[t]
    BY <1>3
  <2> QED BY <2>2, <2>3, <2>4, <2>5, HeldStays
<1>4. CASE Synthesize(t)
  <2>1. /\ Running(t) /\ cells' = cells /\ view'[t] = view[t] /\ alone'[t] = alone[t]
        /\ trace'[t] = trace[t] /\ batch'[t] = batch[t]
    BY <1>4 DEF Synthesize, stored, Running
  <2>2. Rounds(t)' = Rounds(t) /\ \A k : Round(t, k)' = Round(t, k)
    BY <2>1, RoundsStay
  <2> QED BY <1>3, <2>1, <2>2
<1>5. CASE Plan(t) /\ ~OutOfSteps(t)
  <2>0. PICK m \in Nat : m = Len(trace[t]) + 1
    BY <1>0
  <2>1. PICK asked \in Menu[t] \cup {<<>>} : batch' = [batch EXCEPT ![t] = Numbered(t, asked)]
    BY <1>5 DEF Plan
  <2>2. /\ trace' = trace /\ batch[t] = <<>> /\ batch'[t] = Numbered(t, asked)
        /\ cells' = cells /\ view'[t] = view[t] /\ alone'[t] = alone[t] /\ Running(t)
    BY <1>0, <1>5, <2>1 DEF Plan, PlacedTurn, ATypeOK, stored, Running
  <2>3. /\ \A k \in Rounds(t) : k # m => Round(t, k)' = Round(t, k)
        /\ Rounds(t)' = Rounds(t) /\ Round(t, m)' = Numbered(t, asked) /\ Round(t, m) = <<>>
    BY <2>0, <2>2 DEF Round, Rounds
  <2>4. \A i \in DOMAIN Numbered(t, asked) : Touched(Numbered(t, asked)[i]) = {}
    <3> SUFFICES ASSUME NEW i \in DOMAIN Numbered(t, asked) PROVE Touched(Numbered(t, asked)[i]) = {}
      OBVIOUS
    <3>1. Numbered(t, asked)[i].done = 0 /\ Numbered(t, asked)[i].state = "running" /\ 1..0 = {}
      BY DEF Numbered
    <3> QED BY <3>1 DEF Touched
  <2>5. DOMAIN <<>> = {}
    OBVIOUS
  <2>6. \A k \in Rounds(t) : /\ k \in Rounds(t)'
                             /\ \A i \in DOMAIN Round(t, k) :
                                  i \in DOMAIN Round(t, k)' /\ Round(t, k)'[i] = Round(t, k)[i]
    BY <2>3, <2>5
  <2>7. \A k \in Rounds(t)' : \A i \in DOMAIN Round(t, k)' :
           \/ k \in Rounds(t) /\ i \in DOMAIN Round(t, k)
           \/ Touched(Round(t, k)'[i]) = {}
    BY <2>3, <2>4
  <2> QED BY <1>3, <2>2, <2>6, <2>7
<1>6. CASE Gather(t) /\ ~OutOfSteps(t)
  <2>0. PICK n \in Nat : n = Len(trace[t])
    BY <1>0
  <2>1. /\ trace'[t] = Append(trace[t], batch[t]) /\ batch'[t] = <<>>
        /\ cells' = cells /\ view'[t] = view[t] /\ alone'[t] = alone[t] /\ Running(t)
    BY <1>6 DEF Gather, ATypeOK, stored, Running
  <2>2. /\ Rounds(t)' = 1..n + 2 /\ Rounds(t) = 1..n + 1
        /\ \A k \in 1..n + 1 : Round(t, k)' = Round(t, k)
        /\ Round(t, n + 2)' = <<>>
    BY <2>0, <2>1, RoundsGathered
  <2>3. DOMAIN <<>> = {} /\ \A k \in 1..n + 2 : k \in 1..n + 1 \/ k = n + 2
    OBVIOUS
  <2>4. \A k \in 1..n + 1 : k \in 1..n + 2
    OBVIOUS
  <2>5. \A k \in Rounds(t) : /\ k \in Rounds(t)'
                             /\ \A i \in DOMAIN Round(t, k) :
                                  i \in DOMAIN Round(t, k)' /\ Round(t, k)'[i] = Round(t, k)[i]
    BY <2>2, <2>4
  <2>6. \A k \in Rounds(t)' : \A i \in DOMAIN Round(t, k)' :
           \/ k \in Rounds(t) /\ i \in DOMAIN Round(t, k)
           \/ Touched(Round(t, k)'[i]) = {}
    BY <2>2, <2>3
  <2> QED BY <1>3, <2>1, <2>5, <2>6
<1>7. ASSUME NEW i \in DOMAIN batch[t], ToolFail(t, i) PROVE HeldTurn(t)'
  <2>0. PICK m \in Nat : m = Len(trace[t]) + 1
    BY <1>0
  <2>1. Elsewhere(t, i) /\ batch'[t][i] = [batch[t][i] EXCEPT !.state = "failed"] /\ batch[t][i] \in Calls
    BY <1>7, FailStays
  <2>2. batch'[t][i].state = "failed"
    BY <2>1 DEF Calls
  <2>3. m \in Rounds(t)' /\ Round(t, m)' = batch'[t] /\ i \in DOMAIN batch'[t]
    BY <2>0, <2>1, RoundsElse DEF Elsewhere
  <2>4. ~SmoothSoFar(t)'
    BY <2>2, <2>3 DEF SmoothSoFar
  <2> QED BY <2>4 DEF HeldTurn
<1>8. Plan(t) \/ ModelFails(t) \/ Gather(t) =>
        \/ Throw(t) \/ (Plan(t) /\ ~OutOfSteps(t)) \/ (Gather(t) /\ ~OutOfSteps(t))
  BY DEF Plan, ModelFails, Gather
<1> QED BY <1>1, <1>2, <1>4, <1>5, <1>6, <1>7, <1>8, HeldToolStep DEF TurnStep

(* A turn sees nothing of another's step, or knows that it is not alone.        *)
LEMMA AloneOrNot ==
    ASSUME ATypeOK, NEW t \in Turns, TurnStep(t), NEW u \in Turns \ {t}
    PROVE  /\ view'[u] = view[u]
           /\ (cells' = cells /\ alone'[u] = alone[u]) \/ ~(Running(u) /\ alone'[u])
<1> USE DEF ATypeOK
<1>1. CASE Load(t) \/ Gather(t) \/ Synthesize(t) \/ Save(t)
  BY <1>1 DEF Load, Gather, Synthesize, Save, Throw, Forget, stored
<1>2. CASE Plan(t) \/ ModelFails(t)
  BY <1>2 DEF Plan, ModelFails, Throw, Forget, stored
<1>3. ASSUME NEW i \in DOMAIN batch[t], ToolFail(t, i)
      PROVE  view'[u] = view[u] /\ cells' = cells /\ alone'[u] = alone[u]
  BY <1>3 DEF ToolFail, stored
<1>4. ASSUME NEW i \in DOMAIN batch[t], ToolStep(t, i)
      PROVE  /\ view'[u] = view[u]
             /\ (cells' = cells /\ alone'[u] = alone[u]) \/ ~(Running(u) /\ alone'[u])
  <2>1. Disturb(t) => ~(Running(u) /\ alone'[u])
    BY DEF Disturb
  <2>2. view' = view
    BY <1>4 DEF ToolStep
  <2>3. batch[t] \in Seq(Calls) /\ batch[t][i] \in Calls
    OBVIOUS
  <2>4. batch[t][i].kind \in {"read", "set_cells", "delete_cells", "add_comment"}
    BY <2>3 DEF Calls, ToolKinds
  <2>5. Disturb(t) \/ UNCHANGED <<cells, alone>>
    BY <1>4, <2>4 DEF ToolStep
  <2> QED BY <2>1, <2>2, <2>5
<1> QED BY <1>1, <1>2, <1>3, <1>4 DEF TurnStep

\* At first no turn runs.
LEMMA HeldInit == AInit => Held
BY DEF AInit, Held, HeldTurn, Running

\* What a turn wrote stays held.
LEMMA HeldStep ==
    ATypeOK /\ ATypeOK' /\ Pace /\ Placed /\ Placed' /\ Held /\ [ANext]_avars => Held'
<1> SUFFICES ASSUME ATypeOK, ATypeOK', Pace, Placed, Placed', Held, [ANext]_avars, NEW u \in Turns
             PROVE  HeldTurn(u)'
  BY DEF Held
<1>1. ASSUME trace'[u] = trace[u], batch'[u] = batch[u], pc'[u] = pc[u], view'[u] = view[u],
             (cells' = cells /\ alone'[u] = alone[u]) \/ ~(Running(u) /\ alone'[u])
      PROVE  HeldTurn(u)'
  <2>1. Rounds(u)' = Rounds(u) /\ \A k : Round(u, k)' = Round(u, k)
    BY <1>1, RoundsStay
  <2> SUFFICES ASSUME Running(u)', alone'[u], SmoothSoFar(u)', NEW p \in Positions PROVE HeldAt(u, p)'
    BY DEF HeldTurn
  <2>2. Running(u) /\ cells' = cells /\ alone[u] /\ SmoothSoFar(u)
    BY <1>1, <2>1 DEF Running, SmoothSoFar
  <2>3. HeldAt(u, p)
    BY <2>2 DEF Held, HeldTurn
  <2>4. \A k \in Rounds(u) : \A i \in DOMAIN Round(u, k) :
           p \in Touched(Round(u, k)[i]) =>
              /\ k \in Rounds(u)' /\ i \in DOMAIN Round(u, k)'
              /\ p \in Touched(Round(u, k)'[i])
              /\ Mark(Round(u, k)'[i]) = Mark(Round(u, k)[i])
    BY <2>1
  <2>5. \A k \in Rounds(u)' : \A i \in DOMAIN Round(u, k)' :
           p \in Touched(Round(u, k)'[i]) =>
              k \in Rounds(u) /\ i \in DOMAIN Round(u, k) /\ p \in Touched(Round(u, k)[i])
    BY <2>1
  <2> QED BY <1>1, <2>2, <2>3, <2>4, <2>5, HeldStays
<1>2. CASE UNCHANGED avars \/ Expire
  BY <1>1, <1>2 DEF avars, Expire
<1>3. CASE Crash
  BY <1>3 DEF Crash, HeldTurn, Running, ATypeOK
<1>4. ASSUME NEW t \in Turns, TurnStep(t) PROVE HeldTurn(u)'
  <2>1. CASE u = t
    BY <1>4, <2>1, HeldTurnStep DEF Placed, Held
  <2>2. CASE u # t
    BY <1>1, <1>4, <2>2, Others, AloneOrNot
  <2> QED BY <2>1, <2>2
<1> QED BY <1>2, <1>3, <1>4, NextIs DEF AllOver
-----------------------------------------------------------------------------
(* The report.                                                                *)

\* No two cells have the same name.
LEMMA NamesTold == \A p, q \in Positions : ToA1(p) = ToA1(q) => p = q
<1> SUFFICES ASSUME NEW p \in Positions, NEW q \in Positions, ToA1(p) = ToA1(q) PROVE p = q
  OBVIOUS
<1>1. p \in Nat \X Nat /\ q \in Nat \X Nat
  BY PositionsAssumption
<1>2. ColToLetter[p[2]] = ColToLetter[q[2]] /\ p[1] + 1 = q[1] + 1
  BY Zenon DEF ToA1
<1>3. p[1] = q[1] /\ p[2] = q[2]
  BY <1>1, <1>2, ColumnsTold
<1> QED BY <1>1, <1>3

\* The results of a turn whose calls are over are its calls.
LEMMA ResultsAre ==
    ASSUME ATypeOK, NEW t \in Turns, batch[t] = <<>>
    PROVE  \A c : c \in Results(t) <=> \E k \in Rounds(t) : \E i \in DOMAIN Round(t, k) : c = Round(t, k)[i]
<1>0. PICK n \in Nat : n = Len(trace[t])
  BY RoundsType
<1>1. trace[t] \in Seq(Seq(Calls)) /\ DOMAIN trace[t] = 1..n /\ DOMAIN <<>> = {}
  BY <1>0 DEF ATypeOK
<1>2. Rounds(t) = 1..n + 1 /\ Round(t, n + 1) = <<>> /\ \A k \in 1..n : Round(t, k) = trace[t][k]
  BY <1>0 DEF Rounds, Round
<1>3. \A k \in 1..n : trace[t][k] \in Seq(Calls)
  BY <1>1, ElementOfSeq
<1>4. \A k \in 1..n : \A c : c \in ToSet(trace[t][k]) <=> \E i \in DOMAIN trace[t][k] : c = trace[t][k][i]
  BY <1>3 DEF ToSet
<1>5. \A c : c \in Results(t) <=> \E k \in 1..n : c \in ToSet(trace[t][k])
  BY <1>1 DEF Results
<1>6. \A k \in 1..n + 1 : k \in 1..n \/ k = n + 1
  OBVIOUS
<1>7. \A k \in 1..n : k \in 1..n + 1
  OBVIOUS
<1>8. ASSUME NEW c, NEW k \in Rounds(t), NEW i \in DOMAIN Round(t, k), c = Round(t, k)[i]
      PROVE  c \in Results(t)
  <2>1. k \in 1..n
    BY <1>1, <1>2, <1>6
  <2> QED BY <1>2, <1>4, <1>5, <1>8, <2>1
<1>9. ASSUME NEW c \in Results(t)
      PROVE  \E k \in Rounds(t) : \E i \in DOMAIN Round(t, k) : c = Round(t, k)[i]
  <2>0. PICK k \in 1..n : c \in ToSet(trace[t][k])
    BY <1>5, <1>9
  <2>1. \E i \in DOMAIN trace[t][k] : c = trace[t][k][i]
    BY <1>4, <2>0
  <2>2. k \in Rounds(t) /\ Round(t, k) = trace[t][k]
    BY <1>2, <1>7
  <2> QED BY <2>1, <2>2
<1> QED BY <1>8, <1>9

\* A call that is over has written the cells it names, if it writes cells.
LEMMA TouchedAll ==
    ASSUME NEW c \in Calls, c.state = "ok", c.kind = "set_cells" => c.done = Len(c.cells)
    PROVE  Touched(c) = IF c.kind \in {"set_cells", "delete_cells"} THEN ToSet(c.cells) ELSE {}
<1>1. c.cells \in Seq(Positions)
  BY DEF Calls
<1>2. ToSet(c.cells) = {c.cells[j] : j \in 1..Len(c.cells)}
  BY <1>1 DEF ToSet
<1>3. CASE c.kind = "set_cells"
  BY <1>2, <1>3 DEF Touched
<1>4. CASE c.kind # "set_cells"
  BY <1>4 DEF Touched
<1> QED BY <1>3, <1>4

\* What a turn reports when it saves is true.
LEMMA ReportFollows ==
    ATypeOK /\ Placed /\ Commented /\ Held => ReportIsTrue
<1> SUFFICES ASSUME ATypeOK, Placed, Commented, Held, NEW t \in Turns, pc[t] = "save"
             PROVE  /\ {c.tag : c \in {d \in Actions(t) : d.kind = "add_comment"}}
                         = {g \in comments : g[1] = t}
                    /\ Smooth(t) /\ alone[t] => Applied(t) = cells
  BY DEF ReportIsTrue
<1>1. batch[t] = <<>> /\ Running(t)
  BY DEF Placed, PlacedTurn, Running
<1>2. \A c : c \in Results(t) <=> \E k \in Rounds(t) : \E i \in DOMAIN Round(t, k) : c = Round(t, k)[i]
  BY <1>1, ResultsAre
<1>3. ASSUME NEW k \in Rounds(t), NEW i \in DOMAIN Round(t, k)
      PROVE  /\ Round(t, k)[i] \in Calls /\ Round(t, k)[i].tag = <<t, k, i>>
             /\ k \in Nat /\ i \in Nat
             /\ Round(t, k)[i].kind = "set_cells" /\ Round(t, k)[i].state = "ok"
                   => Round(t, k)[i].done = Len(Round(t, k)[i].cells)
  <2>1. Round(t, k)[i] \in Calls /\ Round(t, k) \in Seq(Calls) /\ k \in Nat
    BY CallsType, RoundsType
  <2>2. PlacedAt(t, k, i)
    BY DEF Placed, PlacedTurn
  <2> QED BY <2>1, <2>2 DEF PlacedAt
<1>4. {c.tag : c \in {d \in Actions(t) : d.kind = "add_comment"}} = {g \in comments : g[1] = t}
  <2>1. ASSUME NEW c \in Actions(t), c.kind = "add_comment"
        PROVE  c.tag \in comments /\ c.tag[1] = t
    <3>1. c \in Results(t) /\ Noted(c)
      BY <2>1 DEF Actions, Noted
    <3>2. PICK k \in Rounds(t) : \E i \in DOMAIN Round(t, k) : c = Round(t, k)[i]
      BY <1>2, <3>1
    <3>3. PICK i \in DOMAIN Round(t, k) : c = Round(t, k)[i]
      BY <3>2
    <3>4. <<t, k, i>> \in comments
      BY <1>1, <3>1, <3>3 DEF Commented, CommentedTurn
    <3>5. c.tag = <<t, k, i>> /\ <<t, k, i>>[1] = t
      BY <1>3, <3>3
    <3> QED BY <3>4, <3>5
  <2>2. ASSUME NEW g \in comments, g[1] = t
        PROVE  \E c \in Actions(t) : c.kind = "add_comment" /\ c.tag = g
    <3> DEFINE c == Round(t, g[2])[g[3]]
    <3>1. g[2] \in Rounds(t) /\ g[3] \in DOMAIN Round(t, g[2]) /\ Noted(c)
      BY <1>1, <2>2 DEF Commented, CommentedTurn
    <3>2. c \in Results(t) /\ c.tag = <<t, g[2], g[3]>>
      BY <1>2, <1>3, <3>1
    <3>3. g = <<t, g[2], g[3]>>
      <4>1. g \in Turns \X (Nat \ {0}) \X (Nat \ {0})
        BY DEF ATypeOK, Tags
      <4> QED BY <2>2, <4>1
    <3> HIDE DEF c
    <3> QED BY <3>1, <3>2, <3>3 DEF Actions, Noted
  <2> QED BY <2>1, <2>2
<1>5. ASSUME Smooth(t), alone[t] PROVE Applied(t) = cells
  <2>1. \A k \in Rounds(t) : \A i \in DOMAIN Round(t, k) : Round(t, k)[i].state = "ok"
    <3> SUFFICES ASSUME NEW k \in Rounds(t), NEW i \in DOMAIN Round(t, k)
                 PROVE  Round(t, k)[i].state = "ok"
      OBVIOUS
    <3>1. k # Len(trace[t]) + 1
      <4>1. DOMAIN <<>> = {}
        OBVIOUS
      <4> QED BY <1>1, <4>1 DEF Round
    <3>2. k \in DOMAIN trace[t] /\ Round(t, k) = trace[t][k]
      BY <3>1, RoundsType DEF Rounds, Round, ATypeOK
    <3> QED BY <1>5, <3>2 DEF Smooth
  <2>2. SmoothSoFar(t)
    <3> SUFFICES ASSUME NEW k \in Rounds(t), NEW i \in DOMAIN Round(t, k), NEW j \in DOMAIN Round(t, k),
                        i # j
                 PROVE  ToSet(Round(t, k)[i].cells) \cap ToSet(Round(t, k)[j].cells) = {}
      BY <2>1 DEF SmoothSoFar
    <3>1. k # Len(trace[t]) + 1
      <4>1. DOMAIN <<>> = {}
        OBVIOUS
      <4> QED BY <1>1, <4>1 DEF Round
    <3>2. k \in DOMAIN trace[t] /\ Round(t, k) = trace[t][k]
      BY <3>1, RoundsType DEF Rounds, Round, ATypeOK
    <3> QED BY <1>5, <3>2 DEF Smooth
  <2>3. ASSUME NEW p \in Positions PROVE Applied(t)[p] = cells[p]
    <3>1. \A k \in Rounds(t) : \A i \in DOMAIN Round(t, k) :
             p \in Touched(Round(t, k)[i]) <=> Round(t, k)[i] \in Naming(t, p)
      <4> SUFFICES ASSUME NEW k \in Rounds(t), NEW i \in DOMAIN Round(t, k)
                   PROVE  p \in Touched(Round(t, k)[i]) <=> Round(t, k)[i] \in Naming(t, p)
        OBVIOUS
      <4> DEFINE c == Round(t, k)[i]
      <4>1. /\ c \in Calls /\ c \in Results(t) /\ c.state = "ok" /\ c.cells \in Seq(Positions)
            /\ c.kind = "set_cells" => c.done = Len(c.cells)
        BY <1>2, <1>3, <2>1 DEF Calls
      <4> HIDE DEF c
      <4>2. Touched(c) = IF c.kind \in {"set_cells", "delete_cells"} THEN ToSet(c.cells) ELSE {}
        BY <4>1, TouchedAll
      <4>3. ToSet(c.cells) \subseteq Positions
        BY <4>1 DEF ToSet
      <4>4. ToA1(p) \in {ToA1(q) : q \in ToSet(c.cells)} <=> p \in ToSet(c.cells)
        BY <4>3, NamesTold
      <4>5. c \in Naming(t, p) <=> /\ c.kind \in {"set_cells", "delete_cells"}
                                   /\ p \in ToSet(c.cells)
        BY <4>1, <4>4 DEF Naming, Actions
      <4>6. p \in Touched(c) <=> c \in Naming(t, p)
        BY <4>2, <4>5
      <4> QED BY <4>6 DEF c
    <3>2. \A c \in Naming(t, p) : c \in Results(t)
      BY DEF Naming, Actions
    <3>3. HeldAt(t, p)
      BY <1>1, <1>5, <2>2 DEF Held, HeldTurn
    <3>4. CASE Writers(t, p) = {} /\ cells[p] = view[t][p]
      <4>1. Naming(t, p) = {}
        <5>1. ASSUME NEW c \in Naming(t, p) PROVE FALSE
          <6>1. PICK k \in Rounds(t) : \E i \in DOMAIN Round(t, k) : c = Round(t, k)[i]
            BY <1>2, <3>2
          <6>2. PICK i \in DOMAIN Round(t, k) : c = Round(t, k)[i]
            BY <6>1
          <6>3. <<k, i>> \in Writers(t, p)
            BY <3>1, <6>2, WritersAre
          <6> QED BY <3>4, <6>3
        <5> QED BY <5>1
      <4> QED BY <3>4, <4>1 DEF Applied
    <3>5. CASE \E w \in Writers(t, p) : /\ \A v \in Writers(t, p) : v[1] < w[1] \/ v = w
                                        /\ cells[p] = Mark(Round(t, w[1])[w[2]])
      <4>1. PICK w \in Writers(t, p) : /\ \A v \in Writers(t, p) : v[1] < w[1] \/ v = w
                                       /\ cells[p] = Mark(Round(t, w[1])[w[2]])
        BY <3>5
      <4>2. PICK k \in Rounds(t) : \E i \in DOMAIN Round(t, k) :
              w = <<k, i>> /\ p \in Touched(Round(t, k)[i])
        BY WritersAre
      <4>3. PICK i \in DOMAIN Round(t, k) : w = <<k, i>> /\ p \in Touched(Round(t, k)[i])
        BY <4>2
      <4> DEFINE c == Round(t, k)[i]
                 Final(x) == \A d \in Naming(t, p) : d = x \/ Before(d, x)
                 x == CHOOSE y \in Naming(t, p) : Final(y)
      <4>4. c \in Naming(t, p) /\ cells[p] = Mark(c)
        <5>1. w[1] = k /\ w[2] = i
          BY <4>3
        <5> QED BY <3>1, <4>1, <4>3, <5>1
      <4>5. ASSUME NEW d \in Naming(t, p), d # c PROVE Before(d, c) /\ ~Before(c, d)
        <5>1. PICK l \in Rounds(t) : \E j \in DOMAIN Round(t, l) : d = Round(t, l)[j]
          BY <1>2, <3>2
        <5>2. PICK j \in DOMAIN Round(t, l) : d = Round(t, l)[j]
          BY <5>1
        <5>3. <<l, j>> \in Writers(t, p)
          BY <3>1, <5>2, WritersAre
        <5>4. <<l, j>>[1] < w[1] \/ <<l, j>> = w
          BY <4>1, <5>3
        <5>5. l < k
          BY <4>3, <4>5, <5>2, <5>4
        <5>6. d.tag = <<t, l, j>> /\ c.tag = <<t, k, i>> /\ l \in Nat /\ k \in Nat
          BY <1>3, <5>2
        <5>7. d.tag[2] = l /\ c.tag[2] = k
          BY <5>6
        <5> HIDE DEF c
        <5> QED BY <5>5, <5>6, <5>7 DEF Before
      <4>6. Final(c)
        BY <4>5
      <4>7. x \in Naming(t, p) /\ Final(x)
        <5> HIDE DEF Final, c
        <5> QED BY <4>4, <4>6
      <4>8. x = c
        <5> HIDE DEF x, c
        <5> QED BY <4>4, <4>5, <4>7
      <4>9. Applied(t)[p] = Mark(x)
        <5>1. Naming(t, p) # {}
          BY <4>4
        <5> QED BY <5>1 DEF Applied
      <4> HIDE DEF x, c
      <4> QED BY <4>4, <4>8, <4>9
    <3> QED BY <3>3, <3>4, <3>5 DEF HeldAt
  <2>4. cells \in [Positions -> Tags \cup {Empty}]
    BY DEF ATypeOK
  <2>5. Applied(t) = [p \in Positions |-> Applied(t)[p]]
    BY DEF Applied
  <2>6. cells = [p \in Positions |-> cells[p]]
    BY <2>4
  <2> QED BY <2>3, <2>5, <2>6
<1> QED BY <1>4, <1>5

(* However turns overlap, tools fail and Redis loses a conversation, what a turn *)
(* reports is true: the comments it names are those stored under its name, and, *)
(* unless a call failed, two calls raced or another turn wrote, applying the     *)
(* actions to what the client showed yields the sheet.                          *)
THEOREM ReportsAreTrue == ASpec => []ReportIsTrue
<1>1. AInit => Placed /\ Commented /\ Held
  BY PlacedInit, CommentedInit, HeldInit
<1>2. AInv => ATypeOK /\ Pace
  BY DEF AInv
<1>3. /\ AInv /\ AInv' /\ Placed /\ Commented /\ Held /\ [ANext]_avars
      => Placed' /\ Commented' /\ Held'
  BY PlacedStep, CommentedStep, HeldStep DEF AInv
<1> QED BY <1>1, <1>2, <1>3, AInvariance, ReportFollows, PTL DEF ASpec
=============================================================================
