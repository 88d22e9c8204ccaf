------------------------------- MODULE AiAgent -------------------------------
(***************************************************************************)
(* The AI agent: turns of one user's conversation about one sheet.         *)
(*                                                                         *)
(* A turn is one call of AiService.runAgent.  It loads the conversation    *)
(* from Redis, runs the graph planner -> tools -> planner -> ... ->        *)
(* synthesizer, saves the conversation with itself appended, and answers   *)
(* with the actions its write tools reported, which the client applies to  *)
(* the cells it shows instead of fetching the sheet again.  Turns may      *)
(* overlap: nothing orders two requests of a user.                         *)
(*                                                                         *)
(* What the model says is not modelled, only which tools it asks for.  The *)
(* versions the write tools compute are the concern of module Cells.       *)
(***************************************************************************)
EXTENDS Integers, SequencesExt

CONSTANTS
    Turns,              \* one element per call of runAgent
    Positions,          \* the cells of the sheet, as <<row, column>>
    Menu,               \* turn -> the lists of tool calls its planner may ask for
    MAX_HISTORY_PAIRS,  \* how many turns the conversation keeps
    RECURSION_LIMIT,    \* how many nodes of the graph a turn may run
    Empty               \* a cell without a row

ToolKinds == {"read", "set_cells", "delete_cells", "add_comment"}

ASSUME PositionsAssumption == Positions \subseteq Nat \X Nat
\* The schema of set_cells wants at least one cell; a range of delete_cells may be empty.
ASSUME MenuAssumption ==
    \A t \in Turns : \A asked \in Menu[t] :
       /\ asked \in Seq([kind: ToolKinds, cells: Seq(Positions)])
       /\ \A i \in DOMAIN asked : asked[i].kind = "set_cells" => asked[i].cells # <<>>
ASSUME LimitAssumption ==
    MAX_HISTORY_PAIRS \in Nat \ {0} /\ RECURSION_LIMIT \in Nat \ {0}

VARIABLES
    context,   \* the conversation stored in Redis
    cells,     \* position -> the call that wrote it, or Empty
    comments,  \* the calls whose comment was stored
    pc,        \* turn -> the await it is suspended at
    history,   \* turn -> the conversation it loaded
    steps,     \* turn -> the nodes of the graph it has run
    batch,     \* turn -> the tool calls running
    trace,     \* turn -> the finished rounds of tool calls, its ToolMessages
    \* History variables; no step of the code reads them.
    past,      \* turn -> the turns answered before it was asked
    saves,     \* the turns saved since the conversation was last empty
    orderly,   \* no turn overlapped another, and Redis never failed one
    view,      \* turn -> the cells when it was asked, as its client shows them
    alone      \* turn -> no other turn has written while it runs

stored == <<context, cells, comments>>
avars == <<context, cells, comments, pc, history, steps, batch, trace,
           past, saves, orderly, view, alone>>

Running(t) == pc[t] \in {"planner", "tools", "synthesizer", "save"}

Blanks == [p \in Positions |-> Empty]

AInit ==
    /\ context = <<>> /\ cells = Blanks /\ comments = {}
    /\ pc = [t \in Turns |-> "idle"]
    /\ history = [t \in Turns |-> <<>>]
    /\ steps = [t \in Turns |-> 0]
    /\ batch = [t \in Turns |-> <<>>]
    /\ trace = [t \in Turns |-> <<>>]
    /\ past = [t \in Turns |-> {}]
    /\ saves = <<>> /\ orderly = TRUE
    /\ view = [t \in Turns |-> Blanks]
    /\ alone = [t \in Turns |-> TRUE]
-----------------------------------------------------------------------------
(* loadContext: a conversation Redis cannot deliver is an empty one.         *)

Load(t) ==
    /\ pc[t] = "idle"
    /\ pc' = [pc EXCEPT ![t] = "planner"]
    /\ \/ /\ history' = [history EXCEPT ![t] = context]
          /\ orderly' = (orderly /\ \A u \in Turns : ~Running(u))
       \/ /\ history' = [history EXCEPT ![t] = <<>>]
          /\ orderly' = FALSE
    /\ past' = [past EXCEPT ![t] = {u \in Turns : pc[u] = "answered"}]
    /\ view' = [view EXCEPT ![t] = cells]
    /\ UNCHANGED <<stored, steps, batch, trace, saves, alone>>

\* The turn is over: its locals are gone.
Forget(t) ==
    /\ history' = [history EXCEPT ![t] = <<>>]
    /\ steps' = [steps EXCEPT ![t] = 0]
    /\ batch' = [batch EXCEPT ![t] = <<>>]
    /\ trace' = [trace EXCEPT ![t] = <<>>]
    /\ view' = [view EXCEPT ![t] = Blanks]
    /\ alone' = [alone EXCEPT ![t] = TRUE]

\* An error nobody catches: the request fails and nothing is saved.
Throw(t) == pc' = [pc EXCEPT ![t] = "failed"] /\ Forget(t)
-----------------------------------------------------------------------------
(* The graph.  LangGraph runs one node per step and gives up when a further  *)
(* node is due after RECURSION_LIMIT steps.                                  *)

\* Mutants of OutOfSteps: the limit is checked one step late; it is not passed, and
\* the library's own applies.
OutOfStepsLate(t)    == steps[t] >= RECURSION_LIMIT
OutOfLibrarySteps(t) == steps[t] + 1 >= 25

OutOfSteps(t) == steps[t] + 1 >= RECURSION_LIMIT

\* The tool calls the planner asks for; each remembers its round and its place there.
Numbered(t, asked) ==
    [i \in 1..Len(asked) |-> [kind |-> asked[i].kind, cells |-> asked[i].cells,
                              tag |-> <<t, Len(trace[t]) + 1, i>>, done |-> 0,
                              state |-> "running"]]

\* plannerNode and routeAfterPlanner.
Plan(t) ==
    /\ pc[t] = "planner"
    /\ IF OutOfSteps(t) THEN Throw(t)
       ELSE /\ steps' = [steps EXCEPT ![t] = @ + 1]
            /\ \E asked \in Menu[t] \cup {<<>>} :
                 /\ batch' = [batch EXCEPT ![t] = Numbered(t, asked)]
                 /\ pc' = [pc EXCEPT ![t] = IF asked = <<>> THEN "synthesizer" ELSE "tools"]
            /\ UNCHANGED <<history, trace, view, alone>>
    /\ UNCHANGED <<stored, past, saves, orderly>>

\* The planner or the synthesizer gets no answer from the model.
ModelFails(t) ==
    /\ pc[t] \in {"planner", "synthesizer"}
    /\ Throw(t)
    /\ UNCHANGED <<stored, past, saves, orderly>>

\* A write of t is seen by the turns that run meanwhile.
Disturb(t) == alone' = [u \in Turns |-> alone[u] /\ (u = t \/ ~Running(u))]

\* One statement of the i-th tool call; the calls of a batch run side by side.
ToolStep(t, i) ==
    LET c == batch[t][i] IN
    /\ c.state = "running"
    /\ CASE c.kind = "set_cells" ->
              /\ cells' = [cells EXCEPT ![c.cells[c.done + 1]] = c.tag]
              /\ Disturb(t) /\ UNCHANGED comments
         [] c.kind = "delete_cells" ->
              /\ cells' = [p \in Positions |-> IF p \in ToSet(c.cells) THEN Empty ELSE cells[p]]
              /\ Disturb(t) /\ UNCHANGED comments
         [] c.kind = "add_comment" ->
              /\ comments' = comments \cup {c.tag}
              /\ UNCHANGED <<cells, alone>>
         [] c.kind = "read" -> UNCHANGED <<cells, comments, alone>>
    /\ batch' = [batch EXCEPT ![t][i].done = @ + 1,
                              ![t][i].state = IF /\ c.kind = "set_cells"
                                                 /\ c.done + 1 < Len(c.cells)
                                                THEN "running" ELSE "ok"]
    /\ UNCHANGED <<context, pc, history, steps, trace, past, saves, orderly, view>>

\* A statement fails: ToolNode turns the error into the call's result.
ToolFail(t, i) ==
    /\ batch[t][i].state = "running"
    /\ batch' = [batch EXCEPT ![t][i].state = "failed"]
    /\ UNCHANGED <<stored, pc, history, steps, trace, past, saves, orderly, view, alone>>

\* All calls are back; their results follow the order they were asked in.
Gather(t) ==
    /\ pc[t] = "tools" /\ \A i \in DOMAIN batch[t] : batch[t][i].state # "running"
    /\ IF OutOfSteps(t) THEN Throw(t)
       ELSE /\ steps' = [steps EXCEPT ![t] = @ + 1]
            /\ trace' = [trace EXCEPT ![t] = Append(@, batch[t])]
            /\ batch' = [batch EXCEPT ![t] = <<>>]
            /\ pc' = [pc EXCEPT ![t] = "planner"]
            /\ UNCHANGED <<history, view, alone>>
    /\ UNCHANGED <<stored, past, saves, orderly>>

\* The edge to END needs no further step.
Synthesize(t) ==
    /\ pc[t] = "synthesizer"
    /\ steps' = [steps EXCEPT ![t] = @ + 1]
    /\ pc' = [pc EXCEPT ![t] = "save"]
    /\ UNCHANGED <<stored, history, batch, trace, past, saves, orderly, view, alone>>
-----------------------------------------------------------------------------
(* What the graph leaves behind, and saveContext.                            *)

\* colToLetter: the letters of a column, A as 0: A, B, ... Z, AA, AB, ...
ColToLetter[n \in Int] ==
    IF n < 0 THEN <<>> ELSE Append(ColToLetter[(n \div 26) - 1], n % 26)

\* Mutant of ToA1: one letter for every column.
ToA1OneLetter(p) == <<<<p[2] % 26>>, p[1] + 1>>

ToA1(p) == <<ColToLetter[p[2]], p[1] + 1>>

\* The results of t; their tags say in which order the messages hold them.
Results(t) == UNION {ToSet(trace[t][k]) : k \in DOMAIN trace[t]}

Before(c, d) == c.tag[2] < d.tag[2] \/ (c.tag[2] = d.tag[2] /\ c.tag[3] < d.tag[3])

\* The results that carry an _action.
Actions(t) == {c \in Results(t) : c.kind # "read" /\ c.state = "ok"}

\* Mutant of Trimmed: the pairs are counted as messages.
TrimmedToMessages(s) ==
    SubSeq(s, IF Len(s) > MAX_HISTORY_PAIRS THEN Len(s) - MAX_HISTORY_PAIRS + 1 ELSE 1, Len(s))

Trimmed(s) ==
    LET n == 2 * MAX_HISTORY_PAIRS IN
    SubSeq(s, IF Len(s) > n THEN Len(s) - n + 1 ELSE 1, Len(s))

Pair(t) == <<[role |-> "human", turn |-> t], [role |-> "ai", turn |-> t]>>

\* Mutant of Updated: the turn is appended to what is stored by now.
UpdatedLate(t) == Trimmed(context \o Pair(t))

Updated(t) == Trimmed(history[t] \o Pair(t))

\* A failure of Redis is swallowed; the answer goes out either way.
Save(t) ==
    /\ pc[t] = "save"
    /\ \/ /\ context' = Updated(t)
          /\ saves' = Append(saves, t)
          /\ UNCHANGED orderly
       \/ /\ orderly' = FALSE
          /\ UNCHANGED <<context, saves>>
    /\ pc' = [pc EXCEPT ![t] = "answered"]
    /\ Forget(t)
    /\ UNCHANGED <<cells, comments, past>>
-----------------------------------------------------------------------------
\* The key lives for two hours after the last save.
Expire ==
    /\ context # <<>>
    /\ context' = <<>> /\ saves' = <<>>
    /\ orderly' = (orderly /\ \A t \in Turns : ~Running(t))
    /\ UNCHANGED <<cells, comments, pc, history, steps, batch, trace, past, view, alone>>

\* The process dies: its turns are gone, what their tools wrote stays.
Crash ==
    /\ \E t \in Turns : Running(t)
    /\ pc' = [t \in Turns |-> IF Running(t) THEN "failed" ELSE pc[t]]
    /\ history' = [t \in Turns |-> <<>>]
    /\ steps' = [t \in Turns |-> 0]
    /\ batch' = [t \in Turns |-> <<>>]
    /\ trace' = [t \in Turns |-> <<>>]
    /\ view' = [t \in Turns |-> Blanks]
    /\ alone' = [t \in Turns |-> TRUE]
    /\ UNCHANGED <<stored, past, saves, orderly>>

AllOver == (\A t \in Turns : pc[t] \in {"answered", "failed"}) /\ UNCHANGED avars

ANext ==
    \/ \E t \in Turns :
         \/ Load(t) \/ Plan(t) \/ ModelFails(t)
         \/ \E i \in DOMAIN batch[t] : ToolStep(t, i) \/ ToolFail(t, i)
         \/ Gather(t) \/ Synthesize(t) \/ Save(t)
    \/ Expire \/ Crash \/ AllOver

ASpec == AInit /\ [][ANext]_avars
-----------------------------------------------------------------------------
(* Properties.                                                               *)

Messages == [role: {"human", "ai"}, turn: Turns]
Tags     == Turns \X (Nat \ {0}) \X (Nat \ {0})
Calls    == [kind: ToolKinds, cells: Seq(Positions), tag: Tags, done: Nat,
             state: {"running", "ok", "failed"}]

ATypeOK ==
    /\ context \in Seq(Messages)
    /\ cells \in [Positions -> Tags \cup {Empty}]
    /\ comments \subseteq Tags
    /\ pc \in [Turns -> {"idle", "planner", "tools", "synthesizer", "save",
                         "answered", "failed"}]
    /\ history \in [Turns -> Seq(Messages)]
    /\ steps \in [Turns -> 0..RECURSION_LIMIT]
    /\ batch \in [Turns -> Seq(Calls)]
    /\ trace \in [Turns -> Seq(Seq(Calls))]
    /\ past \in [Turns -> SUBSET Turns]
    /\ saves \in Seq(Turns)
    /\ orderly \in BOOLEAN
    /\ view \in [Turns -> [Positions -> Tags \cup {Empty}]]
    /\ alone \in [Turns -> BOOLEAN]

\* The turn the i-th pair of the conversation belongs to.
Remembered(i) == context[2 * i].turn

(* However turns overlap, fail or lose Redis, the stored conversation is a   *)
(* list of whole turns, no longer than allowed, and each had been answered   *)
(* before the next one was asked: the model is never shown a conversation    *)
(* that did not happen in that order.                                        *)
ConversationHappened ==
    /\ Len(context) % 2 = 0 /\ Len(context) <= 2 * MAX_HISTORY_PAIRS
    /\ \A i \in 1..Len(context) \div 2 :
         /\ SubSeq(context, 2 * i - 1, 2 * i) = Pair(Remembered(i))
         /\ \A j \in 1..i-1 : Remembered(j) \in past[Remembered(i)]

(* When turns do not overlap and Redis does not fail, the conversation is    *)
(* exactly the last turns answered since it was last empty.                  *)
SequentialMemory ==
    orderly =>
       LET n == IF Len(saves) < MAX_HISTORY_PAIRS THEN Len(saves) ELSE MAX_HISTORY_PAIRS IN
       /\ Len(context) = 2 * n
       /\ \A i \in 1..n : Remembered(i) = saves[Len(saves) - n + i]

(* The graph always ends: with s nodes allowed, a turn that is answered went *)
(* through at most (s - 2) / 2 rounds of tools, and no turn runs more than   *)
(* s / 2 (the last of them in vain).                                         *)
RoundsBounded ==
    \A t \in Turns :
       LET rounds == Len(trace[t]) + IF pc[t] = "tools" THEN 1 ELSE 0 IN
       /\ 2 * rounds <= RECURSION_LIMIT
       /\ pc[t] = "save" => 2 * rounds + 2 <= RECURSION_LIMIT

\* The actions that name p; an action names its cells in A1 notation.
Naming(t, p) == {c \in Actions(t) : /\ c.kind \in {"set_cells", "delete_cells"}
                                   /\ ToA1(p) \in {ToA1(q) : q \in ToSet(c.cells)}}

\* What a write of the call leaves in a cell.
Mark(c) == IF c.kind = "set_cells" THEN c.tag ELSE Empty

\* What the client shows after applying the actions in their order.
Applied(t) ==
    [p \in Positions |->
       IF Naming(t, p) = {} THEN view[t][p]
       ELSE Mark(CHOOSE c \in Naming(t, p) : \A d \in Naming(t, p) : d = c \/ Before(d, c))]

\* No call of the turn failed, and no two calls of a round met at a cell.
Smooth(t) ==
    \A k \in DOMAIN trace[t] : \A i, j \in DOMAIN trace[t][k] :
       LET c == trace[t][k][i]
           d == trace[t][k][j]
       IN  c.state = "ok" /\ (i # j => ToSet(c.cells) \cap ToSet(d.cells) = {})

(* The report is true.  The comments it names are the comments stored; and   *)
(* if no call failed, none raced another, and no other turn wrote meanwhile, *)
(* a client that applies the actions shows the sheet as it is stored.        *)
ReportIsTrue ==
    \A t \in Turns : pc[t] = "save" =>
       /\ {c.tag : c \in {d \in Actions(t) : d.kind = "add_comment"}}
            = {g \in comments : g[1] = t}
       /\ Smooth(t) /\ alone[t] => Applied(t) = cells

(* docs/ai.md: with the actions, "the frontend can reflect AI writes without *)
(* a full grid refetch".  After a turn nobody interfered with, a client that *)
(* applied them shows the sheet as it is stored.                             *)
ClientReflectsWrites ==
    \A t \in Turns : pc[t] = "save" /\ alone[t] => Applied(t) = cells
=============================================================================
