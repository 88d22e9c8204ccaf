--------------------------- MODULE WorkbooksProofs ---------------------------
(***************************************************************************)
(* Theorems about Workbooks, for any users, requests, questions and tabs.  *)
(***************************************************************************)
EXTENDS Workbooks, FiniteSetTheorems, TLAPS

\* The steps of one request.
Step(r) ==
    \/ Arrive(r) \/ FindSheet(r) \/ AssertEditor(r) \/ AssertOwner(r) \/ Fail(r)
    \/ AssertAccess(r) \/ AddComment(r) \/ FindComment(r) \/ DeleteComment(r)
    \/ FindPublic(r) \/ Read(r) \/ Rename(r)
    \/ Count(r) \/ CreateTab(r) \/ UpdateTab(r) \/ ReadAgain(r) \/ RemoveTab(r) \/ Emit(r)
    \/ FindTarget(r) \/ Share(r) \/ Revoke(r)
    \/ ReadToken(r) \/ Publish(r) \/ RemoveWorkbook(r)

\* The steps of the system are steps of one request, or a crash.
LEMMA ActIs == Act <=> (\E r \in Requests : Step(r)) \/ Crash
BY DEF Act, Step

(* The steps that leave the workbook, the room and the history alone, and     *)
(* only take a request on or answer it.                                       *)
Look(r) ==
    \/ FindSheet(r) \/ AssertEditor(r) \/ AssertOwner(r) \/ Fail(r) \/ AssertAccess(r)
    \/ FindComment(r) \/ FindPublic(r) \/ Read(r) \/ Rename(r) \/ ReadAgain(r) \/ FindTarget(r)

Awaits == {"idle", "sheet", "editor", "owner", "count", "again", "target", "token",
           "access", "comment", "link", "read", "write", "emit", "done"}

Outcomes == {"none", "ok", "notFound", "forbidden", "collision", "error"}

(* Where a step takes a request, and what it leaves alone of the others.      *)
LEMMA Moves ==
    ASSUME WTypeOK, NEW r \in Requests
    PROVE  /\ \A l : Goto(r, l) => pc'[r] = l /\ res'[r] = res[r]
           /\ \A o : Answer(r, o) => pc'[r] = "done" /\ res'[r] = o
           /\ \A l \in Awaits : Goto(r, l) => pc' \in [Requests -> Awaits] /\ res' \in [Requests -> Outcomes]
           /\ \A o \in Outcomes : Answer(r, o) => pc' \in [Requests -> Awaits] /\ res' \in [Requests -> Outcomes]
           /\ \A l : Goto(r, l) => \A q \in Requests \ {r} : pc'[q] = pc[q] /\ res'[q] = res[q]
           /\ \A o : Answer(r, o) => \A q \in Requests \ {r} : pc'[q] = pc[q] /\ res'[q] = res[q]
<1>1. pc \in [Requests -> Awaits] /\ res \in [Requests -> Outcomes]
  BY DEF WTypeOK, Awaits, Outcomes
<1>2. "done" \in Awaits
  BY DEF Awaits
<1> QED BY <1>1, <1>2 DEF Goto, Answer

\* A step of one request leaves the others where they are.
LEMMA Others ==
    ASSUME WTypeOK, NEW r \in Requests, Step(r), NEW q \in Requests \ {r}
    PROVE  /\ pc'[q] = pc[q] /\ op'[q] = op[q] /\ res'[q] = res[q]
           /\ counted'[q] = counted[q] /\ saw'[q] = saw[q] /\ told'[q] = told[q]
<1> USE Moves DEF WTypeOK, call
<1>1. CASE Look(r)
  BY <1>1 DEF Look, FindSheet, AssertEditor, AssertOwner, Fail, AssertAccess, FindComment,
              FindPublic, Read, Rename, ReadAgain, FindTarget
<1>2. CASE Arrive(r)
  BY <1>2 DEF Arrive
<1>3. CASE Count(r) \/ CreateTab(r) \/ UpdateTab(r) \/ RemoveTab(r) \/ Emit(r)
  BY <1>3 DEF Count, CreateTab, UpdateTab, RemoveTab, Emit
<1>4. CASE AddComment(r) \/ DeleteComment(r) \/ Share(r) \/ Revoke(r)
  BY <1>4 DEF AddComment, DeleteComment, Share, Revoke
<1>5. CASE ReadToken(r) \/ Publish(r) \/ RemoveWorkbook(r)
  BY <1>5 DEF ReadToken, Publish, RemoveWorkbook
<1> QED BY <1>1, <1>2, <1>3, <1>4, <1>5 DEF Step, Look

(* The tabs are finitely many, so that counting them gives a number.          *)
Typed == WTypeOK /\ IsFiniteSet(tabs)

(* The old tabs are numbered from 0 on.                                       *)
LEMMA OldNumbers ==
    ASSUME NEW n \in 1..Len(OldTabs),
           tabs = {[id |-> OldTabs[i], index |-> i - 1] : i \in 1..n}
    PROVE  /\ IsFiniteSet(tabs) /\ Cardinality(tabs) = n
           /\ {t.index : t \in tabs} = 0..Cardinality(tabs) - 1
<1> DEFINE f == [i \in 1..n |-> [id |-> OldTabs[i], index |-> i - 1]]
<1>1. f \in Bijection(1..n, tabs)
  <2>1. f \in [1..n -> tabs]
    OBVIOUS
  <2>2. \A i \in 1..n : f[i].index = i - 1
    OBVIOUS
  <2>3. \A i, j \in 1..n : f[i] = f[j] => i = j
    BY <2>2
  <2>4. \A t \in tabs : \E i \in 1..n : f[i] = t
    OBVIOUS
  <2> QED BY <2>1, <2>3, <2>4 DEF Bijection, Injection, Surjection, IsInjective
<1>2. IsFiniteSet(1..n) /\ Cardinality(1..n) = n
  BY FS_Interval
<1>3. IsFiniteSet(tabs) /\ Cardinality(tabs) = n
  BY <1>1, <1>2, FS_Bijection DEF ExistsBijection
<1>4. ASSUME NEW k \in 0..n - 1 PROVE k \in {t.index : t \in tabs}
  <2>1. k + 1 \in 1..n /\ (k + 1) - 1 = k
    OBVIOUS
  <2>2. [id |-> OldTabs[k + 1], index |-> (k + 1) - 1] \in tabs
    BY <2>1
  <2> QED BY <2>1, <2>2
<1>5. \A t \in tabs : t.index \in 0..n - 1
  OBVIOUS
<1> QED BY <1>3, <1>4, <1>5

\* The initial states are well typed, with finitely many tabs.
LEMMA TypeInit == WInit => Typed
<1> SUFFICES ASSUME WInit PROVE Typed
  OBVIOUS
<1>1. PICK n \in 1..Len(OldTabs) : tabs = {[id |-> OldTabs[i], index |-> i - 1] : i \in 1..n}
  BY DEF WInit
<1>2. tabs \subseteq [id: TabIds, index: Nat]
  BY <1>1, OldTabsAssumption DEF TabIds
<1>3. OldTabs[1] \in Ids
  <2>1. 1 \in 1..n
    OBVIOUS
  <2>2. [id |-> OldTabs[1], index |-> 1 - 1] \in tabs
    BY <1>1, <2>1
  <2> QED BY <2>2 DEF Ids
<1>4. comments \subseteq [id: Notes, tab: Ids, by: Users]
  BY <1>3 DEF WInit, Notes
<1>5. FirstAsk \in Asks
  BY AsksAssumption DEF FirstAsk
<1>6. shown \subseteq TabIds
  BY <1>2 DEF WInit
<1>7. IsFiniteSet(tabs)
  BY <1>1, OldNumbers
<1> QED BY <1>2, <1>4, <1>5, <1>6, <1>7, OwnerAssumption DEF WInit, WTypeOK, Roles, Typed

(* The workbook, the room and the history of a tab after the steps that only  *)
(* look.                                                                      *)
LEMMA LooksOnly ==
    ASSUME WTypeOK, NEW r \in Requests, Look(r)
    PROVE  /\ UNCHANGED <<wb, call, shown, ghost>>
           /\ pc' \in [Requests -> Awaits] /\ res' \in [Requests -> Outcomes]
<1> USE Moves DEF Awaits, Outcomes
<1>1. CASE FindSheet(r) \/ AssertEditor(r) \/ AssertOwner(r) \/ Fail(r)
  BY <1>1 DEF FindSheet, AssertEditor, AssertOwner, Fail, AfterEditor, AfterOwner
<1>2. CASE AssertAccess(r) \/ FindComment(r) \/ FindPublic(r) \/ Read(r)
  BY <1>2 DEF AssertAccess, FindComment, FindPublic, Read
<1>3. CASE Rename(r) \/ ReadAgain(r) \/ FindTarget(r)
  BY <1>3 DEF Rename, ReadAgain, FindTarget
<1> QED BY <1>1, <1>2, <1>3 DEF Look

(* An update moves a tab, it neither adds nor removes one.                    *)
LEMMA UpdateKeepsIds ==
    ASSUME WTypeOK, NEW r \in Requests, UpdateTab(r)
    PROVE  Ids' = Ids
<1> DEFINE id == op[r].tab
           moved == [id |-> id, index |-> op[r].index]
<1>1. CASE UNCHANGED tabs
  BY <1>1 DEF Ids
<1>2. CASE id \in Ids /\ tabs' = {t \in tabs : t.id # id} \cup {moved}
  <2>1. \A t \in tabs : t.id = id \/ t \in tabs'
    BY <1>2
  <2>2. moved \in tabs' /\ moved.id = id
    BY <1>2
  <2>3. \A t \in tabs' : t \in tabs \/ t.id = id
    BY <1>2
  <2> QED BY <1>2, <2>1, <2>2, <2>3 DEF Ids
<1> QED BY <1>1, <1>2 DEF UpdateTab

\* A created tab is named after its request; a refused one changes nothing.
LEMMA CreateAddsId ==
    ASSUME WTypeOK, NEW r \in Requests, CreateTab(r)
    PROVE  \/ Ids' = Ids \cup {r} /\ alive /\ Goto(r, "emit")
           \/ Ids' = Ids /\ tabs' = tabs /\ Answer(r, IF alive THEN "collision" ELSE "error")
<1> DEFINE new == [id |-> r, index |-> counted[r]]
<1>1. CASE UNCHANGED tabs /\ Answer(r, IF alive THEN "collision" ELSE "error")
  BY <1>1 DEF Ids
<1>2. CASE tabs' = tabs \cup {new} /\ alive /\ Goto(r, "emit")
  <2>1. new \in tabs' /\ new.id = r
    BY <1>2
  <2> QED BY <1>2, <2>1 DEF Ids
<1> QED BY <1>1, <1>2 DEF CreateTab

\* A removed tab is the one that was asked for.
LEMMA RemoveTakesId ==
    ASSUME WTypeOK, NEW r \in Requests, RemoveTab(r)
    PROVE  \/ Ids' = Ids \ {op[r].tab} /\ op[r].tab \in Ids /\ Goto(r, "emit")
           \/ Ids' = Ids /\ op[r].tab \notin Ids /\ Answer(r, "error")
BY DEF RemoveTab, Ids

(* What a request asks for.                                                   *)
LEMMA AskIs ==
    ASSUME WTypeOK, NEW r \in Requests
    PROVE  /\ op[r].kind \in Kinds /\ op[r].user \in Users /\ op[r].tab \in TabIds
           /\ op[r].note \in Notes /\ op[r].index \in Nat /\ op[r].target \in Users
           /\ op[r].role \in Roles /\ op[r].on \in BOOLEAN
BY AsksAssumption DEF WTypeOK, Ask

\* The types are kept by every step.
LEMMA TypeStep == Typed /\ [WNext]_wvars => WTypeOK'
<1> SUFFICES ASSUME WTypeOK, IsFiniteSet(tabs), [WNext]_wvars PROVE WTypeOK'
  BY DEF Typed
<1>1. CASE UNCHANGED wvars
  BY <1>1 DEF wvars, WTypeOK, Ids
<1>2. CASE Act /\ Remember
  <2>1. held' \in [Requests -> BOOLEAN] /\ lacked' \in [Requests -> BOOLEAN]
    BY <1>2 DEF Remember, WTypeOK
  <2>2. CASE Crash
    BY <2>1, <2>2 DEF Crash, WTypeOK, wb, call, ghost, Ids
  <2>3. ASSUME NEW r \in Requests, Step(r) PROVE WTypeOK'
    <3> USE <2>1, Moves DEF WTypeOK, Awaits, Outcomes, wb, call, ghost
    <3>1. CASE Look(r)
      BY <3>1, LooksOnly DEF Ids
    <3>2. CASE Arrive(r)
      BY <3>2 DEF Arrive, FirstAwait, Ids
    <3>3. CASE Count(r)
      <4>1. CountTabs \in Nat
        BY FS_CardinalityType DEF CountTabs
      <4> QED BY <3>3, <4>1 DEF Count, Ids
    <3>4. CASE CreateTab(r)
      <4>1. tabs' \subseteq [id: TabIds, index: Nat]
        BY <3>4 DEF CreateTab, TabIds
      <4>2. Ids \subseteq Ids'
        BY <3>4, CreateAddsId
      <4> QED BY <3>4, <4>1, <4>2 DEF CreateTab
    <3>5. CASE UpdateTab(r)
      <4>1. tabs' \subseteq [id: TabIds, index: Nat]
        BY <3>5, AskIs DEF UpdateTab
      <4>2. rearranged' \in BOOLEAN
        BY <3>5 DEF UpdateTab
      <4> QED BY <3>5, <4>1, <4>2, UpdateKeepsIds DEF UpdateTab
    <3>6. CASE RemoveTab(r)
      <4>1. \A c \in comments' : c \in comments /\ (c.tab = op[r].tab => Ids' = Ids)
        BY <3>6, RemoveTakesId DEF RemoveTab
      <4>2. comments' \subseteq [id: Notes, tab: Ids', by: Users]
        BY <3>6, <4>1, RemoveTakesId
      <4>3. rearranged' \in BOOLEAN /\ hasty' \subseteq TabIds
        <5>1. op[r].tab \in TabIds
          BY AskIs
        <5>2. rearranged' = TRUE \/ rearranged' = rearranged
          BY <3>6 DEF RemoveTab
        <5>3. hasty' \subseteq hasty \cup {op[r].tab}
          BY <3>6 DEF RemoveTab
        <5> QED BY <5>1, <5>2, <5>3
      <4>4. tabs' \subseteq tabs
        BY <3>6 DEF RemoveTab
      <4> QED BY <3>6, <4>2, <4>3, <4>4 DEF RemoveTab
    <3>7. CASE Emit(r)
      BY <3>7 DEF Emit, Ids, TabIds
    <3>8. CASE Share(r) \/ Revoke(r)
      <4>1. role' \in [Users -> Roles]
        BY <3>8, AskIs DEF Share, Revoke, Roles
      <4> QED BY <3>8, <4>1 DEF Share, Revoke, Ids
    <3>9. CASE AddComment(r)
      BY <3>9, AskIs DEF AddComment, Ids, Notes
    <3>10. CASE DeleteComment(r)
      BY <3>10 DEF DeleteComment, Ids
    <3>11. CASE ReadToken(r) \/ Publish(r)
      <4>1. CASE ReadToken(r)
        BY <4>1 DEF ReadToken, Ids
      <4>2. CASE Publish(r)
        <5>1. NewToken(r) \in Requests \cup {NoToken, Owner}
          BY DEF NewToken, WTypeOK
        <5>2. rivals' \in [Requests -> SUBSET Requests] /\ told' \in [Requests -> Requests \cup {NoToken, Owner}]
          BY <4>2, <5>1 DEF Publish, WTypeOK
        <5> QED BY <4>2, <5>1, <5>2, AskIs DEF Publish, Ids
      <4> QED BY <3>11, <4>1, <4>2
    <3>12. CASE RemoveWorkbook(r)
      BY <3>12, ZenonT(40) DEF RemoveWorkbook, Ids, Roles
    <3> QED BY <2>3, <3>1, <3>2, <3>3, <3>4, <3>5, <3>6, <3>7, <3>8, <3>9, <3>10, <3>11, <3>12
            DEF Step, Look
  <2> QED BY <1>2, <2>2, <2>3, ActIs
<1> QED BY <1>1, <1>2 DEF WNext, AllDone

\* There are finitely many tabs after every step.
LEMMA FiniteStep == Typed /\ [WNext]_wvars => IsFiniteSet(tabs)'
<1> SUFFICES ASSUME WTypeOK, IsFiniteSet(tabs), [WNext]_wvars PROVE IsFiniteSet(tabs')
  BY DEF Typed
<1>1. CASE UNCHANGED tabs
  BY <1>1
<1>2. ASSUME NEW r \in Requests, Step(r) PROVE IsFiniteSet(tabs')
  <2>1. CASE CreateTab(r)
    BY <2>1, FS_AddElement DEF CreateTab
  <2>2. CASE UpdateTab(r)
    <3> DEFINE others == {t \in tabs : t.id # op[r].tab}
               moved == [id |-> op[r].tab, index |-> op[r].index]
    <3>1. IsFiniteSet(others)
      BY FS_Subset
    <3>2. IsFiniteSet(others \cup {moved})
      <4> HIDE DEF others, moved
      <4> QED BY <3>1, FS_AddElement
    <3> QED BY <2>2, <3>2 DEF UpdateTab
  <2>3. CASE RemoveTab(r)
    <3>1. IsFiniteSet({t \in tabs : t.id # op[r].tab})
      BY FS_Subset
    <3> QED BY <2>3, <3>1 DEF RemoveTab
  <2>4. CASE RemoveWorkbook(r)
    BY <2>4, FS_EmptySet DEF RemoveWorkbook
  <2>5. CASE ~(CreateTab(r) \/ UpdateTab(r) \/ RemoveTab(r) \/ RemoveWorkbook(r))
    <3>1. UNCHANGED tabs
      BY <1>2, <2>5, LooksOnly
         DEF Step, Look, Arrive, AddComment, DeleteComment, Count, Emit, Share, Revoke,
             ReadToken, Publish, wb
    <3> QED BY <1>1, <3>1
  <2> QED BY <2>1, <2>2, <2>3, <2>4, <2>5
<1> QED BY <1>1, <1>2, ActIs DEF WNext, AllDone, Crash, wb, wvars

\* Types and finiteness together.
LEMMA TypedStep == Typed /\ [WNext]_wvars => Typed'
BY TypeStep, FiniteStep DEF Typed

(* What a request asks for decides which awaits it comes to, and nothing is    *)
(* answered before it is done.                                                *)
FlowOf(r) ==
    LET kind == op[r].kind IN
    /\ pc[r] = "sheet" => kind \in {"updateTab", "removeTab", "comment", "open", "uncomment"}
    /\ pc[r] = "editor" => kind \in {"createTab", "updateTab", "removeTab", "uncomment"}
    /\ pc[r] = "count" => kind = "createTab"
    /\ pc[r] = "again" => kind = "removeTab"
    /\ pc[r] = "owner" => kind \in {"share", "revoke", "publish", "rename", "removeWorkbook"}
    /\ pc[r] = "target" => kind = "share"
    /\ pc[r] = "token" => kind = "publish"
    /\ pc[r] = "access" => kind \in {"comment", "open"}
    /\ pc[r] = "comment" => kind = "uncomment"
    /\ pc[r] = "link" => kind = "visit"
    /\ pc[r] = "read" => kind \in {"open", "visit"}
    /\ pc[r] = "emit" => kind \in {"createTab", "removeTab"}
    /\ pc[r] = "write" => kind \notin {"open", "visit"}
    /\ pc[r] # "done" => res[r] = "none"

Flow == \A r \in Requests : FlowOf(r)

\* No request is under way at first.
LEMMA FlowInit == WInit => Flow
BY DEF WInit, Flow, FlowOf

(* The request a step is of stays itself, unless it arrives with the step.    *)
LEMMA SameAsk ==
    ASSUME WTypeOK, NEW r \in Requests, Step(r)
    PROVE  /\ ~Arrive(r) => op' = op
           /\ pc[r] \in {"idle", "emit"} \/ InFlight(r)
           /\ pc[r] # "done"
<1>1. CASE Look(r)
  BY <1>1, LooksOnly
     DEF Look, FindSheet, AssertEditor, AssertOwner, Fail, AssertAccess, FindComment, FindPublic,
         Read, Rename, ReadAgain, FindTarget, InFlight, call
<1>2. CASE Arrive(r) \/ Count(r) \/ CreateTab(r) \/ UpdateTab(r) \/ RemoveTab(r) \/ Emit(r)
  BY <1>2 DEF Arrive, Count, CreateTab, UpdateTab, RemoveTab, Emit, call, InFlight
<1>3. CASE AddComment(r) \/ DeleteComment(r) \/ Share(r) \/ Revoke(r)
  BY <1>3 DEF AddComment, DeleteComment, Share, Revoke, call, InFlight
<1>4. CASE ReadToken(r) \/ Publish(r) \/ RemoveWorkbook(r)
  BY <1>4 DEF ReadToken, Publish, RemoveWorkbook, call, InFlight
<1> QED BY <1>1, <1>2, <1>3, <1>4 DEF Step, Look

(* Where the kinds of requests begin.                                         *)
LEMMA ArrivesAs ==
    ASSUME WTypeOK, NEW r \in Requests, Arrive(r)
    PROVE  /\ pc[r] = "idle" /\ pc'[r] = FirstAwait(op'[r].kind) /\ op'[r].kind \in Kinds
           /\ res' = res
BY Moves, AsksAssumption DEF Arrive, Ask, WTypeOK, Goto

\* Requests keep to the awaits of their handlers.
LEMMA FlowStep == Typed /\ Flow /\ [WNext]_wvars => Flow'
<1> SUFFICES ASSUME WTypeOK, Flow, [WNext]_wvars PROVE Flow'
  BY DEF Typed
<1>1. CASE UNCHANGED wvars
  BY <1>1 DEF wvars, Flow, FlowOf
<1>2. CASE Crash
  BY <1>2 DEF Crash, Flow, FlowOf, call, WTypeOK
<1>3. ASSUME NEW r \in Requests, Step(r) PROVE Flow'
  <2>1. \A q \in Requests \ {r} : FlowOf(q)'
    BY <1>3, Others DEF Flow, FlowOf
  <2>2. FlowOf(r)'
    <3> USE Moves DEF Flow, FlowOf, call
    <3>1. CASE Arrive(r)
      BY <3>1, ArrivesAs DEF FirstAwait, Kinds
    <3>2. CASE FindSheet(r) \/ AssertEditor(r) \/ AssertOwner(r) \/ Fail(r)
      BY <3>2 DEF FindSheet, AssertEditor, AssertOwner, Fail, AfterEditor, AfterOwner
    <3>3. CASE AssertAccess(r) \/ FindComment(r) \/ FindPublic(r) \/ Read(r)
      BY <3>3 DEF AssertAccess, FindComment, FindPublic, Read
    <3>4. CASE Rename(r) \/ ReadAgain(r) \/ FindTarget(r)
      BY <3>4 DEF Rename, ReadAgain, FindTarget
    <3>5. CASE Count(r) \/ CreateTab(r) \/ UpdateTab(r) \/ RemoveTab(r) \/ Emit(r)
      BY <3>5 DEF Count, CreateTab, UpdateTab, RemoveTab, Emit
    <3>6. CASE AddComment(r) \/ DeleteComment(r) \/ Share(r) \/ Revoke(r)
      BY <3>6 DEF AddComment, DeleteComment, Share, Revoke
    <3>7. CASE ReadToken(r) \/ Publish(r) \/ RemoveWorkbook(r)
      BY <3>7 DEF ReadToken, Publish, RemoveWorkbook
    <3> QED BY <1>3, <3>1, <3>2, <3>3, <3>4, <3>5, <3>6, <3>7 DEF Step
  <2> QED BY <2>1, <2>2 DEF Flow
<1> QED BY <1>1, <1>2, <1>3, ActIs DEF WNext, AllDone
-----------------------------------------------------------------------------
(* Rights.                                                                    *)

(* A comment is written by one request, which is then done.                   *)
NotesOnce ==
    /\ \A c \in comments : c.id = OldNote \/ (c.id \in Requests /\ pc[c.id] = "done")
    /\ \A c, d \in comments : c.id = d.id => c = d

(* Who is checked for the right to delete a comment has not written it.       *)
NotMine(r) ==
    op[r].kind = "uncomment" /\ pc[r] \in {"sheet", "editor"} =>
       /\ op[r].note = OldNote \/ (op[r].note \in Requests /\ pc[op[r].note] = "done")
       /\ \A c \in comments : c.id = op[r].note => c.by # op[r].user

(* Past its check, a request was entitled at some time.                       *)
Earned(r) ==
    /\ pc[r] \in {"count", "again", "target", "token", "read", "write", "emit"} => held[r]
    /\ Respected(r)

Rights == NotesOnce /\ \A r \in Requests : NotMine(r) /\ Earned(r)

\* At first there are no comments, and nobody has done anything.
LEMMA RightsInit == WInit => Rights
BY DEF WInit, Rights, NotesOnce, NotMine, Earned, Respected

(* Comments are only ever added by the request they are named after.          *)
LEMMA CommentsAre ==
    ASSUME WTypeOK, NEW r \in Requests, Step(r)
    PROVE  \/ comments' \subseteq comments
           \/ /\ AddComment(r) /\ pc[r] = "write" /\ pc'[r] = "done"
              /\ comments' = comments \cup {[id |-> r, tab |-> op[r].tab, by |-> op[r].user]}
<1>1. CASE Look(r)
  BY <1>1, LooksOnly DEF wb
<1>2. CASE Arrive(r) \/ Count(r) \/ CreateTab(r) \/ UpdateTab(r) \/ RemoveTab(r) \/ Emit(r)
  BY <1>2 DEF Arrive, Count, CreateTab, UpdateTab, RemoveTab, Emit, wb
<1>3. CASE AddComment(r) \/ DeleteComment(r) \/ Share(r) \/ Revoke(r)
  BY <1>3, Moves DEF AddComment, DeleteComment, Share, Revoke, call
<1>4. CASE ReadToken(r) \/ Publish(r) \/ RemoveWorkbook(r)
  BY <1>4 DEF ReadToken, Publish, RemoveWorkbook, wb
<1> QED BY <1>1, <1>2, <1>3, <1>4 DEF Step, Look

\* A comment is there only after the request that adds it was done.
LEMMA NotesStep ==
    ASSUME WTypeOK, NotesOnce, NEW r \in Requests, Step(r)
    PROVE  NotesOnce'
<1>1. \A q \in Requests : pc[q] = "done" => pc'[q] = "done"
  BY Others, SameAsk
<1>2. CASE comments' \subseteq comments
  BY <1>1, <1>2 DEF NotesOnce
<1>3. CASE /\ AddComment(r) /\ pc[r] = "write" /\ pc'[r] = "done"
           /\ comments' = comments \cup {[id |-> r, tab |-> op[r].tab, by |-> op[r].user]}
  BY <1>1, <1>3, NoteAssumption DEF NotesOnce
<1> QED BY <1>2, <1>3, CommentsAre

(* A check of rights lets through who is entitled, and nobody else.           *)
LEMMA Checked ==
    ASSUME WTypeOK, Flow, NEW r \in Requests, NotMine(r)
    PROVE  /\ AssertEditor(r) => (pc'[r] # "done" => Entitled(r)) /\ (res'[r] = "forbidden" => ~Entitled(r))
           /\ AssertOwner(r) => (pc'[r] # "done" => Entitled(r)) /\ (res'[r] = "forbidden" => ~Entitled(r))
           /\ AssertAccess(r) => (pc'[r] # "done" => Entitled(r)) /\ (res'[r] = "forbidden" => ~Entitled(r))
           /\ FindPublic(r) => (pc'[r] # "done" => Entitled(r)) /\ (res'[r] = "forbidden" => ~Entitled(r))
<1> USE Moves DEF Flow, FlowOf
<1>1. ASSUME AssertEditor(r)
      PROVE  (pc'[r] # "done" => Entitled(r)) /\ (res'[r] = "forbidden" => ~Entitled(r))
  BY <1>1 DEF AssertEditor, Entitled, MayEdit, NotMine, AfterEditor
<1>2. ASSUME AssertOwner(r)
      PROVE  (pc'[r] # "done" => Entitled(r)) /\ (res'[r] = "forbidden" => ~Entitled(r))
  BY <1>2 DEF AssertOwner, Entitled, AfterOwner
<1>3. ASSUME AssertAccess(r)
      PROVE  (pc'[r] # "done" => Entitled(r)) /\ (res'[r] = "forbidden" => ~Entitled(r))
  BY <1>3 DEF AssertAccess, Entitled
<1>4. ASSUME FindPublic(r)
      PROVE  (pc'[r] # "done" => Entitled(r)) /\ (res'[r] = "forbidden" => ~Entitled(r))
  BY <1>4 DEF FindPublic, Entitled
<1> QED BY <1>1, <1>2, <1>3, <1>4

\* Whoever did something held the right for it at some time during the request.
LEMMA RightsStep == Typed /\ Flow /\ Rights /\ [WNext]_wvars => Rights'
<1> SUFFICES ASSUME WTypeOK, Flow, Rights, [WNext]_wvars PROVE Rights'
  BY DEF Typed
<1>1. CASE UNCHANGED wvars
  BY <1>1 DEF wvars, Rights, NotesOnce, NotMine, Earned, Respected
<1>2. ASSUME Remember
      PROVE  \A q \in Requests : /\ held'[q] <=> held[q] \/ (InFlight(q) /\ Entitled(q))
                                 /\ lacked'[q] <=> lacked[q] \/ (InFlight(q) /\ ~Entitled(q))
  BY <1>2 DEF Remember
<1>3. CASE Crash /\ Remember
  BY <1>2, <1>3 DEF Crash, Rights, NotesOnce, NotMine, Earned, Respected, wb, call, WTypeOK
<1>4. ASSUME Remember, NEW r \in Requests, Step(r) PROVE Rights'
  <2>1. NotesOnce'
    BY <1>4, NotesStep DEF Rights
  <2>2. \A q \in Requests : pc[q] = "done" => pc'[q] = "done"
    BY <1>4, Others, SameAsk
  <2>3. ASSUME NEW q \in Requests \ {r} PROVE NotMine(q)'
    <3>1. op'[q] = op[q] /\ pc'[q] = pc[q]
      BY <1>4, Others
    <3>2. op[q].note = r => pc[r] # "done"
      BY <1>4, SameAsk
    <3> QED BY <1>4, <2>2, <3>1, <3>2, CommentsAre, NoteAssumption DEF Rights, NotMine
  <2>4. NotMine(r)'
    <3>1. CASE FindComment(r)
      <4> DEFINE found == {c \in comments : c.id = op[r].note /\ c.tab = op[r].tab}
      <4>1. comments' = comments /\ op' = op
        BY <3>1 DEF FindComment, wb, call
      <4>2. CASE pc'[r] \notin {"sheet", "editor"}
        BY <4>2 DEF NotMine
      <4>3. CASE found # {} /\ ~\E c \in found : c.by = op[r].user
        <5>1. PICK c \in comments : c.id = op[r].note /\ c.by # op[r].user
          BY <4>3
        <5>2. \A d \in comments : d.id = op[r].note => d = c
          BY <5>1 DEF Rights, NotesOnce
        <5>3. c.id = OldNote \/ (c.id \in Requests /\ pc[c.id] = "done")
          BY <5>1 DEF Rights, NotesOnce
        <5> QED BY <4>1, <5>1, <5>2, <5>3, <2>2 DEF NotMine
      <4> QED BY <3>1, <4>2, <4>3, Moves DEF FindComment
    <3>2. CASE FindSheet(r)
      BY <3>2, <2>2, Moves DEF FindSheet, Rights, NotMine, wb, call
    <3>3. CASE Arrive(r)
      BY <3>3, ArrivesAs DEF NotMine, FirstAwait, Kinds
    <3>4. CASE ~(FindComment(r) \/ FindSheet(r) \/ Arrive(r))
      <4>1. pc'[r] \notin {"sheet", "editor"}
        BY <1>4, <3>4, Moves
           DEF Step, AssertEditor, AfterEditor, AssertOwner, AfterOwner, Fail, AssertAccess,
               AddComment, DeleteComment, FindPublic, Read, Rename, Count, CreateTab,
               UpdateTab, ReadAgain, RemoveTab, Emit, FindTarget, Share, Revoke, ReadToken,
               Publish, RemoveWorkbook
      <4> QED BY <4>1 DEF NotMine
    <3> QED BY <3>1, <3>2, <3>3, <3>4
  <2>5. \A q \in Requests \ {r} : Earned(q)'
    BY <1>4, <1>2, Others DEF Rights, Earned, Respected
  <2>6. Earned(r)'
    <3>0. NotMine(r) /\ Earned(r) /\ (pc[r] # "idle" => InFlight(r))
      BY <1>4, SameAsk DEF Rights, InFlight
    <3> USE <1>2, <1>4, <3>0, Moves DEF Earned, Respected
    <3>1. CASE Arrive(r)
      BY <3>1, ArrivesAs DEF FirstAwait, Kinds
    <3>2. CASE FindSheet(r) \/ Fail(r) \/ Read(r) \/ Rename(r) \/ ReadAgain(r) \/ FindTarget(r)
      BY <3>2 DEF FindSheet, Fail, Read, Rename, ReadAgain, FindTarget, Flow, FlowOf
    <3>3. CASE AssertEditor(r)
      BY <3>3, Checked DEF AssertEditor, InFlight, Flow, FlowOf
    <3>4. CASE AssertOwner(r)
      BY <3>4, Checked DEF AssertOwner, InFlight, Flow, FlowOf
    <3>5. CASE AssertAccess(r)
      BY <3>5, Checked DEF AssertAccess, InFlight, Flow, FlowOf
    <3>6. CASE FindPublic(r)
      BY <3>6, Checked DEF FindPublic, InFlight, Flow, FlowOf
    <3>7. CASE FindComment(r)
      BY <3>7 DEF FindComment, Entitled, InFlight, Flow, FlowOf
    <3>8. CASE Count(r) \/ CreateTab(r) \/ UpdateTab(r) \/ RemoveTab(r) \/ Emit(r)
      BY <3>8 DEF Count, CreateTab, UpdateTab, RemoveTab, Emit, Flow, FlowOf
    <3>9. CASE AddComment(r) \/ DeleteComment(r) \/ Share(r) \/ Revoke(r)
      BY <3>9 DEF AddComment, DeleteComment, Share, Revoke
    <3>10. CASE ReadToken(r) \/ Publish(r) \/ RemoveWorkbook(r)
      BY <3>10 DEF ReadToken, Publish, RemoveWorkbook, Flow, FlowOf
    <3> QED BY <1>4, <3>1, <3>2, <3>3, <3>4, <3>5, <3>6, <3>7, <3>8, <3>9, <3>10 DEF Step
  <2> QED BY <2>1, <2>3, <2>4, <2>5, <2>6 DEF Rights
<1> QED BY <1>1, <1>3, <1>4, ActIs DEF WNext, AllDone
-----------------------------------------------------------------------------
(* The numbering of tabs.                                                     *)

(* A tab named after a request was created by it.                             *)
Born == \A r \in Requests :
           r \in Ids \cup shown \cup hasty => op[r].kind = "createTab" /\ pc[r] \in {"emit", "done"}

(* What a request to create a tab counted may be too few by now, if another    *)
(* one was quicker, and is never too many.                                    *)
Counted(r) ==
    op[r].kind = "createTab" /\ pc[r] = "write" /\ alive /\ ~rearranged =>
       /\ counted[r] <= Cardinality(tabs)
       /\ beaten[r] \/ counted[r] = Cardinality(tabs)

Numbering == TabsNumbered /\ \A r \in Requests : Counted(r) /\ Explained(r)

\* No tab of a request is there before the request.
LEMMA BornInit == WInit => Born
<1> SUFFICES ASSUME WInit, NEW r \in Requests
             PROVE  r \notin Ids /\ r \notin shown /\ r \notin hasty
  BY DEF Born
<1>1. PICK n \in 1..Len(OldTabs) : tabs = {[id |-> OldTabs[i], index |-> i - 1] : i \in 1..n}
  BY DEF WInit
<1>2. \A t \in tabs : t.id # r
  BY <1>1, OldTabsAssumption
<1> QED BY <1>2 DEF WInit, Ids

\* The tabs a workbook begins with are numbered from 0.
LEMMA NumberingInit == WInit => Numbering
<1> SUFFICES ASSUME WInit PROVE Numbering
  OBVIOUS
<1>1. PICK n \in 1..Len(OldTabs) : tabs = {[id |-> OldTabs[i], index |-> i - 1] : i \in 1..n}
  BY DEF WInit
<1> QED BY <1>1, OldNumbers DEF WInit, Numbering, TabsNumbered, Counted, Explained

(* Only these steps change the tabs, or what the room shows.                  *)
Touch(r) == CreateTab(r) \/ UpdateTab(r) \/ RemoveTab(r) \/ Emit(r) \/ RemoveWorkbook(r)

\* The other steps leave the tabs and the room alone.
LEMMA Untouched ==
    ASSUME WTypeOK, Flow, NEW r \in Requests, Step(r), ~Touch(r)
    PROVE  /\ UNCHANGED <<alive, tabs, shown, rearranged, hasty>>
           /\ Ids' = Ids
           /\ ~Count(r) => UNCHANGED <<counted, beaten>>
           /\ pc[r] # "emit" /\ pc'[r] # "emit"
           /\ op'[r].kind = "createTab" /\ pc'[r] = "write" => Count(r)
<1> USE Moves DEF wb, call, ghost, Ids, Flow, FlowOf
<1>1. CASE FindSheet(r) \/ AssertEditor(r) \/ AssertOwner(r) \/ Fail(r)
  BY <1>1 DEF FindSheet, AssertEditor, AssertOwner, Fail, AfterEditor, AfterOwner
<1>2. CASE AssertAccess(r) \/ FindComment(r) \/ FindPublic(r) \/ Read(r)
  BY <1>2 DEF AssertAccess, FindComment, FindPublic, Read
<1>3. CASE Rename(r) \/ ReadAgain(r) \/ FindTarget(r) \/ Count(r)
  BY <1>3 DEF Rename, ReadAgain, FindTarget, Count
<1>4. CASE Arrive(r)
  BY <1>4, ArrivesAs DEF Arrive, FirstAwait
<1>5. CASE AddComment(r) \/ DeleteComment(r) \/ Share(r) \/ Revoke(r)
  BY <1>5 DEF AddComment, DeleteComment, Share, Revoke
<1>6. CASE ReadToken(r) \/ Publish(r)
  BY <1>6 DEF ReadToken, Publish
<1> QED BY <1>1, <1>2, <1>3, <1>4, <1>5, <1>6 DEF Step, Touch

\* A tab of a request is there, or shown, only once the request has created it.
LEMMA BornStep == Typed /\ Flow /\ Born /\ [WNext]_wvars => Born'
<1> SUFFICES ASSUME WTypeOK, Flow, Born, [WNext]_wvars PROVE Born'
  BY DEF Typed
<1>1. CASE UNCHANGED wvars
  BY <1>1 DEF wvars, Born, Ids
<1>2. CASE Crash
  BY <1>2 DEF Crash, Born, Ids, wb, call, ghost, InFlight
<1>3. ASSUME NEW r \in Requests, Step(r) PROVE Born'
  <2> DEFINE Seen == Ids \cup shown \cup hasty
  <2>1. \A q \in Requests \ {r} : pc'[q] = pc[q] /\ op'[q] = op[q]
    BY <1>3, Others
  <2>2. Seen' \subseteq Seen \/ (CreateTab(r) /\ Goto(r, "emit") /\ Seen' \subseteq Seen \cup {r})
                             \/ (Emit(r) /\ op[r].kind = "createTab" /\ Seen' \subseteq Seen \cup {r})
    <3>1. CASE CreateTab(r)
      BY <3>1, CreateAddsId DEF CreateTab
    <3>2. CASE UpdateTab(r)
      BY <3>2, UpdateKeepsIds DEF UpdateTab
    <3>3. CASE RemoveTab(r)
      BY <3>3, RemoveTakesId DEF RemoveTab
    <3>4. CASE Emit(r)
      BY <3>4 DEF Emit, Ids, wb, ghost
    <3>5. CASE RemoveWorkbook(r)
      BY <3>5 DEF RemoveWorkbook, Ids, ghost
    <3>6. CASE ~Touch(r)
      BY <3>6, <1>3, Untouched
    <3> QED BY <3>1, <3>2, <3>3, <3>4, <3>5, <3>6 DEF Touch
  <2>3. r \in Seen => pc[r] = "emit" /\ op[r].kind = "createTab"
    BY <1>3, SameAsk DEF Born
  <2>4. pc[r] = "emit" => Emit(r)
    BY <1>3, Untouched DEF Touch, CreateTab, UpdateTab, RemoveTab, RemoveWorkbook
  <2>5. Emit(r) => pc'[r] = "done" /\ op' = op
    BY Moves DEF Emit, call
  <2>6. CreateTab(r) /\ Goto(r, "emit") => pc'[r] = "emit" /\ op'[r] = op[r] /\ op[r].kind = "createTab"
    BY Moves DEF CreateTab, call
  <2>7. \A q \in Requests \ {r} : q \in Seen' => q \in Seen
    BY <2>2
  <2>8. r \in Seen' => op'[r].kind = "createTab" /\ pc'[r] \in {"emit", "done"}
    BY <2>2, <2>3, <2>4, <2>5, <2>6
  <2> HIDE DEF Seen
  <2>9. \A q \in Requests : q \in Seen' => op'[q].kind = "createTab" /\ pc'[q] \in {"emit", "done"}
    <3> SUFFICES ASSUME NEW q \in Requests, q \in Seen', q # r
                 PROVE  op'[q].kind = "createTab" /\ pc'[q] \in {"emit", "done"}
      BY <2>8
    <3> QED BY <2>1, <2>7 DEF Born, Seen
  <2> QED BY <2>9 DEF Born, Seen
<1> QED BY <1>1, <1>2, <1>3, ActIs DEF WNext, AllDone

(* The new tab gets the next number, or none.                                 *)
LEMMA NextNumber ==
    ASSUME WTypeOK, IsFiniteSet(tabs), Born, TabsNumbered, NEW r \in Requests, Counted(r),
           CreateTab(r), alive, ~rearranged
    PROVE  \/ /\ Goto(r, "emit") /\ Cardinality(tabs') = Cardinality(tabs) + 1
              /\ {t.index : t \in tabs'} = 0..Cardinality(tabs)
           \/ /\ Answer(r, "collision") /\ tabs' = tabs
              /\ counted[r] # Cardinality(tabs)
<1> DEFINE new == [id |-> r, index |-> counted[r]]
           n == Cardinality(tabs)
<1>1. n \in Nat /\ counted[r] \in Nat /\ counted[r] <= n
  BY FS_CardinalityType DEF WTypeOK, Counted, CreateTab
<1>2. {t.index : t \in tabs} = 0..n - 1
  BY DEF TabsNumbered
<1>3. CASE Free(counted[r], r)
  <2>1. tabs' = tabs \cup {new} /\ Goto(r, "emit")
    BY <1>3 DEF CreateTab
  <2>2. \A t \in tabs : t.id # r
    BY DEF Born, CreateTab, Ids
  <2>3. counted[r] \notin {t.index : t \in tabs}
    BY <1>3, <2>2 DEF Free
  <2>4. counted[r] = n
    BY <1>1, <1>2, <2>3
  <2>5. new \notin tabs
    BY <2>2
  <2>6. Cardinality(tabs \cup {new}) = n + 1
    <3> HIDE DEF new
    <3> QED BY <2>5, FS_AddElement
  <2>7. {t.index : t \in tabs'} = {t.index : t \in tabs} \cup {counted[r]}
    <3>1. new \in tabs' /\ new.index = counted[r]
      BY <2>1
    <3> QED BY <2>1, <3>1
  <2>8. (0..n - 1) \cup {n} = 0..n
    BY <1>1
  <2> QED BY <2>1, <2>4, <2>6, <2>7, <2>8, <1>2
<1>4. CASE ~Free(counted[r], r)
  <2>1. PICK t \in tabs : t.index = counted[r]
    BY <1>4 DEF Free
  <2>2. counted[r] \in 0..n - 1
    BY <1>2, <2>1
  <2> QED BY <1>1, <1>4, <2>2 DEF CreateTab
<1> QED BY <1>3, <1>4

\* The tabs stay numbered in order while nobody deletes or reorders, and a collision has
\* its reason.
LEMMA NumberingStep ==
    Typed /\ Flow /\ Born /\ Numbering /\ [WNext]_wvars => Numbering'
<1> SUFFICES ASSUME WTypeOK, IsFiniteSet(tabs), Flow, Born, Numbering, [WNext]_wvars
             PROVE  Numbering'
  BY DEF Typed
<1> DEFINE n == Cardinality(tabs)
<1>0. n \in Nat
  BY FS_CardinalityType
<1>1. CASE UNCHANGED wvars
  BY <1>1 DEF wvars, Numbering, TabsNumbered, Counted, Explained
<1>2. CASE Crash
  BY <1>2 DEF Crash, Numbering, TabsNumbered, Counted, Explained, wb, call, ghost, WTypeOK
<1>3. ASSUME NEW r \in Requests, Step(r) PROVE Numbering'
  <2>1. \A q \in Requests \ {r} : /\ pc'[q] = pc[q] /\ op'[q] = op[q]
                                  /\ res'[q] = res[q] /\ counted'[q] = counted[q]
    BY <1>3, Others
  <2>2. CASE CreateTab(r)
    <3>1. /\ pc[r] = "write" /\ op[r].kind = "createTab" /\ pc'[r] # "write"
          /\ op' = op /\ counted' = counted /\ alive' = alive /\ rearranged' = rearranged
      BY <2>2, Moves DEF CreateTab, call
    <3>2. CASE alive /\ ~rearranged
      <4>1. CASE /\ Goto(r, "emit") /\ Cardinality(tabs') = n + 1
                 /\ {t.index : t \in tabs'} = 0..n
        <5>1. beaten' = [q \in Requests |-> beaten[q] \/ q # r]
          BY <4>1, <2>2 DEF CreateTab, Goto, Answer, WTypeOK
        <5>2. TabsNumbered'
          BY <1>0, <4>1 DEF TabsNumbered
        <5>3. \A q \in Requests : Counted(q)'
          <6>1. Counted(r)'
            BY <3>1 DEF Counted
          <6>2. ASSUME NEW q \in Requests \ {r} PROVE Counted(q)'
            <7>1. beaten'[q]
              BY <5>1
            <7>2. Counted(q) /\ counted[q] \in Nat
              BY DEF Numbering, WTypeOK
            <7>3. op[q].kind = "createTab" /\ pc[q] = "write" => counted[q] <= n + 1
              BY <1>0, <3>2, <7>2 DEF Counted
            <7> QED BY <2>1, <3>1, <4>1, <7>1, <7>3 DEF Counted
          <6> QED BY <6>1, <6>2
        <5>4. \A q \in Requests : Explained(q)'
          BY <2>1, <3>1, <4>1, <5>1, Moves, ZenonT(40) DEF Numbering, Explained, Flow, FlowOf
        <5> QED BY <5>2, <5>3, <5>4 DEF Numbering
      <4>2. CASE Answer(r, "collision") /\ tabs' = tabs /\ counted[r] # n
        <5>1. beaten' = beaten
          BY <4>2, <2>2 DEF CreateTab, Goto, Answer, WTypeOK
        <5>2. beaten[r]
          BY <3>1, <3>2, <4>2 DEF Numbering, Counted
        <5> QED BY <2>1, <3>1, <4>2, <5>1, <5>2, Moves DEF Numbering, TabsNumbered, Counted, Explained
      <4> QED BY <2>2, <3>2, <4>1, <4>2, NextNumber DEF Numbering
    <3>3. CASE ~(alive /\ ~rearranged)
      <4>1. \A q \in Requests : Explained(q)'
        BY <2>1, <2>2, <3>1, <3>3, Moves DEF CreateTab, Numbering, Explained, Flow, FlowOf, WTypeOK
      <4> QED BY <3>1, <3>3, <4>1 DEF Numbering, TabsNumbered, Counted
    <3> QED BY <3>2, <3>3
  <2>3. CASE UpdateTab(r) \/ RemoveTab(r)
    <3>1. /\ alive' = alive /\ op' = op /\ counted' = counted /\ beaten' = beaten
          /\ pc'[r] # "write" /\ op[r].kind # "createTab"
          /\ (tabs' = tabs /\ rearranged' = rearranged) \/ rearranged'
      <4>1. CASE UpdateTab(r)
        <5>1. CASE tabs' = tabs
          BY <4>1, <5>1, Moves DEF UpdateTab, call, WTypeOK
        <5>2. CASE tabs' # tabs
          BY <4>1, <5>2, Moves DEF UpdateTab, call
        <5> QED BY <5>1, <5>2
      <4>2. CASE RemoveTab(r)
        BY <4>2, Moves DEF RemoveTab, call
      <4> QED BY <2>3, <4>1, <4>2
    <3> QED BY <2>1, <3>1 DEF Numbering, TabsNumbered, Counted, Explained
  <2>4. CASE Emit(r)
    BY <2>1, <2>4, Moves DEF Emit, wb, call, ghost, Numbering, TabsNumbered, Counted, Explained
  <2>5. CASE RemoveWorkbook(r)
    <3>1. /\ op' = op /\ counted' = counted /\ beaten' = beaten /\ rearranged' = rearranged
          /\ pc'[r] # "write" /\ op[r].kind # "createTab"
          /\ (alive' = alive /\ tabs' = tabs) \/ ~alive'
      BY <2>5, Moves DEF RemoveWorkbook, call, ghost
    <3> QED BY <2>1, <3>1 DEF Numbering, TabsNumbered, Counted, Explained
  <2>6. CASE Count(r)
    <3>1. /\ UNCHANGED <<alive, tabs, op, rearranged, res>>
          /\ counted' = [counted EXCEPT ![r] = n] /\ beaten' = [beaten EXCEPT ![r] = FALSE]
          /\ res[r] = "none"
      BY <2>6 DEF Count, CountTabs, Goto, wb, Flow, FlowOf
    <3>2. \A q \in Requests : Counted(q)'
      BY <1>0, <2>1, <3>1 DEF Numbering, Counted, WTypeOK
    <3>3. \A q \in Requests : Explained(q)'
      BY <3>1 DEF Numbering, Explained, WTypeOK
    <3> QED BY <3>1, <3>2, <3>3 DEF Numbering, TabsNumbered
  <2>7. CASE ~Touch(r) /\ ~Count(r)
    <3>1. /\ UNCHANGED <<alive, tabs, rearranged, counted, beaten>>
          /\ ~(op'[r].kind = "createTab" /\ pc'[r] = "write")
      BY <1>3, <2>7, Untouched
    <3>2. res'[r] = "collision" => op'[r].kind # "createTab"
      <4>1. CASE Look(r)
        BY <4>1, Moves
           DEF Look, FindSheet, AssertEditor, AssertOwner, Fail, AssertAccess, FindComment,
               FindPublic, Read, Rename, ReadAgain, FindTarget, Flow, FlowOf
      <4>2. CASE Arrive(r)
        BY <4>2, ArrivesAs DEF Flow, FlowOf
      <4>3. CASE AddComment(r) \/ DeleteComment(r) \/ Share(r) \/ Revoke(r) \/ ReadToken(r) \/ Publish(r)
        BY <4>3, Moves DEF AddComment, DeleteComment, Share, Revoke, ReadToken, Publish, Flow, FlowOf
      <4> QED BY <1>3, <2>7, <4>1, <4>2, <4>3 DEF Step, Look, Touch
    <3> QED BY <2>1, <3>1, <3>2 DEF Numbering, TabsNumbered, Counted, Explained
  <2> QED BY <2>2, <2>3, <2>4, <2>5, <2>6, <2>7 DEF Touch
<1> QED BY <1>1, <1>2, <1>3, ActIs DEF WNext, AllDone
-----------------------------------------------------------------------------
(* The public link.                                                           *)

(* The link in force and every link handed out were made before whoever is    *)
(* still to make one did, and he had found none by then.                      *)
Linked ==
    /\ \A r \in Requests :
         told[r] \notin {NoToken, token} =>
            told[r] \in Requests /\ token \in rivals[told[r]]
    /\ \A q \in Requests : Linking(q) =>
         \A t \in {token} \cup {told[r] : r \in Requests} :
            t # NoToken => t \in Requests /\ q \in rivals[t]

\* No link has been handed out at first, and nobody is to make one.
LEMMA LinkedInit == WInit => Linked
BY DEF WInit, Linked, Linking

\* A link is replaced by one of its rivals only, and it has no more once it is stored.
LEMMA LinkedStep == Typed /\ Flow /\ Linked /\ [WNext]_wvars => Linked'
<1> SUFFICES ASSUME WTypeOK, Flow, Linked, [WNext]_wvars PROVE Linked'
  BY DEF Typed
<1>1. CASE UNCHANGED wvars
  BY <1>1 DEF wvars, Linked, Linking
<1>2. CASE Crash
  BY <1>2 DEF Crash, Linked, Linking, wb, call, ghost, WTypeOK
<1>3. ASSUME NEW r \in Requests, Step(r) PROVE Linked'
  <2>1. \A q \in Requests \ {r} : /\ pc'[q] = pc[q] /\ op'[q] = op[q]
                                  /\ saw'[q] = saw[q] /\ told'[q] = told[q]
                                  /\ Linking(q)' <=> Linking(q)
    BY <1>3, Others DEF Linking
  <2>2. CASE ReadToken(r)
    <3>1. UNCHANGED <<token, told, rivals>> /\ saw'[r] = token
      BY <2>2 DEF ReadToken, wb, ghost, WTypeOK
    <3>2. Linking(r)' => token = NoToken
      BY <3>1 DEF Linking
    <3>3. token = NoToken => \A q \in Requests : told[q] = NoToken
      BY TokenAssumption DEF Linked, WTypeOK
    <3> QED BY <2>1, <3>1, <3>2, <3>3 DEF Linked
  <2>3. CASE Publish(r)
    <3>1. /\ UNCHANGED saw /\ ~Linking(r)'
          /\ \/ /\ token' = NewToken(r) /\ told'[r] = NewToken(r)
                /\ rivals' = IF Linking(r)
                      THEN [rivals EXCEPT ![r] = {q \in Requests \ {r} : Linking(q)}]
                      ELSE rivals
             \/ UNCHANGED <<token, told, rivals>>
      BY <2>3, Moves DEF Publish, Linking, WTypeOK
    <3>2. CASE UNCHANGED <<token, told, rivals>>
      BY <2>1, <3>1, <3>2 DEF Linked
    <3>3. CASE /\ ~Linking(r)
               /\ token' = NewToken(r) /\ told'[r] = NewToken(r) /\ UNCHANGED rivals
      <4>1. NewToken(r) = token
        BY <2>3, <3>3 DEF Publish, NewToken, Linking
      <4> QED BY <2>1, <3>1, <3>3, <4>1 DEF Linked
    <3>4. CASE /\ Linking(r) /\ token' = NewToken(r) /\ told'[r] = NewToken(r)
               /\ rivals' = [rivals EXCEPT ![r] = {q \in Requests \ {r} : Linking(q)}]
      <4>1. token' = r /\ told'[r] = r
        BY <3>4 DEF NewToken, Linking
      <4>2. rivals'[r] = {q \in Requests \ {r} : Linking(q)}
        BY <3>4 DEF WTypeOK
      <4>3. \A t \in Requests \ {r} : rivals'[t] = rivals[t]
        BY <3>4 DEF WTypeOK
      <4>4. ASSUME NEW q \in Requests \ {r}, told[q] \notin {NoToken, r}
            PROVE  told[q] \in Requests \ {r} /\ r \in rivals'[told[q]]
        BY <3>4, <4>3, <4>4 DEF Linked
      <4>5. ASSUME NEW q \in Requests \ {r}, Linking(q), NEW u \in Requests \ {r},
                   told[u] \notin {NoToken, r}
            PROVE  told[u] \in Requests /\ q \in rivals'[told[u]]
        BY <4>3, <4>4, <4>5 DEF Linked
      <4> QED BY <2>1, <3>1, <4>1, <4>2, <4>4, <4>5 DEF Linked
    <3> QED BY <3>1, <3>2, <3>3, <3>4
  <2>4. CASE ~(ReadToken(r) \/ Publish(r))
    <3>1. /\ UNCHANGED <<token, told, rivals>>
          /\ ~(op'[r].kind = "publish" /\ pc'[r] = "write")
      <4> USE Moves DEF wb, call, ghost, Flow, FlowOf
      <4>1. CASE FindSheet(r) \/ AssertEditor(r) \/ AssertOwner(r) \/ Fail(r)
        BY <4>1 DEF FindSheet, AssertEditor, AssertOwner, Fail, AfterEditor, AfterOwner
      <4>2. CASE AssertAccess(r) \/ FindComment(r) \/ FindPublic(r) \/ Read(r)
        BY <4>2 DEF AssertAccess, FindComment, FindPublic, Read
      <4>3. CASE Rename(r) \/ ReadAgain(r) \/ FindTarget(r) \/ Count(r)
        BY <4>3 DEF Rename, ReadAgain, FindTarget, Count
      <4>4. CASE Arrive(r)
        BY <4>4, ArrivesAs DEF Arrive, FirstAwait
      <4>5. CASE AddComment(r) \/ DeleteComment(r) \/ Share(r) \/ Revoke(r)
        BY <4>5 DEF AddComment, DeleteComment, Share, Revoke
      <4>6. CASE CreateTab(r) \/ UpdateTab(r) \/ RemoveTab(r) \/ Emit(r) \/ RemoveWorkbook(r)
        BY <4>6 DEF CreateTab, UpdateTab, RemoveTab, Emit, RemoveWorkbook
      <4> QED BY <1>3, <2>4, <4>1, <4>2, <4>3, <4>4, <4>5, <4>6 DEF Step
    <3>2. ~Linking(r)'
      BY <3>1 DEF Linking
    <3> QED BY <2>1, <3>1, <3>2 DEF Linked
  <2> QED BY <2>2, <2>3, <2>4
<1> QED BY <1>1, <1>2, <1>3, ActIs DEF WNext, AllDone
-----------------------------------------------------------------------------
(* What the room shows.                                                       *)

Creating(r) == pc[r] = "emit" /\ op[r].kind = "createTab"
Removing(r, id) == pc[r] = "emit" /\ op[r].kind = "removeTab" /\ op[r].tab = id

(* A tab that is stored is shown, or about to be, and nobody is about to take  *)
(* it away; a tab that is shown but not stored is about to be taken away.      *)
Announced ==
    /\ \A q, r \in Requests : Removing(q, r) => pc[r] \in {"emit", "done"}
    /\ alive =>
         /\ \A id \in Ids : /\ id \notin hasty
                            /\ id \in shown \/ (id \in Requests /\ Creating(id))
                            /\ \A q \in Requests : ~Removing(q, id)
         /\ \A id \in shown \ hasty : id \in Ids \/ \E q \in Requests : Removing(q, id)
         /\ \A r \in Requests : Creating(r) => r \notin shown /\ r \in Ids \cup hasty

\* The room shows the tabs there are.
LEMMA AnnouncedInit == WInit => Announced
BY DEF WInit, Announced, Creating, Removing, Ids

\* What the room does not show yet is about to be announced to it.
LEMMA AnnouncedStep ==
    Typed /\ Flow /\ Born /\ Announced /\ [WNext]_wvars => Announced'
<1> SUFFICES ASSUME WTypeOK, Flow, Born, Announced, [WNext]_wvars PROVE Announced'
  BY DEF Typed
<1>1. CASE UNCHANGED wvars
  BY <1>1 DEF wvars, Announced, Creating, Removing, Ids
<1>2. CASE Crash
  <2>1. /\ UNCHANGED <<alive, hasty>> /\ Ids' = Ids /\ shown' = Ids
        /\ \A q \in Requests : pc'[q] # "emit"
    BY <1>2 DEF Crash, Ids, wb, ghost, InFlight
  <2> QED BY <2>1 DEF Announced, Creating, Removing
<1>3. ASSUME NEW r \in Requests, Step(r) PROVE Announced'
  <2>1. \A q \in Requests \ {r} : pc'[q] = pc[q] /\ op'[q] = op[q]
    BY <1>3, Others
  <2>2. pc[r] # "done"
    BY <1>3, SameAsk
  <2>3. CASE CreateTab(r)
    <3>1. /\ pc[r] = "write" /\ op[r].kind = "createTab" /\ op' = op
          /\ UNCHANGED <<alive, shown, hasty>>
      BY <2>3 DEF CreateTab, call
    <3>2. r \notin Ids \cup shown \cup hasty
      BY <3>1 DEF Born
    <3>3. \A q \in Requests : ~Removing(q, r)
      BY <3>1 DEF Announced
    <3>4. CASE Ids' = Ids \cup {r} /\ alive /\ Goto(r, "emit")
      <4>1. pc'[r] = "emit"
        BY <3>4, Moves
      <4>2. ASSUME NEW q \in Requests
            PROVE  \A id \in TabIds : Removing(q, id)' <=> Removing(q, id)
        <5>1. CASE q = r
          BY <3>1, <5>1 DEF Removing
        <5>2. CASE q # r
          BY <2>1, <5>2 DEF Removing
        <5> QED BY <5>1, <5>2
      <4>3. \A q \in Requests : Creating(q)' <=> (Creating(q) \/ q = r)
        BY <2>1, <3>1, <4>1 DEF Creating
      <4>4. Ids \subseteq TabIds /\ shown \subseteq TabIds /\ Requests \subseteq TabIds
        <5>1. tabs \subseteq [id: TabIds, index: Nat] /\ shown \subseteq TabIds
          BY DEF WTypeOK
        <5>2. Requests \subseteq TabIds
          BY DEF TabIds
        <5> QED BY <5>1, <5>2 DEF Ids
      <4>5. \A q, p \in Requests : Removing(q, p)' => pc'[p] \in {"emit", "done"}
        BY <2>1, <4>1, <4>2, <4>4 DEF Announced
      <4> QED BY <3>1, <3>2, <3>3, <3>4, <4>2, <4>3, <4>4, <4>5 DEF Announced
    <3>5. CASE Ids' = Ids /\ Answer(r, IF alive THEN "collision" ELSE "error")
      <4>1. pc'[r] = "done"
        BY <3>5, Moves
      <4>2. \A q \in Requests : /\ \A id : Removing(q, id)' <=> Removing(q, id)
                                /\ Creating(q)' <=> Creating(q)
        BY <2>1, <3>1, <4>1 DEF Removing, Creating
      <4> QED BY <2>1, <3>1, <3>5, <4>1, <4>2 DEF Announced
    <3> QED BY <2>3, <3>4, <3>5, CreateAddsId
  <2>4. CASE RemoveTab(r)
    <3>1. /\ pc[r] = "write" /\ op[r].kind = "removeTab" /\ op' = op /\ alive' = alive /\ shown' = shown
      BY <2>4 DEF RemoveTab, call
    <3>2. \A q \in Requests : Creating(q)' <=> Creating(q)
      BY <2>1, <3>1 DEF Creating
    <3>3. CASE Ids' = Ids \ {op[r].tab} /\ op[r].tab \in Ids /\ Goto(r, "emit")
      <4>1. hasty' = hasty \cup ({op[r].tab} \ shown)
        BY <2>4, <3>3 DEF RemoveTab
      <4>2. pc'[r] = "emit"
        BY <3>3, Moves
      <4>3. \A q \in Requests : \A id : Removing(q, id)' <=> Removing(q, id) \/ (q = r /\ id = op[r].tab)
        BY <2>1, <3>1, <4>2 DEF Removing
      <4>4. \A q \in Requests : q = op[r].tab => pc[q] \in {"emit", "done"}
        BY <3>3 DEF Born
      <4>5. \A q, p \in Requests : Removing(q, p)' => pc'[p] \in {"emit", "done"}
        BY <2>1, <3>1, <4>2, <4>3, <4>4 DEF Announced
      <4> QED BY <3>1, <3>2, <3>3, <4>1, <4>3, <4>5 DEF Announced
    <3>4. CASE Ids' = Ids /\ op[r].tab \notin Ids /\ Answer(r, "error")
      <4>1. hasty' = hasty
        BY <2>4, <3>4 DEF RemoveTab
      <4>2. pc'[r] = "done"
        BY <3>4, Moves
      <4>3. \A q \in Requests : \A id : Removing(q, id)' <=> Removing(q, id)
        BY <2>1, <3>1, <4>2 DEF Removing
      <4> QED BY <2>1, <3>1, <3>2, <3>4, <4>1, <4>2, <4>3 DEF Announced
    <3> QED BY <2>4, <3>3, <3>4, RemoveTakesId
  <2>5. CASE Emit(r)
    <3>1. /\ UNCHANGED <<alive, op, hasty>> /\ Ids' = Ids /\ pc[r] = "emit"
          /\ shown' = IF op[r].kind = "createTab" THEN shown \cup {r} ELSE shown \ {op[r].tab}
          /\ pc'[r] = "done"
      BY <2>5, Moves DEF Emit, wb, call, ghost, Ids
    <3>2. \A q \in Requests : /\ \A id : Removing(q, id)' <=> Removing(q, id) /\ q # r
                              /\ Creating(q)' <=> Creating(q) /\ q # r
      BY <2>1, <3>1 DEF Removing, Creating
    <3>3. \A q, p \in Requests : Removing(q, p)' => pc'[p] \in {"emit", "done"}
      BY <2>1, <3>1, <3>2 DEF Announced
    <3>4. CASE op[r].kind = "createTab"
      <4>1. Creating(r) /\ \A id : ~Removing(r, id)
        BY <3>1, <3>4 DEF Creating, Removing
      <4> QED BY <3>1, <3>2, <3>3, <3>4, <4>1 DEF Announced
    <3>5. CASE op[r].kind = "removeTab"
      <4>1. \A id : Removing(r, id) <=> id = op[r].tab
        BY <3>1, <3>5 DEF Removing
      <4>2. ~Creating(r)
        BY <3>5 DEF Creating
      <4> QED BY <3>1, <3>2, <3>3, <3>5, <4>1, <4>2 DEF Announced
    <3> QED BY <3>1, <3>4, <3>5 DEF Flow, FlowOf
  <2>6. CASE ~(CreateTab(r) \/ RemoveTab(r) \/ Emit(r))
    <3>1. /\ UNCHANGED <<shown, hasty>> /\ pc[r] # "emit" /\ pc'[r] # "emit"
          /\ ~alive' \/ (alive' = alive /\ Ids' = Ids)
      <4>1. CASE UpdateTab(r)
        BY <4>1, UpdateKeepsIds, Moves DEF UpdateTab
      <4>2. CASE RemoveWorkbook(r)
        BY <4>2, Moves DEF RemoveWorkbook, Ids, ghost
      <4>3. CASE ~Touch(r)
        BY <1>3, <4>3, Untouched
      <4> QED BY <2>6, <4>1, <4>2, <4>3 DEF Touch
    <3>2. \A q \in Requests : /\ \A id : Removing(q, id)' <=> Removing(q, id)
                              /\ Creating(q)' <=> Creating(q)
      BY <2>1, <3>1 DEF Removing, Creating
    <3>3. \A q, p \in Requests : Removing(q, p)' => pc'[p] \in {"emit", "done"}
      BY <2>1, <2>2, <3>1, <3>2 DEF Announced
    <3> QED BY <3>1, <3>2, <3>3 DEF Announced
  <2> QED BY <2>3, <2>4, <2>5, <2>6
<1> QED BY <1>1, <1>2, <1>3, ActIs DEF WNext, AllDone
-----------------------------------------------------------------------------
(* The theorems.                                                              *)

WInv == Typed /\ Flow /\ Rights /\ Born /\ Numbering /\ Linked /\ Announced

\* The parts of the invariant together are inductive.
LEMMA WInvariance == WSpec => []WInv
<1>1. WInit => WInv
  BY TypeInit, FlowInit, RightsInit, BornInit, NumberingInit, LinkedInit, AnnouncedInit DEF WInv
<1>2. WInv /\ [WNext]_wvars => WInv'
  BY TypedStep, FlowStep, RightsStep, BornStep, NumberingStep, LinkedStep, AnnouncedStep DEF WInv
<1> QED BY <1>1, <1>2, PTL DEF WSpec

(* The workbook, its tabs and comments, and every request stay well formed.   *)
THEOREM WorkbookTypes == WSpec => []WTypeOK
<1>1. WInv => WTypeOK
  BY DEF WInv, Typed
<1> QED BY <1>1, WInvariance, PTL

(* Nobody changes or sees a workbook who had no right to it at any time during *)
(* the request, and nobody is refused who had it all the time, however the     *)
(* checks interleave with grants, revocations and deletions.                   *)
THEOREM RightsAreRespected == WSpec => []RightsRespected
<1>1. WInv => RightsRespected
  BY DEF WInv, Rights, Earned, RightsRespected
<1> QED BY <1>1, WInvariance, PTL

(* However many requests create tabs at once, the tabs are numbered from 0 on  *)
(* without a gap, unless one was removed or moved.                             *)
THEOREM TabsAreNumbered == WSpec => []TabsNumbered
<1>1. WInv => TabsNumbered
  BY DEF WInv, Numbering
<1> QED BY <1>1, WInvariance, PTL

(* A request to create a tab collides only when it was overtaken, or a tab was *)
(* removed or moved.                                                           *)
THEOREM CollisionsAreExplained == WSpec => []CollisionExplained
<1>1. WInv => CollisionExplained
  BY DEF WInv, Numbering, CollisionExplained
<1> QED BY <1>1, WInvariance, PTL

(* However calls of setPublicAccess overlap, a link that was handed out stays  *)
(* the workbook's link, until one replaces it whose maker had found the        *)
(* workbook without a link before this one was stored.                         *)
THEOREM LinksLive == WSpec => []LinkLives
<1>1. WInv => LinkLives
  BY DEF WInv, Linked, LinkLives
<1> QED BY <1>1, WInvariance, PTL

(* With no announcement under way, clients show the stored tabs.               *)
THEOREM TabsAreAnnounced == WSpec => []TabsAnnounced
<1>1. WInv => TabsAnnounced
  BY DEF WInv, Announced, TabsAnnounced, Removing, Creating
<1> QED BY <1>1, WInvariance, PTL
=============================================================================
