------------------------------ MODULE Workbooks ------------------------------
(***************************************************************************)
(* One workbook: its tabs (sheets), who may use it, and its public link.   *)
(*                                                                         *)
(* A request is one call of SheetsService, PermissionsService or           *)
(* WorkbooksService, or of what CellsService does with comments and for    *)
(* visitors, with the controller around it.                                *)
(* Each first looks up who may do what, then acts, with other requests in  *)
(* between: every action is one awaited database call with the code up to  *)
(* the next await, except that the event a controller sends to the room    *)
(* after a tab was created or removed is a step of its own, because other  *)
(* requests may see the commit before it.                                  *)
(*                                                                         *)
(* Names of workbooks and tabs, and the contents of tabs and comments, are *)
(* left out.                                                               *)
(***************************************************************************)
EXTENDS Integers, Sequences, FiniteSets

CONSTANTS
    Users,      \* those who make requests
    Owner,      \* the owner of the workbook, one of the users
    Requests,   \* one element per call of a service method
    Asks,       \* what a request may ask for
    OldTabs,    \* the tabs the workbook may have had before, in order
    OldNote,    \* a comment there may be on the first of them
    NoToken     \* SQL NULL as the workbook's shareToken

Roles == {"none", "VIEWER", "COMMENTER", "EDITOR", "OWNER"}
Kinds == {"createTab", "updateTab", "removeTab",
          "comment", "uncomment", "open", "visit",
          "share", "revoke", "publish", "rename", "removeWorkbook"}

TabIds == Requests \cup {OldTabs[i] : i \in 1..Len(OldTabs)}

Notes == Requests \cup {OldNote}

\* tab: what most requests are about; note: which comment uncomment is about;
\* index: where update puts the tab (its own index when only the name changes);
\* target and role: whom share and revoke are about; on: what publish sets.
Ask == [kind: Kinds, user: Users, tab: TabIds, note: Notes, index: Nat,
        target: Users, role: Roles \ {"none"}, on: BOOLEAN]

ASSUME AsksAssumption == Asks \subseteq Ask /\ Asks # {}
ASSUME OwnerAssumption == Owner \in Users
ASSUME TokenAssumption == NoToken \notin Requests \cup {Owner}
ASSUME NoteAssumption == OldNote \notin Requests
ASSUME OldTabsAssumption ==
    /\ Len(OldTabs) > 0
    /\ \A i, j \in 1..Len(OldTabs) : OldTabs[i] = OldTabs[j] => i = j
    /\ \A i \in 1..Len(OldTabs) : OldTabs[i] \notin Requests

VARIABLES
    alive,    \* the workbook's row is in the database
    tabs,     \* its sheets: records of id and index
    role,     \* the permissions table: user -> role, or "none"
    public,   \* publicAccess
    token,    \* shareToken, named after who made it
    comments, \* the comments on its sheets
    op,       \* request -> what it asks for
    pc,       \* request -> the await it is suspended at
    counted,  \* request -> the number of tabs it counted
    saw,      \* request -> the share token it read, or a visitor came with
    told,     \* request -> the share token its caller was told
    res,      \* request -> what its caller was answered
    shown,    \* the tabs a client in the workbook's room shows
    \* History variables; no step of the code reads them.
    held,     \* request -> its user had the right to it, at some time since it arrived
    lacked,   \* request -> its user had not, at some time since
    beaten,   \* request -> a tab was created since it counted
    rearranged,  \* a tab was removed or moved
    hasty,    \* the tabs removed before they were announced
    rivals    \* request that made a link -> the others that had found none by then

wb    == <<alive, tabs, role, public, token, comments>>
call  == <<op, counted, saw, told>>
ghost == <<beaten, rearranged, hasty, rivals>>
wvars == <<alive, tabs, role, public, token, comments, op, pc, counted, saw, told, res, shown,
           held, lacked, beaten, rearranged, hasty, rivals>>

Ids == {t.id : t \in tabs}

\* Mutant of MayEdit: any role will do.
MayOpen(u, roles) == u = Owner \/ roles[u] # "none"

\* assertEditor: the owner, or a permission of exactly EDITOR.
MayEdit(u, roles) == u = Owner \/ roles[u] = "EDITOR"

\* WorkbooksService.findOne: the owner, or any permission.
MayRead(u) == u = Owner \/ role[u] # "none"

\* The link opens the workbook to everybody.
Finds(link) == alive /\ public /\ token = link

\* The right to what a request asks, for the history variables.
Entitled(r) ==
    LET me == op[r].user IN
    CASE op[r].kind \in {"createTab", "updateTab", "removeTab"} ->
            alive /\ (me = Owner \/ role[me] = "EDITOR")
      [] op[r].kind = "uncomment" ->
            \/ alive /\ (me = Owner \/ role[me] = "EDITOR")
            \/ \E c \in comments : c.id = op[r].note /\ c.by = me
      [] op[r].kind \in {"comment", "open"} -> alive /\ MayRead(me)
      [] op[r].kind = "visit" -> Finds(saw[r]) /\ op[r].tab \in Ids
      [] OTHER -> alive /\ me = Owner

FirstAsk == CHOOSE a \in Asks : TRUE

\* A workbook with some of its old tabs, in order.  Its token is set, unless a
\* server from before the column made the workbook.
WInit ==
    /\ alive = TRUE
    /\ \E n \in 1..Len(OldTabs) :
         tabs = {[id |-> OldTabs[i], index |-> i - 1] : i \in 1..n}
    /\ role \in [Users -> {"none", "EDITOR"}] /\ role[Owner] = "none"
    /\ public = FALSE
    /\ token \in {NoToken, Owner}
    /\ \E u \in Users : comments = {[id |-> OldNote, tab |-> OldTabs[1], by |-> u]}
    /\ op = [r \in Requests |-> FirstAsk]
    /\ pc = [r \in Requests |-> "idle"]
    /\ counted = [r \in Requests |-> 0]
    /\ saw = [r \in Requests |-> NoToken]
    /\ told = [r \in Requests |-> NoToken]
    /\ res = [r \in Requests |-> "none"]
    /\ shown = {t.id : t \in tabs}
    /\ held = [r \in Requests |-> FALSE]
    /\ lacked = [r \in Requests |-> FALSE]
    /\ beaten = [r \in Requests |-> FALSE]
    /\ rearranged = FALSE /\ hasty = {} /\ rivals = [r \in Requests |-> {}]
-----------------------------------------------------------------------------
Goto(r, label) == pc' = [pc EXCEPT ![r] = label] /\ UNCHANGED res
Answer(r, outcome) == pc' = [pc EXCEPT ![r] = "done"] /\ res' = [res EXCEPT ![r] = outcome]

InFlight(r) == pc[r] \notin {"idle", "done"}

FirstAwait(kind) == CASE kind = "createTab"                -> "editor"
                      [] kind \in {"updateTab", "removeTab", "comment", "open"} -> "sheet"
                      [] kind = "uncomment"                -> "comment"
                      [] kind = "visit"                    -> "link"
                      [] OTHER                             -> "owner"

Arrive(r) ==
    /\ pc[r] = "idle"
    /\ \E a \in Asks :
         /\ op' = [op EXCEPT ![r] = a]
         /\ Goto(r, FirstAwait(a.kind))
         /\ IF a.kind = "visit"
              THEN \E link \in ({token} \cup {told[q] : q \in Requests}) \ {NoToken} :
                     saw' = [saw EXCEPT ![r] = link]
              ELSE UNCHANGED saw
    /\ UNCHANGED <<wb, counted, told, shown, ghost>>

\* assertEditorAccess and findOne: the sheet, then the check on its workbook.
FindSheet(r) ==
    /\ pc[r] = "sheet"
    /\ IF op[r].tab \in Ids
         THEN Goto(r, IF op[r].kind \in {"comment", "open"} THEN "access" ELSE "editor")
         ELSE Answer(r, "notFound")
    /\ UNCHANGED <<wb, call, shown, ghost>>

AfterEditor(kind) == CASE kind = "createTab" -> "count"
                       [] kind = "removeTab" -> "again"
                       [] OTHER              -> "write"

AssertEditor(r) ==
    /\ pc[r] = "editor"
    /\ IF ~alive THEN Answer(r, "notFound")
       ELSE IF MayEdit(op[r].user, role) THEN Goto(r, AfterEditor(op[r].kind))
       ELSE Answer(r, "forbidden")
    /\ UNCHANGED <<wb, call, shown, ghost>>

AfterOwner(kind) == CASE kind = "share"   -> "target"
                      [] kind = "publish" -> "token"
                      [] OTHER            -> "write"

\* assertOwner, of WorkbooksService and of PermissionsService.
AssertOwner(r) ==
    /\ pc[r] = "owner"
    /\ IF ~alive THEN Answer(r, "notFound")
       ELSE IF op[r].user = Owner THEN Goto(r, AfterOwner(op[r].kind))
       ELSE Answer(r, "forbidden")
    /\ UNCHANGED <<wb, call, shown, ghost>>

\* Any awaited call may reject.
Fail(r) ==
    /\ InFlight(r) /\ pc[r] # "emit"
    /\ Answer(r, "error")
    /\ UNCHANGED <<wb, call, shown, ghost>>
-----------------------------------------------------------------------------
(* SheetsService.create, update and remove, and the events of the controller. *)

\* Mutants of CountTabs: the new tab goes one place too far, or one too near.
CountAndOne == Cardinality(tabs) + 1
CountButOne == Cardinality(tabs) - 1

CountTabs == Cardinality(tabs)

Count(r) ==
    /\ pc[r] = "count"
    /\ counted' = [counted EXCEPT ![r] = CountTabs]
    /\ beaten' = [beaten EXCEPT ![r] = FALSE]
    /\ Goto(r, "write")
    /\ UNCHANGED <<wb, op, saw, told, shown, rearranged, hasty, rivals>>

\* The database holds (workbookId, index) unique.
Free(index, id) == \A t \in tabs : t.index = index => t.id = id

CreateTab(r) ==
    /\ pc[r] = "write" /\ op[r].kind = "createTab"
    /\ IF alive /\ Free(counted[r], r)
         THEN /\ tabs' = tabs \cup {[id |-> r, index |-> counted[r]]}
              /\ beaten' = [q \in Requests |-> beaten[q] \/ q # r]
              /\ Goto(r, "emit")
         ELSE /\ Answer(r, IF alive THEN "collision" ELSE "error")
              /\ UNCHANGED <<tabs, beaten>>
    /\ UNCHANGED <<alive, role, public, token, comments, call, shown,
                   rearranged, hasty, rivals>>

UpdateTab(r) ==
    LET id == op[r].tab
        to == op[r].index
    IN
    /\ pc[r] = "write" /\ op[r].kind = "updateTab"
    /\ IF id \in Ids /\ Free(to, id)
         THEN /\ tabs' = {t \in tabs : t.id # id} \cup {[id |-> id, index |-> to]}
              /\ rearranged' = (rearranged \/ tabs' # tabs)
              /\ Answer(r, "ok")
         ELSE /\ Answer(r, IF id \in Ids THEN "collision" ELSE "error")
              /\ UNCHANGED <<tabs, rearranged>>
    /\ UNCHANGED <<alive, role, public, token, comments, call, shown, beaten,
                   hasty, rivals>>

\* remove reads the sheet again for the name of its workbook; if it is gone by
\* now, the delete that follows rejects.
ReadAgain(r) ==
    /\ pc[r] = "again"
    /\ Goto(r, "write")
    /\ UNCHANGED <<wb, call, shown, ghost>>

RemoveTab(r) ==
    LET id == op[r].tab IN
    /\ pc[r] = "write" /\ op[r].kind = "removeTab"
    /\ IF id \in Ids
         THEN /\ tabs' = {t \in tabs : t.id # id}
              /\ comments' = {c \in comments : c.tab # id}
              /\ rearranged' = TRUE
              /\ hasty' = hasty \cup ({id} \ shown)
              /\ Goto(r, "emit")
         ELSE Answer(r, "error") /\ UNCHANGED <<tabs, comments, rearranged, hasty>>
    /\ UNCHANGED <<alive, role, public, token, call, shown, beaten, rivals>>

\* Mutant of Emit: a removal is not announced.
EmitCreatedOnly(r) ==
    /\ pc[r] = "emit"
    /\ shown' = IF op[r].kind = "createTab" THEN shown \cup {r} ELSE shown
    /\ Answer(r, "ok")
    /\ UNCHANGED <<wb, call, ghost>>

\* sheet:created or sheet:deleted, to everyone in the workbook's room.
Emit(r) ==
    /\ pc[r] = "emit"
    /\ shown' = IF op[r].kind = "createTab" THEN shown \cup {r} ELSE shown \ {op[r].tab}
    /\ Answer(r, "ok")
    /\ UNCHANGED <<wb, call, ghost>>
-----------------------------------------------------------------------------
(* PermissionsService.share and revoke.                                      *)

\* The account behind the e-mail address, if there is one.
FindTarget(r) ==
    /\ pc[r] = "target"
    /\ Goto(r, "write") \/ Answer(r, "notFound")
    /\ UNCHANGED <<wb, call, shown, ghost>>

Share(r) ==
    /\ pc[r] = "write" /\ op[r].kind = "share"
    /\ IF alive
         THEN role' = [role EXCEPT ![op[r].target] = op[r].role] /\ Answer(r, "ok")
         ELSE Answer(r, "error") /\ UNCHANGED role
    /\ UNCHANGED <<alive, tabs, public, token, comments, call, shown, ghost>>

\* Deleting a permission that is not there rejects.
Revoke(r) ==
    /\ pc[r] = "write" /\ op[r].kind = "revoke"
    /\ IF role[op[r].target] # "none"
         THEN role' = [role EXCEPT ![op[r].target] = "none"] /\ Answer(r, "ok")
         ELSE Answer(r, "error") /\ UNCHANGED role
    /\ UNCHANGED <<alive, tabs, public, token, comments, call, shown, ghost>>
-----------------------------------------------------------------------------
(* WorkbooksService.setPublicAccess and remove.                              *)

ReadToken(r) ==
    /\ pc[r] = "token"
    /\ saw' = [saw EXCEPT ![r] = token]
    /\ Goto(r, "write")
    /\ UNCHANGED <<wb, op, counted, told, shown, ghost>>

\* The request is to make a link, having found none.
Linking(r) ==
    op[r].kind = "publish" /\ pc[r] = "write" /\ op[r].on /\ saw[r] = NoToken

\* Mutant of NewToken: a token is made whenever the workbook is made public.
AlwaysNewToken(r) == IF op[r].on THEN r ELSE token

\* randomUUID, when the workbook is made public and had no token when read.
NewToken(r) == IF op[r].on /\ saw[r] = NoToken THEN r ELSE token

Publish(r) ==
    /\ pc[r] = "write" /\ op[r].kind = "publish"
    /\ IF alive
         THEN /\ public' = op[r].on
              /\ token' = NewToken(r)
              /\ told' = [told EXCEPT ![r] = NewToken(r)]
              /\ rivals' = IF Linking(r)
                    THEN [rivals EXCEPT ![r] = {q \in Requests \ {r} : Linking(q)}]
                    ELSE rivals
              /\ Answer(r, "ok")
         ELSE Answer(r, "error") /\ UNCHANGED <<public, token, told, rivals>>
    /\ UNCHANGED <<alive, tabs, role, comments, op, counted, saw, shown,
                   beaten, rearranged, hasty>>

\* ON DELETE CASCADE takes the tabs and the permissions along.
RemoveWorkbook(r) ==
    /\ pc[r] = "write" /\ op[r].kind = "removeWorkbook"
    /\ IF alive
         THEN /\ alive' = FALSE /\ tabs' = {} /\ comments' = {}
              /\ role' = [u \in Users |-> "none"]
              /\ Answer(r, "ok")
         ELSE Answer(r, "error") /\ UNCHANGED <<alive, tabs, role, comments>>
    /\ UNCHANGED <<public, token, call, shown, ghost>>

\* WorkbooksService.update; it sets the name.
Rename(r) ==
    /\ pc[r] = "write" /\ op[r].kind = "rename"
    /\ Answer(r, IF alive THEN "ok" ELSE "error")
    /\ UNCHANGED <<wb, call, shown, ghost>>
-----------------------------------------------------------------------------
(* Comments, and reading: by collaborators, and by visitors with the link.   *)

\* WorkbooksService.findOne, before a comment is added or a tab is read.
AssertAccess(r) ==
    /\ pc[r] = "access"
    /\ IF ~alive THEN Answer(r, "notFound")
       ELSE IF ~MayRead(op[r].user) THEN Answer(r, "forbidden")
       ELSE Goto(r, IF op[r].kind = "open" THEN "read" ELSE "write")
    /\ UNCHANGED <<wb, call, shown, ghost>>

AddComment(r) ==
    /\ pc[r] = "write" /\ op[r].kind = "comment"
    /\ IF op[r].tab \in Ids
         THEN /\ comments' = comments \cup
                    {[id |-> r, tab |-> op[r].tab, by |-> op[r].user]}
              /\ Answer(r, "ok")
         ELSE Answer(r, "error") /\ UNCHANGED comments
    /\ UNCHANGED <<alive, tabs, role, public, token, call, shown, ghost>>

\* deleteComment: whose comment is it?  Its author needs no permission.
FindComment(r) ==
    /\ pc[r] = "comment"
    /\ LET found == {c \in comments : c.id = op[r].note /\ c.tab = op[r].tab} IN
       CASE found = {} -> Answer(r, "notFound")
         [] \E c \in found : c.by = op[r].user -> Goto(r, "write")
         [] OTHER -> Goto(r, "sheet")
    /\ UNCHANGED <<wb, call, shown, ghost>>

DeleteComment(r) ==
    /\ pc[r] = "write" /\ op[r].kind = "uncomment"
    /\ comments' = {c \in comments : c.id # op[r].note}
    /\ Answer(r, IF comments' # comments THEN "ok" ELSE "error")
    /\ UNCHANGED <<alive, tabs, role, public, token, call, shown, ghost>>

\* Mutant of FindPublic: the link is taken for the permission.
FindPublicAny(r) ==
    /\ pc[r] = "link"
    /\ IF alive /\ token = saw[r] /\ op[r].tab \in Ids
         THEN Goto(r, "read") ELSE Answer(r, "forbidden")
    /\ UNCHANGED <<wb, call, shown, ghost>>

\* findPublicCells: the sheet with its workbook, then the cells.  Who may not see
\* them is told that there is no such sheet.
FindPublic(r) ==
    /\ pc[r] = "link"
    /\ IF Finds(saw[r]) /\ op[r].tab \in Ids
         THEN Goto(r, "read") ELSE Answer(r, "forbidden")
    /\ UNCHANGED <<wb, call, shown, ghost>>

\* The statement that reads the cells or the comments checks nothing any more.
Read(r) ==
    /\ pc[r] = "read"
    /\ Answer(r, "ok")
    /\ UNCHANGED <<wb, call, shown, ghost>>
-----------------------------------------------------------------------------
\* The process dies with its requests; its clients reconnect and list the tabs.
Crash ==
    /\ \E r \in Requests : InFlight(r)
    /\ pc' = [r \in Requests |-> IF InFlight(r) THEN "done" ELSE pc[r]]
    /\ shown' = Ids
    /\ UNCHANGED <<wb, call, res, ghost>>

AllDone == (\A r \in Requests : pc[r] = "done") /\ UNCHANGED wvars

\* The history of every step.
Remember ==
    /\ held' = [r \in Requests |-> held[r] \/ (InFlight(r) /\ Entitled(r))]
    /\ lacked' = [r \in Requests |-> lacked[r] \/ (InFlight(r) /\ ~Entitled(r))]

Act ==
    \/ \E r \in Requests :
         \/ Arrive(r) \/ FindSheet(r) \/ AssertEditor(r) \/ AssertOwner(r) \/ Fail(r)
         \/ AssertAccess(r) \/ AddComment(r) \/ FindComment(r) \/ DeleteComment(r)
         \/ FindPublic(r) \/ Read(r) \/ Rename(r)
         \/ Count(r) \/ CreateTab(r) \/ UpdateTab(r) \/ ReadAgain(r) \/ RemoveTab(r) \/ Emit(r)
         \/ FindTarget(r) \/ Share(r) \/ Revoke(r)
         \/ ReadToken(r) \/ Publish(r) \/ RemoveWorkbook(r)
    \/ Crash

WNext == (Act /\ Remember) \/ AllDone

WSpec == WInit /\ [][WNext]_wvars
-----------------------------------------------------------------------------
(* Properties.                                                               *)

WTypeOK ==
    /\ alive \in BOOLEAN
    /\ tabs \subseteq [id: TabIds, index: Nat]
    /\ role \in [Users -> Roles]
    /\ public \in BOOLEAN
    /\ token \in Requests \cup {NoToken, Owner}
    /\ comments \subseteq [id: Notes, tab: Ids, by: Users]
    /\ op \in [Requests -> Asks]
    /\ pc \in [Requests -> {"idle", "sheet", "editor", "owner", "count", "again",
                            "target", "token", "access", "comment", "link",
                            "read", "write", "emit", "done"}]
    /\ counted \in [Requests -> Nat]
    /\ saw \in [Requests -> Requests \cup {NoToken, Owner}]
    /\ told \in [Requests -> Requests \cup {NoToken, Owner}]
    /\ res \in [Requests -> {"none", "ok", "notFound", "forbidden", "collision", "error"}]
    /\ shown \subseteq TabIds
    /\ held \in [Requests -> BOOLEAN] /\ lacked \in [Requests -> BOOLEAN]
    /\ beaten \in [Requests -> BOOLEAN]
    /\ rearranged \in BOOLEAN /\ hasty \subseteq TabIds
    /\ rivals \in [Requests -> SUBSET Requests]

Respected(r) ==
    /\ pc[r] = "emit" \/ res[r] \in {"ok", "collision"} => held[r]
    /\ res[r] = "forbidden" => lacked[r]

(* Rights are checked before the act and may change in between, but not more *)
(* than that: nothing is changed or shown but for somebody who had the right *)
(* to it at some time during the request (a request made after the           *)
(* permission was revoked, or the workbook unpublished, gets nowhere), and   *)
(* nobody is refused who had it all the time: a link that was handed out     *)
(* opens the workbook whenever it is public.                                 *)
RightsRespected == \A r \in Requests : Respected(r)

(* Concurrent creates neither share an index nor skip one: unless a tab was  *)
(* removed or moved, the tabs are numbered 0, 1, 2 ...                       *)
TabsNumbered ==
    alive /\ ~rearranged =>
       {t.index : t \in tabs} = 0..Cardinality(tabs) - 1

Explained(r) ==
    res[r] = "collision" /\ op[r].kind = "createTab" => beaten[r] \/ rearranged

(* Creating a tab fails on its index only if somebody else created one since *)
(* it counted, or a tab was removed or moved before.                         *)
CollisionExplained == \A r \in Requests : Explained(r)

(* A public link that was handed out stays the workbook's link, however many *)
(* requests publish and unpublish it and however they overlap.  One thing    *)
(* alone replaces it: a link made by a request that had found the workbook   *)
(* without any before this one was stored.                                   *)
LinkLives ==
    \A r \in Requests :
       alive /\ told[r] \notin {NoToken, token} =>
          told[r] \in Requests /\ token \in rivals[told[r]]

(* The tabs a client shows: when nothing is under way, they are those        *)
(* stored, except for tabs somebody removed before they were announced.      *)
TabsAnnounced ==
    alive /\ (\A r \in Requests : pc[r] # "emit") => shown \ hasty = Ids
=============================================================================
