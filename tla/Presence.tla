------------------------------ MODULE Presence ------------------------------
(***************************************************************************)
(* Who is shown as present in a sheet: the presence hash in Redis, the     *)
(* gateway's socketMeta map, Socket.IO's rooms, and the list of users each *)
(* client shows.                                                           *)
(*                                                                         *)
(* A call is one run of handleJoin, handleCursor or handleDisconnect.  The *)
(* handlers of a socket are not queued behind each other: each runs to its *)
(* next await and others run in between.  An instance of the server sends  *)
(* its presence commands over one connection, so Redis executes them and   *)
(* replies in the order they were sent; the commands of different          *)
(* instances interleave freely.  A command takes effect in the step that   *)
(* sends it, and the call goes on when its reply is the next one.          *)
(*                                                                         *)
(* Names, colours and the refreshing of the key's time to live are left    *)
(* out, and so is the catch-up of the operation log that ends a join.      *)
(***************************************************************************)
EXTENDS Naturals, Sequences, FiniteSets

CONSTANTS
    Sockets,    \* the connections clients make; each is used once
    Rooms,      \* the sheets
    Calls,      \* one element per run of a handler
    Guests,     \* the sockets without a user
    Instances,  \* the server processes
    Home,       \* socket -> the instance it is connected to
    Visits,     \* socket -> the sheets its client opens
    NoRoom,     \* the socket is not in socketMeta
    Free        \* the call has not been made

ASSUME HomeAssumption == Home \in [Sockets -> Instances] /\ Guests \subseteq Sockets
ASSUME VisitsAssumption == Visits \in [Sockets -> SUBSET Rooms]
ASSUME NoRoomAssumption == NoRoom \notin Rooms

VARIABLES
    up,        \* the sockets that are connected
    members,   \* room -> the sockets Socket.IO has in it
    meta,      \* socketMeta: socket -> its room
    presence,  \* the Redis hashes: room -> socket -> "out", "in" or "cursor"
    call,      \* call -> what it is doing
    replies,   \* instance -> the calls waiting for Redis, in order
    shown,     \* connected socket -> the sockets its client lists as present
    \* History variables; no step of the code reads them.
    hasty,     \* the sockets that left while a call of theirs was running
    wiped      \* the rooms whose hash was deleted with somebody in it

pvars == <<up, members, meta, presence, call, replies, shown, hasty, wiped>>

Fields == {"out", "in", "cursor"}
Kinds  == {"join", "leave", "cursor"}
Record == [kind: Kinds, socket: Sockets, room: Rooms \cup {NoRoom},
           at: {"hset", "expire", "list", "hdel", "hlen", "del", "hget", "done", "failed"},
           got: SUBSET Sockets]

ASSUME FreeAssumption == Free \notin Record

Emptied == [s \in Sockets |-> "out"]

\* hkeys of a room's hash.
Listed(r) == {s \in Sockets : presence[r][s] # "out"}

Running(c) == call[c] # Free /\ call[c].at \notin {"done", "failed"}
CallsOf(s) == {c \in Calls : call[c] # Free /\ call[c].socket = s}

PInit ==
    /\ up = Sockets
    /\ members = [r \in Rooms |-> {}]
    /\ meta = [s \in Sockets |-> NoRoom]
    /\ presence = [r \in Rooms |-> Emptied]
    /\ call = [c \in Calls |-> Free]
    /\ replies = [i \in Instances |-> <<>>]
    /\ shown = [s \in Sockets |-> {}]
    /\ hasty = {} /\ wiped = {}
-----------------------------------------------------------------------------
(* How calls wait for Redis.                                                 *)

Start(c, kind, s, r, at, got) ==
    /\ call[c] = Free
    /\ call' = [call EXCEPT ![c] =
                  [kind |-> kind, socket |-> s, room |-> r, at |-> at, got |-> got]]

\* The reply c waits for is the next one on the connection of its instance.
Replied(c, kind, at) ==
    /\ call[c] # Free /\ call[c].kind = kind /\ call[c].at = at
    /\ Head(replies[Home[call[c].socket]]) = c

Send(c, s) == replies' = [replies EXCEPT ![Home[s]] = Append(@, c)]
Resend(c)  == LET i == Home[call[c].socket] IN
    replies' = [replies EXCEPT ![i] = Append(Tail(@), c)]
Receive(c) == LET i == Home[call[c].socket] IN
    replies' = [replies EXCEPT ![i] = Tail(@)]

Goto(c, at) == call' = [call EXCEPT ![c].at = at]
End(c, at)  == call' = [call EXCEPT ![c].at = at, ![c].got = {}]

\* The clients of the sockets in S list `users`.
Show(S, users) == shown' = [s \in Sockets |-> IF s \in S THEN users ELSE shown[s]]
-----------------------------------------------------------------------------
(* handleJoin: the room is joined first, the map entry is set last.          *)

\* Mutant of Join: the message is handled although the socket has closed.
JoinUnguarded(c, s, r) ==
    /\ Start(c, "join", s, r, "hset", {})
    /\ members' = [members EXCEPT ![r] = @ \cup {s}]
    /\ presence' = [presence EXCEPT ![r][s] = "in"]
    /\ Send(c, s)
    /\ UNCHANGED <<up, meta, shown, hasty, wiped>>

Join(c, s, r) ==
    /\ s \in up
    /\ Start(c, "join", s, r, "hset", {})
    /\ members' = [members EXCEPT ![r] = @ \cup {s}]
    /\ presence' = [presence EXCEPT ![r][s] = "in"]
    /\ Send(c, s)
    /\ UNCHANGED <<up, meta, shown, hasty, wiped>>

JoinExpire(c) ==
    /\ Replied(c, "join", "hset")
    /\ Goto(c, "expire") /\ Resend(c)
    /\ UNCHANGED <<up, members, meta, presence, shown, hasty, wiped>>

\* Mutant of JoinList: the list is taken from socketMeta, where the joiner is not
\* entered yet.
JoinListFromMap(c) ==
    /\ Replied(c, "join", "expire")
    /\ call' = [call EXCEPT ![c].at = "list",
                            ![c].got = {s \in Listed(call[c].room) : meta[s] = call[c].room}]
    /\ Resend(c)
    /\ UNCHANGED <<up, members, meta, presence, shown, hasty, wiped>>

JoinList(c) ==
    /\ Replied(c, "join", "expire")
    /\ call' = [call EXCEPT ![c].at = "list", ![c].got = Listed(call[c].room)]
    /\ Resend(c)
    /\ UNCHANGED <<up, members, meta, presence, shown, hasty, wiped>>

\* Mutant of JoinDone: the joiner gets the list, the others in the room do not.
JoinDoneUntold(c) ==
    LET s == call[c].socket
        r == call[c].room
    IN
    /\ Replied(c, "join", "list")
    /\ meta' = [meta EXCEPT ![s] = r]
    /\ Show({s} \cap up, call[c].got \ Guests)
    /\ End(c, "done") /\ Receive(c)
    /\ UNCHANGED <<up, members, presence, hasty, wiped>>

\* user:joined to the others in the room, sheet:users to the joiner; guests are
\* not listed.
JoinDone(c) ==
    LET s == call[c].socket
        r == call[c].room
    IN
    /\ Replied(c, "join", "list")
    /\ meta' = [meta EXCEPT ![s] = r]
    /\ Show(members[r] \cup ({s} \cap up), call[c].got \ Guests)
    /\ End(c, "done") /\ Receive(c)
    /\ UNCHANGED <<up, members, presence, hasty, wiped>>
-----------------------------------------------------------------------------
(* handleDisconnect: Socket.IO has taken the socket out of its rooms.  The   *)
(* hash field goes first; an empty hash is deleted; then the room is told    *)
(* and the map entry dropped.                                                *)

Gone(s) ==
    /\ up' = up \ {s}
    /\ members' = [r \in Rooms |-> members[r] \ {s}]
    /\ hasty' = IF \E d \in CallsOf(s) : Running(d) THEN hasty \cup {s} ELSE hasty
    /\ Show({s}, {})

\* Mutant of Disconnect: the map entry is dropped, the hash field is not.
DisconnectKeeping(c, s) ==
    /\ s \in up /\ Gone(s)
    /\ Start(c, "leave", s, meta[s], "done", {})
    /\ meta' = [meta EXCEPT ![s] = NoRoom]
    /\ UNCHANGED <<presence, replies, wiped>>

Disconnect(c, s) ==
    LET r == meta[s] IN
    /\ s \in up /\ Gone(s)
    /\ IF r = NoRoom
         THEN /\ Start(c, "leave", s, NoRoom, "done", {})
              /\ UNCHANGED <<presence, replies>>
         ELSE /\ Start(c, "leave", s, r, "hdel", {})
              /\ presence' = [presence EXCEPT ![r][s] = "out"]
              /\ Send(c, s)
    /\ UNCHANGED <<meta, wiped>>

LeaveCount(c) ==
    /\ Replied(c, "leave", "hdel")
    /\ call' = [call EXCEPT ![c].at = "hlen", ![c].got = Listed(call[c].room)]
    /\ Resend(c)
    /\ UNCHANGED <<up, members, meta, presence, shown, hasty, wiped>>

\* The hash was empty when it was counted; it may not be any more.
LeaveDrop(c) ==
    LET r == call[c].room IN
    /\ Replied(c, "leave", "hlen") /\ call[c].got = {}
    /\ presence' = [presence EXCEPT ![r] = Emptied]
    /\ wiped' = IF Listed(r) # {} THEN wiped \cup {r} ELSE wiped
    /\ Goto(c, "del") /\ Resend(c)
    /\ UNCHANGED <<up, members, meta, shown, hasty>>

\* user:left to the others in the room.
LeaveDone(c) ==
    LET s == call[c].socket IN
    /\ Replied(c, "leave", "del") \/ (Replied(c, "leave", "hlen") /\ call[c].got # {})
    /\ shown' = [u \in Sockets |-> IF u \in members[call[c].room]
                                     THEN shown[u] \ {s} ELSE shown[u]]
    /\ meta' = [meta EXCEPT ![s] = NoRoom]
    /\ End(c, "done") /\ Receive(c)
    /\ UNCHANGED <<up, members, presence, hasty, wiped>>
-----------------------------------------------------------------------------
(* handleCursor: the entry is read, changed and written back.                *)

Cursor(c, s) ==
    LET r == meta[s] IN
    /\ s \in up /\ r # NoRoom
    /\ Start(c, "cursor", s, r, "hget", {s} \cap Listed(r))
    /\ Send(c, s)
    /\ UNCHANGED <<up, members, meta, presence, shown, hasty, wiped>>

CursorSet(c) ==
    LET s == call[c].socket
        r == call[c].room
    IN
    /\ Replied(c, "cursor", "hget")
    /\ IF call[c].got = {} THEN UNCHANGED presence
       ELSE presence' = [presence EXCEPT ![r][s] = "cursor"]
    /\ End(c, "done") /\ Receive(c)
    /\ UNCHANGED <<up, members, meta, shown, hasty, wiped>>
-----------------------------------------------------------------------------
(* What may go wrong outside the handlers.                                   *)

\* Redis answers with an error: the handler throws and nothing follows.
Fail(c) ==
    /\ call[c] # Free /\ Running(c)
    /\ Head(replies[Home[call[c].socket]]) = c
    /\ End(c, "failed") /\ Receive(c)
    /\ UNCHANGED <<up, members, meta, presence, shown, hasty, wiped>>

\* A process dies with its sockets, its map and its calls; Redis keeps the hash.
\* A socket that has called nothing yet connects to the next process.
CrashOf(i) ==
    LET lost == {s \in Sockets : Home[s] = i /\ CallsOf(s) # {}} IN
    /\ \E s \in lost : s \in up
    /\ up' = up \ lost
    /\ members' = [r \in Rooms |-> members[r] \ lost]
    /\ meta' = [s \in Sockets |-> IF s \in lost THEN NoRoom ELSE meta[s]]
    /\ call' = [c \in Calls |-> IF Running(c) /\ call[c].socket \in lost
                                  THEN [call[c] EXCEPT !.at = "failed", !.got = {}] ELSE call[c]]
    /\ replies' = [replies EXCEPT ![i] = <<>>]
    /\ hasty' = hasty \cup lost
    /\ Show(lost, {})
    /\ UNCHANGED <<presence, wiped>>

\* Nobody joined or moved a cursor for 24 hours.
ExpireRoom(r) ==
    /\ Listed(r) # {}
    /\ \A c \in Calls : ~Running(c)
    /\ presence' = [presence EXCEPT ![r] = Emptied]
    /\ wiped' = wiped \cup {r}
    /\ UNCHANGED <<up, members, meta, call, replies, shown, hasty>>

Quiet == \A c \in Calls : ~Running(c)

\* No more calls are made.
Rest == Quiet /\ UNCHANGED pvars

PNext ==
    \/ \E c \in Calls, s \in Sockets :
         \/ \E r \in Visits[s] : Join(c, s, r)
         \/ Disconnect(c, s) \/ Cursor(c, s)
    \/ \E c \in Calls :
         \/ JoinExpire(c) \/ JoinList(c) \/ JoinDone(c)
         \/ LeaveCount(c) \/ LeaveDrop(c) \/ LeaveDone(c)
         \/ CursorSet(c) \/ Fail(c)
    \/ \E i \in Instances : CrashOf(i)
    \/ \E r \in Rooms : ExpireRoom(r)
    \/ Rest

PSpec == PInit /\ [][PNext]_pvars
-----------------------------------------------------------------------------
(* Properties.                                                               *)

PTypeOK ==
    /\ up \subseteq Sockets /\ hasty \subseteq Sockets /\ wiped \subseteq Rooms
    /\ members \in [Rooms -> SUBSET up]
    /\ meta \in [Sockets -> Rooms \cup {NoRoom}]
    /\ presence \in [Rooms -> [Sockets -> Fields]]
    /\ call \in [Calls -> Record \cup {Free}]
    /\ replies \in [Instances -> Seq(Calls)]
    /\ shown \in [Sockets -> SUBSET Sockets]

RoomsOf(s) == {call[c].room : c \in {d \in CallsOf(s) : call[d].kind = "join"}}

\* None of the socket's calls failed or was still running when it left.
Orderly(s) ==
    /\ s \notin hasty
    /\ \A c \in CallsOf(s) : call[c].at # "failed"

\* A socket that opened several sheets leaves the one it opened last.
LeftAnother(s, r) == \E c \in CallsOf(s) : call[c].kind = "leave" /\ call[c].room # r

(* A socket that left in peace leaves nothing behind, neither a field in a   *)
(* hash nor an entry in socketMeta, whatever the other sockets do meanwhile; *)
(* but it stays in the hash of a sheet it had opened before its last one.    *)
OrderlyLeave ==
    \A s \in Sockets \ up :
       Orderly(s) /\ (\A c \in CallsOf(s) : ~Running(c))
       => /\ meta[s] = NoRoom
          /\ \A r \in Rooms : presence[r][s] # "out" => r \in RoomsOf(s) /\ LeftAnother(s, r)

\* The sheet is served by one instance.
OneHome(r) ==
    \A s, u \in Sockets : r \in RoomsOf(s) \cap RoomsOf(u) => Home[s] = Home[u]

\* A call of the socket failed or was running when it left, or it left another sheet.
Strayed(v, r) == ~Orderly(v) \/ LeftAnother(v, r)

\* A call of socket s: a join of room r that is under way, a leave of it.
Joining(d, s, r) ==
    Running(d) /\ call[d].kind = "join" /\ call[d].socket = s /\ call[d].room = r
Leaving(c, s, r) ==
    Running(c) /\ call[c].kind = "leave" /\ call[c].socket = s /\ call[c].room = r

ShownComplete == \A r \in Rooms \ wiped : OneHome(r) => \A u, s \in members[r] :
      u \notin Guests /\ RoomsOf(s) = {r} =>
       u \in shown[s] \/ ~Orderly(u) \/ ~Orderly(s) \/
         \E d \in Calls : Joining(d, u, r) \/ Joining(d, s, r)

ShownSound == \A r \in Rooms : OneHome(r) => \A s \in members[r] : RoomsOf(s) = {r} =>
      \A v \in shown[s] : v \in members[r] \/ Strayed(v, r) \/
         \E c \in Calls : Leaving(c, v, r)

(* However joins and leaves overlap in a sheet served by one instance, the   *)
(* lists its clients show are never wrong for good: who is missing from one  *)
(* has a join under way that will add him, or the client itself has; who is  *)
(* named though gone has a leave under way that will take him off.           *)
ListsFollow == ShownComplete /\ ShownSound

(* In a sheet served by one instance, when all is quiet, the hash holds the  *)
(* sockets in the room, and each client that keeps to the sheet lists their  *)
(* users: the lists sent by overlapping joins and leaves never overtake each *)
(* other.  Who is listed though gone was cut off in the middle of a call, by *)
(* a failure or by the death of its process, or left another sheet; who is   *)
(* not listed though there had a call fail.                                  *)
ListsConverge ==
    \A r \in Rooms :
       /\ Quiet /\ r \notin wiped /\ OneHome(r)
       => LET there == {s \in members[r] : Orderly(s)}
              stray == {s \in Sockets : Strayed(s, r)}
          IN  /\ there \subseteq Listed(r) /\ Listed(r) \subseteq members[r] \cup stray
              /\ \A s \in there : RoomsOf(s) = {r} =>
                    /\ there \ Guests \subseteq shown[s]
                    /\ shown[s] \subseteq (members[r] \cup stray) \ Guests

(* docs/websockets.md, on disconnect: "removes user's field from the Redis   *)
(* presence hash".  When a disconnected socket has no call left, and none    *)
(* failed, it is in no hash.                                                 *)
GoneMeansAbsent ==
    \A s \in Sockets \ up :
       (\A c \in CallsOf(s) : call[c].at = "done") /\ CallsOf(s) # {}
       => \A r \in Rooms : presence[r][s] = "out"
=============================================================================
