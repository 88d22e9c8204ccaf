---------------------------- MODULE PresenceProofs ----------------------------
(***************************************************************************)
(* Proofs about Presence, for any sockets, sheets, instances and number of *)
(* calls.                                                                  *)
(*                                                                         *)
(* Comings says who is in a room and who has left: the types and stages of *)
(* the calls with the queues of the connections (Shape), the agreement of  *)
(* members, hash and map (Roll), and what a leave that interrupted nothing *)
(* leaves behind (Left).  PTypeOK and OrderlyLeave follow from it.         *)
(*                                                                         *)
(* Lists says what the clients list, and rests on the order in which Redis *)
(* answers (Ahead): a list taken by one join misses a member only if the   *)
(* member's own join takes its list later, and names somebody who is gone  *)
(* only if his leave is announced later.  ListsConverge is what remains of *)
(* it when no call is running.                                             *)
(***************************************************************************)
EXTENDS Presence, SequenceTheorems, TLAPS

\* Redis answers call d before call c.
Ahead(d, c) ==
    \E i \in Instances : \E j, k \in 1..Len(replies[i]) :
       j < k /\ replies[i][j] = d /\ replies[i][k] = c

\* The stages a call goes through.  A leave is of a socket that is gone, and a cursor call
\* read one field.
CallShape(c) == call[c] # Free =>
    /\ call[c].kind = "join" =>
         call[c].room \in Rooms /\ call[c].at \in {"hset", "expire", "list", "done", "failed"}
    /\ call[c].kind = "leave" =>
         /\ call[c].socket \notin up
         /\ call[c].at \in {"hdel", "hlen", "del", "done", "failed"}
         /\ call[c].room = NoRoom => call[c].at = "done"
    /\ call[c].kind = "cursor" =>
         /\ call[c].room \in Rooms /\ call[c].at \in {"hget", "done", "failed"}
         /\ call[c].got \subseteq {call[c].socket}

\* A call that runs waits once, on the connection of its instance; nothing else waits.
Queue ==
    /\ \A i \in Instances : \A k \in 1..Len(replies[i]) :
         Running(replies[i][k]) /\ Home[call[replies[i][k]].socket] = i
    /\ \A i \in Instances : \A j, k \in 1..Len(replies[i]) :
         replies[i][j] = replies[i][k] => j = k
    /\ \A c \in Calls : Running(c) =>
         \E k \in 1..Len(replies[Home[call[c].socket]]) :
            replies[Home[call[c].socket]][k] = c

\* The members of a room are the connected sockets that opened it; the hashes, the map and
\* the cursor calls speak of rooms that were opened; and a member is in the hash, unless
\* the hash was deleted under it.
Roll ==
    /\ \A s \in Sockets, r \in Rooms : s \in members[r] <=> s \in up /\ r \in RoomsOf(s)
    /\ \A s \in Sockets, r \in Rooms : presence[r][s] # "out" => r \in RoomsOf(s)
    /\ \A s \in Sockets : meta[s] # NoRoom => meta[s] \in RoomsOf(s)
    /\ \A c \in Calls, s \in Sockets :
         call[c] # Free /\ call[c].kind = "cursor" /\ call[c].socket = s =>
           call[c].room \in RoomsOf(s)
    /\ \A s \in Sockets, r \in Rooms :
         s \in members[r] /\ r \notin wiped => presence[r][s] # "out"

\* A socket that is gone has a leave or was hasty.  Beside the leave of one that was not
\* hasty no call of it runs, the field is out of the hash, and in the end the map entry goes.
Left ==
    /\ \A s \in Sockets \ up :
         s \in hasty \/ \E c \in CallsOf(s) : call[c].kind = "leave"
    /\ \A c \in Calls, s \in Sockets \ hasty :
         call[c] # Free /\ call[c].kind = "leave" /\ call[c].socket = s =>
           /\ \A d \in CallsOf(s) : d # c => ~Running(d)
           /\ call[c].room # NoRoom => presence[call[c].room][s] = "out"
           /\ call[c].at = "done" => meta[s] = NoRoom

\* A join of the room has asked for the list it will show.
Listing(e, r) == Running(e) /\ call[e].kind = "join" /\ call[e].at = "list" /\ call[e].room = r

\* Guests are not listed, and a client that opened nothing lists nobody.
Unlisted == \A s \in Sockets :
    /\ shown[s] \cap Guests = {}
    /\ RoomsOf(s) = {} => shown[s] = {}

\* A list that was taken misses a member only if a join of the member takes its list
\* later, or failed.
TakenComplete == \A r \in Rooms \ wiped : OneHome(r) => \A e \in Calls : Listing(e, r) =>
      \A u \in members[r] : u \in call[e].got \/ ~Orderly(u) \/
         \E d \in Calls : Joining(d, u, r) /\ (call[d].at # "list" \/ Ahead(e, d))

\* A list that was taken names somebody who is not in the room only if he strayed, or his
\* leave is answered, and so told to the room, later.
TakenSound == \A r \in Rooms : OneHome(r) => \A e \in Calls : Listing(e, r) =>
      \A v \in call[e].got : v \in members[r] \/ Strayed(v, r) \/
         \E c \in Calls : Leaving(c, v, r) /\ Ahead(e, c)

\* The first group of invariants: types, the stages of a call, the queues.
Shape == PTypeOK /\ (\A c \in Calls : CallShape(c)) /\ Queue

\* The instance call c runs on.
HomeOf(c) == Home[call[c].socket]

\* A reply arrives: call c, the next on its connection, sends another command or ends.
Turn(c) ==
    /\ Running(c) /\ Head(replies[HomeOf(c)]) = c
    /\ call' = [call EXCEPT ![c] = call'[c]]
    /\ call'[c] \in Record
    /\ call'[c].kind = call[c].kind /\ call'[c].socket = call[c].socket
    /\ call'[c].room = call[c].room
    /\ up' = up /\ members' = members /\ hasty' = hasty
    /\ \/ Running(c)' /\ Resend(c)
       \/ ~Running(c)' /\ Receive(c)

-----------------------------------------------------------------------------
(* What the steps do to the calls.                                         *)

\* A call that was made is a record.
LEMMA CallRecord ==
    ASSUME PTypeOK, NEW c \in Calls, call[c] # Free
    PROVE  /\ call[c] \in Record /\ call[c].socket \in Sockets
           /\ call[c].room \in Rooms \cup {NoRoom} /\ call[c].got \subseteq Sockets
           /\ call[c].kind \in Kinds
<1>1. call[c] \in Record
  BY DEF PTypeOK
<1> QED BY <1>1 DEF Record

\* What the two ways of changing a call do to it.
LEMMA GotoEffect ==
    ASSUME PTypeOK, NEW c \in Calls, call[c] # Free,
           NEW x \in {"hset", "expire", "list", "hdel", "hlen", "del", "hget", "done", "failed"},
           Goto(c, x)
    PROVE  /\ call' = [call EXCEPT ![c] = call'[c]]
           /\ call'[c] \in Record /\ call'[c].at = x /\ call'[c].got = call[c].got
           /\ call'[c].kind = call[c].kind /\ call'[c].socket = call[c].socket
           /\ call'[c].room = call[c].room
<1>1. call[c] \in Record /\ call \in [Calls -> Record \cup {Free}]
  BY CallRecord DEF PTypeOK
<1>2. call' = [call EXCEPT ![c] = [call[c] EXCEPT !.at = x]]
  BY DEF Goto
<1>3. call'[c] = [call[c] EXCEPT !.at = x]
  BY <1>1, <1>2
<1> QED BY <1>1, <1>2, <1>3 DEF Record

\* A call ends.
LEMMA EndEffect ==
    ASSUME PTypeOK, NEW c \in Calls, call[c] # Free, NEW x \in {"done", "failed"}, End(c, x)
    PROVE  /\ call' = [call EXCEPT ![c] = call'[c]]
           /\ call'[c] \in Record /\ call'[c].at = x /\ call'[c].got = {}
           /\ call'[c].kind = call[c].kind /\ call'[c].socket = call[c].socket
           /\ call'[c].room = call[c].room
<1>1. call[c] \in Record /\ call \in [Calls -> Record \cup {Free}]
  BY CallRecord DEF PTypeOK
<1> DEFINE one == [call EXCEPT ![c] = [call[c] EXCEPT !.at = x]]
<1>2. call' = [one EXCEPT ![c] = [one[c] EXCEPT !.got = {}]]
  BY DEF End
<1>3. one[c] = [call[c] EXCEPT !.at = x]
  BY <1>1
<1>4. call' = [call EXCEPT ![c] = [one[c] EXCEPT !.got = {}]]
  BY <1>1, <1>2
<1>5. call'[c] = [[call[c] EXCEPT !.at = x] EXCEPT !.got = {}]
  BY <1>1, <1>3, <1>4
<1>6. call' = [call EXCEPT ![c] = call'[c]]
  BY <1>1, <1>4
<1> HIDE DEF one
<1> QED BY <1>1, <1>5, <1>6 DEF Record

\* A list is taken into got.
LEMMA GotEffect ==
    ASSUME PTypeOK, NEW c \in Calls, call[c] # Free, NEW x \in {"list", "hlen"},
           NEW S \in SUBSET Sockets,
           call' = [call EXCEPT ![c].at = x, ![c].got = S]
    PROVE  /\ call' = [call EXCEPT ![c] = call'[c]]
           /\ call'[c] \in Record /\ call'[c].at = x /\ call'[c].got = S
           /\ call'[c].kind = call[c].kind /\ call'[c].socket = call[c].socket
           /\ call'[c].room = call[c].room
<1>1. call[c] \in Record /\ call \in [Calls -> Record \cup {Free}]
  BY CallRecord DEF PTypeOK
<1> DEFINE one == [call EXCEPT ![c] = [call[c] EXCEPT !.at = x]]
<1>2. call' = [one EXCEPT ![c] = [one[c] EXCEPT !.got = S]]
  OBVIOUS
<1>3. one[c] = [call[c] EXCEPT !.at = x]
  BY <1>1
<1>4. call' = [call EXCEPT ![c] = [one[c] EXCEPT !.got = S]]
  BY <1>1, <1>2
<1>5. call'[c] = [[call[c] EXCEPT !.at = x] EXCEPT !.got = S]
  BY <1>1, <1>3, <1>4
<1>6. call' = [call EXCEPT ![c] = call'[c]]
  BY <1>1, <1>4
<1> HIDE DEF one
<1> QED BY <1>1, <1>5, <1>6 DEF Record

\* The calls that take a turn, and where it leaves them.
LEMMA Turns ==
    ASSUME PTypeOK, NEW c \in Calls
    PROVE  /\ JoinExpire(c) => /\ Turn(c) /\ call[c].kind = "join" /\ call[c].at = "hset"
                               /\ call'[c].at = "expire" /\ call'[c].got = call[c].got
           /\ JoinList(c)   => /\ Turn(c) /\ call[c].kind = "join" /\ call[c].at = "expire"
                               /\ call'[c].at = "list" /\ call'[c].got = Listed(call[c].room)
           /\ JoinDone(c)   => /\ Turn(c) /\ call[c].kind = "join" /\ call[c].at = "list"
                               /\ call'[c].at = "done" /\ call'[c].got = {}
           /\ LeaveCount(c) => /\ Turn(c) /\ call[c].kind = "leave" /\ call[c].at = "hdel"
                               /\ call'[c].at = "hlen" /\ call'[c].got = Listed(call[c].room)
           /\ LeaveDrop(c)  => /\ Turn(c) /\ call[c].kind = "leave" /\ call[c].at = "hlen"
                               /\ call'[c].at = "del" /\ call'[c].got = call[c].got
           /\ LeaveDone(c)  => /\ Turn(c) /\ call[c].kind = "leave"
                               /\ call[c].at \in {"del", "hlen"}
                               /\ call'[c].at = "done" /\ call'[c].got = {}
           /\ CursorSet(c)  => /\ Turn(c) /\ call[c].kind = "cursor" /\ call[c].at = "hget"
                               /\ call'[c].at = "done" /\ call'[c].got = {}
           /\ Fail(c)       => Turn(c) /\ call'[c].at = "failed" /\ call'[c].got = {}
<1>a. call'[c] \in Record => call'[c] # Free
  BY FreeAssumption
<1>b. \A r : Listed(r) \in SUBSET Sockets
  BY DEF Listed
<1> USE <1>a DEF Turn, Replied, Running, HomeOf
<1>1. JoinExpire(c) => /\ Turn(c) /\ call[c].kind = "join" /\ call[c].at = "hset"
                       /\ call'[c].at = "expire" /\ call'[c].got = call[c].got
  BY GotoEffect DEF JoinExpire
<1>2. JoinList(c)   => /\ Turn(c) /\ call[c].kind = "join" /\ call[c].at = "expire"
                       /\ call'[c].at = "list" /\ call'[c].got = Listed(call[c].room)
  <2> SUFFICES ASSUME JoinList(c)
               PROVE  /\ Turn(c) /\ call[c].kind = "join" /\ call[c].at = "expire"
                      /\ call'[c].at = "list" /\ call'[c].got = Listed(call[c].room)
    OBVIOUS
  <2> DEFINE S == Listed(call[c].room)
  <2>1. S \in SUBSET Sockets
    BY <1>b
  <2>2. call' = [call EXCEPT ![c].at = "list", ![c].got = S]
    BY DEF JoinList
  <2>3. /\ call[c] # Free /\ call[c].kind = "join" /\ call[c].at = "expire"
        /\ Head(replies[HomeOf(c)]) = c /\ Resend(c)
        /\ up' = up /\ members' = members /\ hasty' = hasty
    BY DEF JoinList
  <2> HIDE DEF S
  <2>4. /\ call' = [call EXCEPT ![c] = call'[c]]
        /\ call'[c] \in Record /\ call'[c].at = "list" /\ call'[c].got = S
        /\ call'[c].kind = call[c].kind /\ call'[c].socket = call[c].socket
        /\ call'[c].room = call[c].room
    BY <2>1, <2>2, <2>3, GotEffect
  <2> QED BY <2>3, <2>4 DEF S
<1>3. JoinDone(c)   => /\ Turn(c) /\ call[c].kind = "join" /\ call[c].at = "list"
                       /\ call'[c].at = "done" /\ call'[c].got = {}
  BY EndEffect DEF JoinDone
<1>4. LeaveCount(c)   => /\ Turn(c) /\ call[c].kind = "leave" /\ call[c].at = "hdel"
                       /\ call'[c].at = "hlen" /\ call'[c].got = Listed(call[c].room)
  <2> SUFFICES ASSUME LeaveCount(c)
               PROVE  /\ Turn(c) /\ call[c].kind = "leave" /\ call[c].at = "hdel"
                      /\ call'[c].at = "hlen" /\ call'[c].got = Listed(call[c].room)
    OBVIOUS
  <2> DEFINE S == Listed(call[c].room)
  <2>1. S \in SUBSET Sockets
    BY <1>b
  <2>2. call' = [call EXCEPT ![c].at = "hlen", ![c].got = S]
    BY DEF LeaveCount
  <2>3. /\ call[c] # Free /\ call[c].kind = "leave" /\ call[c].at = "hdel"
        /\ Head(replies[HomeOf(c)]) = c /\ Resend(c)
        /\ up' = up /\ members' = members /\ hasty' = hasty
    BY DEF LeaveCount
  <2> HIDE DEF S
  <2>4. /\ call' = [call EXCEPT ![c] = call'[c]]
        /\ call'[c] \in Record /\ call'[c].at = "hlen" /\ call'[c].got = S
        /\ call'[c].kind = call[c].kind /\ call'[c].socket = call[c].socket
        /\ call'[c].room = call[c].room
    BY <2>1, <2>2, <2>3, GotEffect
  <2> QED BY <2>3, <2>4 DEF S
<1>5. LeaveDrop(c)  => /\ Turn(c) /\ call[c].kind = "leave" /\ call[c].at = "hlen"
                       /\ call'[c].at = "del" /\ call'[c].got = call[c].got
  BY GotoEffect DEF LeaveDrop
<1>6. LeaveDone(c)  => /\ Turn(c) /\ call[c].kind = "leave"
                       /\ call[c].at \in {"del", "hlen"}
                       /\ call'[c].at = "done" /\ call'[c].got = {}
  BY EndEffect DEF LeaveDone
<1>7. CursorSet(c)  => /\ Turn(c) /\ call[c].kind = "cursor" /\ call[c].at = "hget"
                       /\ call'[c].at = "done" /\ call'[c].got = {}
  BY EndEffect DEF CursorSet
<1>8. Fail(c)       => Turn(c) /\ call'[c].at = "failed" /\ call'[c].got = {}
  BY EndEffect DEF Fail
<1> QED BY <1>1, <1>2, <1>3, <1>4, <1>5, <1>6, <1>7, <1>8

-----------------------------------------------------------------------------
(* The queues of the connections.                                          *)

\* A running call waits in the queue of its instance.
LEMMA Waits ==
    ASSUME Shape, NEW c \in Calls, Running(c)
    PROVE  /\ HomeOf(c) \in Instances /\ replies[HomeOf(c)] \in Seq(Calls)
           /\ \E k \in 1..Len(replies[HomeOf(c)]) : replies[HomeOf(c)][k] = c
<1>1. HomeOf(c) \in Instances
  BY CallRecord, HomeAssumption DEF Shape, Running, HomeOf
<1> QED BY <1>1 DEF Shape, PTypeOK, Queue, HomeOf

\* What a turn does to the queue of its instance.
LEMMA TurnQueue ==
    ASSUME Shape, NEW c \in Calls, Turn(c)
    PROVE  LET i == HomeOf(c) IN
           /\ i \in Instances /\ replies[i][1] = c
           /\ replies' \in [Instances -> Seq(Calls)]
           /\ \A j \in Instances \ {i} : replies'[j] = replies[j]
           /\ Len(replies[i]) \in Nat \ {0}
           /\ \A k \in 1..Len(replies[i]) - 1 :
                k \in 1..Len(replies'[i]) /\ replies'[i][k] = replies[i][k + 1]
           /\ ~Running(c)' => Len(replies'[i]) = Len(replies[i]) - 1
           /\ Running(c)' => /\ Len(replies'[i]) = Len(replies[i])
                             /\ replies'[i][Len(replies[i])] = c
<1> DEFINE i == HomeOf(c)
<1>1. i \in Instances /\ replies \in [Instances -> Seq(Calls)]
  BY Waits DEF Turn, Shape, PTypeOK
<1>2. replies[i] \in Seq(Calls) /\ Len(replies[i]) \in Nat \ {0} /\ Head(replies[i]) = c
  BY Waits DEF Turn
<1>3. /\ Running(c)' => replies' = [replies EXCEPT ![i] = Append(Tail(@), c)]
      /\ ~Running(c)' => replies' = [replies EXCEPT ![i] = Tail(@)]
  BY DEF Turn, Resend, Receive, HomeOf
<1> HIDE DEF i
<1> DEFINE q == replies[i]
<1>4. /\ Running(c)' => replies'[i] = Append(Tail(q), c)
      /\ ~Running(c)' => replies'[i] = Tail(q)
      /\ \A j \in Instances \ {i} : replies'[j] = replies[j]
  BY <1>1, <1>3
<1>5. Tail(q) \in Seq(Calls) /\ Append(Tail(q), c) \in Seq(Calls)
  BY <1>2
<1>6. replies' \in [Instances -> Seq(Calls)]
  BY <1>1, <1>3, <1>5
<1>7. /\ Len(Tail(q)) = Len(q) - 1 /\ q[1] = c
      /\ \A k \in 1..Len(q) - 1 : Tail(q)[k] = q[k + 1]
  BY <1>2
<1>8. /\ Len(Append(Tail(q), c)) = Len(q) /\ Append(Tail(q), c)[Len(q)] = c
      /\ \A k \in 1..Len(q) - 1 : Append(Tail(q), c)[k] = Tail(q)[k]
  BY <1>2, <1>5, <1>7
<1> HIDE DEF q
<1>9. \A k \in 1..Len(q) - 1 : k \in 1..Len(replies'[i]) /\ replies'[i][k] = q[k + 1]
  <2>1. CASE Running(c)'
    BY <1>2, <1>4, <1>7, <1>8, <2>1, SMTT(25) DEF q
  <2>2. CASE ~Running(c)'
    BY <1>2, <1>4, <1>7, <2>2 DEF q
  <2> QED BY <2>1, <2>2
<1> QED BY <1>1, <1>2, <1>4, <1>6, <1>7, <1>8, <1>9 DEF q, i

\* In a turn the queue keeps its shape and its order; c is behind everybody afterwards.
LEMMA QueueTurn ==
    ASSUME Shape, NEW c \in Calls, Turn(c)
    PROVE  /\ Queue'
           /\ \A d \in Calls : ~Ahead(d, c)
           /\ \A d, e \in Calls : e # c /\ d # c /\ Ahead(d, e) => Ahead(d, e)'
           /\ \A d \in Calls : /\ Running(c)' /\ d # c /\ Running(d) /\ HomeOf(d) = HomeOf(c)
                               => Ahead(d, c)'
<1> PICK i : i = HomeOf(c)
  OBVIOUS
<1> PICK n : n = Len(replies[i])
  OBVIOUS
<1>1. /\ i \in Instances /\ replies[i][1] = c
      /\ \A j \in Instances \ {i} : replies'[j] = replies[j]
      /\ n \in Nat \ {0}
      /\ \A k \in 1..n - 1 : k \in 1..Len(replies'[i]) /\ replies'[i][k] = replies[i][k + 1]
      /\ ~Running(c)' => Len(replies'[i]) = n - 1
      /\ Running(c)' => Len(replies'[i]) = n /\ replies'[i][n] = c
  BY TurnQueue
<1>2. /\ \A j \in Instances : \A k \in 1..Len(replies[j]) :
           /\ replies[j][k] \in Calls /\ Running(replies[j][k])
           /\ HomeOf(replies[j][k]) = j
      /\ \A j \in Instances : \A k, l \in 1..Len(replies[j]) :
           replies[j][k] = replies[j][l] => k = l
      /\ \A d \in Calls : Running(d) =>
           /\ HomeOf(d) \in Instances
           /\ \E k \in 1..Len(replies[HomeOf(d)]) : replies[HomeOf(d)][k] = d
  <2>1. \A j \in Instances : replies[j] \in Seq(Calls)
    BY DEF Shape, PTypeOK
  <2>2. \A j \in Instances : \A k \in 1..Len(replies[j]) : replies[j][k] \in Calls
    BY <2>1
  <2>3. \A d \in Calls : Running(d) => HomeOf(d) \in Instances
    BY Waits
  <2> QED BY <2>2, <2>3 DEF Shape, Queue, HomeOf
<1>3. /\ \A d \in Calls \ {c} : call'[d] = call[d]
      /\ HomeOf(c)' = i /\ Running(c)
  BY DEF Turn, Shape, PTypeOK, HomeOf
<1>4. \A d \in Calls \ {c} : Running(d)' = Running(d) /\ HomeOf(d)' = HomeOf(d)
  BY <1>3 DEF Running, HomeOf
<1>5. \A k \in 1..Len(replies'[i]) :
        \/ k \in 1..n - 1 /\ replies'[i][k] = replies[i][k + 1] /\ replies'[i][k] \in Calls \ {c}
        \/ k = n /\ replies'[i][k] = c /\ Running(c)'
  <2> SUFFICES ASSUME NEW k \in 1..Len(replies'[i])
               PROVE  \/ /\ k \in 1..n - 1 /\ replies'[i][k] = replies[i][k + 1]
                         /\ replies'[i][k] \in Calls \ {c}
                      \/ k = n /\ replies'[i][k] = c /\ Running(c)'
    OBVIOUS
  <2>1. k \in 1..n - 1 \/ (k = n /\ Running(c)')
    BY <1>1
  <2>2. CASE k \in 1..n - 1
    <3>1. k + 1 \in 1..n /\ 1 \in 1..n /\ k + 1 # 1
      BY <1>1, <2>2
    <3>2. replies[i][k + 1] \in Calls /\ replies[i][k + 1] # c
      BY <1>1, <1>2, <3>1
    <3> QED BY <1>1, <2>2, <3>2
  <2> QED BY <1>1, <2>1, <2>2
<1>6. Queue'
  <2>1. ASSUME NEW j \in Instances, NEW k \in 1..Len(replies'[j])
        PROVE  Running(replies[j][k])' /\ Home[call'[replies'[j][k]].socket] = j
    <3> PICK d : d = replies'[j][k]
      OBVIOUS
    <3>1. d \in Calls /\ Running(d)' /\ HomeOf(d)' = j
      <4>1. CASE j = i
        <5>1. CASE d = c
          BY <1>3, <1>5, <4>1, <5>1
        <5>2. CASE d # c
          <6>1. k \in 1..n - 1 /\ d = replies[i][k + 1] /\ d \in Calls \ {c}
            BY <1>5, <4>1, <5>2
          <6>2. k + 1 \in 1..n
            BY <1>1, <6>1
          <6> QED BY <1>1, <1>2, <1>4, <4>1, <6>1, <6>2
        <5> QED BY <5>1, <5>2
      <4>2. CASE j # i
        <5>1. d \in Calls /\ Running(d) /\ HomeOf(d) = j
          BY <1>1, <1>2, <4>2
        <5> QED BY <1>4, <4>2, <5>1
      <4> QED BY <4>1, <4>2
    <3> QED BY <3>1 DEF HomeOf, Running
  <2>2. ASSUME NEW j \in Instances, NEW k \in 1..Len(replies'[j]), NEW l \in 1..Len(replies'[j]),
               replies'[j][k] = replies'[j][l]
        PROVE  k = l
    <3>1. CASE j = i
      <4>1. CASE replies'[i][k] = c
        BY <1>5, <2>2, <3>1, <4>1
      <4>2. CASE replies'[i][k] # c
        <5>1. /\ k \in 1..n - 1 /\ replies'[i][k] = replies[i][k + 1]
              /\ l \in 1..n - 1 /\ replies'[i][l] = replies[i][l + 1]
          BY <1>5, <2>2, <3>1, <4>2
        <5>2. k + 1 \in 1..n /\ l + 1 \in 1..n
          BY <1>1, <5>1
        <5>3. k + 1 = l + 1
          BY <1>1, <1>2, <2>2, <3>1, <5>1, <5>2
        <5> QED BY <5>1, <5>3
      <4> QED BY <4>1, <4>2
    <3>2. CASE j # i
      BY <1>1, <1>2, <2>2, <3>2
    <3> QED BY <3>1, <3>2
  <2>3. ASSUME NEW d \in Calls, Running(d)'
        PROVE  \E k \in 1..Len(replies'[HomeOf(d)']) : replies'[HomeOf(d)'][k] = d
    <3>1. CASE d = c
      <4>1. n \in 1..Len(replies'[i]) /\ replies'[i][n] = c
        BY <1>1, <2>3, <3>1
      <4> QED BY <1>3, <3>1, <4>1
    <3>2. CASE d # c /\ HomeOf(d) = i
      <4>1. PICK k \in 1..n : replies[i][k] = d
        BY <1>2, <1>4, <2>3, <3>2
      <4>2. k - 1 \in 1..n - 1 /\ (k - 1) + 1 = k
        BY <1>1, <3>2, <4>1
      <4>3. k - 1 \in 1..Len(replies'[i]) /\ replies'[i][k - 1] = d
        BY <1>1, <4>1, <4>2
      <4> QED BY <1>4, <3>2, <4>3
    <3>3. CASE d # c /\ HomeOf(d) # i
      BY <1>1, <1>2, <1>4, <2>3, <3>3
    <3> QED BY <3>1, <3>2, <3>3
  <2>4. \A d \in Calls : HomeOf(d)' = Home[call'[d].socket]
    BY DEF HomeOf
  <2> QED BY <2>1, <2>2, <2>3, <2>4 DEF Queue
<1>7. ASSUME NEW d \in Calls, Ahead(d, c) PROVE FALSE
  <2>1. PICK j \in Instances : \E k, l \in 1..Len(replies[j]) :
          k < l /\ replies[j][k] = d /\ replies[j][l] = c
    BY <1>7 DEF Ahead
  <2>2. PICK k \in 1..Len(replies[j]), l \in 1..Len(replies[j]) :
          k < l /\ replies[j][k] = d /\ replies[j][l] = c
    BY <2>1
  <2>3. j = i
    BY <1>2, <2>2
  <2>4. 1 \in 1..Len(replies[i]) /\ l # 1
    BY <1>1, <2>2
  <2> QED BY <1>1, <1>2, <2>2, <2>3, <2>4
<1>8. ASSUME NEW d \in Calls, NEW e \in Calls, e # c, d # c, Ahead(d, e) PROVE Ahead(d, e)'
  <2>1. PICK j \in Instances : \E k, l \in 1..Len(replies[j]) :
          k < l /\ replies[j][k] = d /\ replies[j][l] = e
    BY <1>8 DEF Ahead
  <2>2. PICK k \in 1..Len(replies[j]), l \in 1..Len(replies[j]) :
          k < l /\ replies[j][k] = d /\ replies[j][l] = e
    BY <2>1
  <2>3. CASE j = i
    <3>1. k # 1 /\ k \in 1..n /\ l \in 1..n /\ k < l
      BY <1>1, <1>8, <2>2, <2>3
    <3>2. /\ k - 1 \in 1..n - 1 /\ l - 1 \in 1..n - 1 /\ k - 1 < l - 1
          /\ (k - 1) + 1 = k /\ (l - 1) + 1 = l
      <4>1. n \in Nat
        BY <1>1
      <4> QED BY <3>1, <4>1
    <3>3. /\ k - 1 \in 1..Len(replies'[i]) /\ replies'[i][k - 1] = d
          /\ l - 1 \in 1..Len(replies'[i]) /\ replies'[i][l - 1] = e
      BY <1>1, <2>2, <2>3, <3>2
    <3> QED BY <1>1, <3>2, <3>3 DEF Ahead
  <2>4. CASE j # i
    BY <1>1, <2>2, <2>4 DEF Ahead
  <2> QED BY <2>3, <2>4
<1>9. ASSUME NEW d \in Calls, Running(c)', d # c, Running(d), HomeOf(d) = i PROVE Ahead(d, c)'
  <2>1. PICK k \in 1..n : replies[i][k] = d
    BY <1>2, <1>9
  <2>2. k - 1 \in 1..n - 1 /\ (k - 1) + 1 = k
    BY <1>1, <1>9, <2>1
  <2>3. /\ k - 1 \in 1..Len(replies'[i]) /\ replies'[i][k - 1] = d
        /\ n \in 1..Len(replies'[i]) /\ replies'[i][n] = c /\ k - 1 < n
    BY <1>1, <1>9, <2>1, <2>2
  <2> QED BY <1>1, <2>3 DEF Ahead
<1> QED BY <1>6, <1>7, <1>8, <1>9

\* A call is made: it is a record now, of socket s, and waits behind everybody.
Begin(c, s) ==
    /\ s \in Sockets /\ call[c] = Free
    /\ call' = [call EXCEPT ![c] = call'[c]]
    /\ call'[c] \in Record /\ call'[c].socket = s

\* Beginning a call keeps the shape and the order of the queues; the new call is behind
\* everybody on its connection.
LEMMA QueueBegin ==
    ASSUME Shape, NEW c \in Calls, NEW s, Begin(c, s), Running(c)', Send(c, s)
    PROVE  /\ Queue' /\ replies' \in [Instances -> Seq(Calls)]
           /\ \A d, e \in Calls : Ahead(d, e) => Ahead(d, e)'
           /\ \A d \in Calls : Running(d) /\ HomeOf(d) = Home[s] => Ahead(d, c)'
<1> PICK i : i = Home[s]
  OBVIOUS
<1>1. i \in Instances /\ replies \in [Instances -> Seq(Calls)] /\ s \in Sockets
  BY HomeAssumption DEF Begin, Shape, PTypeOK
<1> PICK n : n = Len(replies[i])
  OBVIOUS
<1>2. n \in Nat
  BY <1>1
<1>3. /\ replies' = [replies EXCEPT ![i] = Append(replies[i], c)]
      /\ replies'[i] = Append(replies[i], c)
      /\ \A j \in Instances \ {i} : replies'[j] = replies[j]
  BY <1>1 DEF Send
<1>4. Append(replies[i], c) \in Seq(Calls)
  BY <1>1
<1>5. /\ Len(replies'[i]) = n + 1 /\ replies'[i][n + 1] = c
      /\ \A k \in 1..n : replies'[i][k] = replies[i][k]
  BY <1>1, <1>3
<1>6. /\ \A j \in Instances : \A k \in 1..Len(replies[j]) :
           /\ replies[j][k] \in Calls /\ Running(replies[j][k])
           /\ HomeOf(replies[j][k]) = j
      /\ \A j \in Instances : \A k, l \in 1..Len(replies[j]) :
           replies[j][k] = replies[j][l] => k = l
      /\ \A d \in Calls : Running(d) =>
           /\ HomeOf(d) \in Instances
           /\ \E k \in 1..Len(replies[HomeOf(d)]) : replies[HomeOf(d)][k] = d
  <2>1. \A j \in Instances : \A k \in 1..Len(replies[j]) : replies[j][k] \in Calls
    BY <1>1
  <2>2. \A d \in Calls : Running(d) => HomeOf(d) \in Instances
    BY Waits
  <2> QED BY <2>1, <2>2 DEF Shape, Queue, HomeOf
<1>7. /\ \A d \in Calls \ {c} : call'[d] = call[d]
      /\ HomeOf(c)' = i /\ ~Running(c)
  BY DEF Begin, Shape, PTypeOK, HomeOf, Running
<1>8. \A d \in Calls \ {c} : Running(d)' = Running(d) /\ HomeOf(d)' = HomeOf(d)
  BY <1>7 DEF Running, HomeOf
<1>9. \A j \in Instances : \A k \in 1..Len(replies[j]) :
        k \in 1..Len(replies'[j]) /\ replies'[j][k] = replies[j][k] /\ replies[j][k] # c
  <2> SUFFICES ASSUME NEW j \in Instances, NEW k \in 1..Len(replies[j])
               PROVE  /\ k \in 1..Len(replies'[j])
                      /\ replies'[j][k] = replies[j][k] /\ replies[j][k] # c
    OBVIOUS
  <2>1. replies[j][k] # c
    BY <1>6, <1>7
  <2>2. CASE j = i
    BY <1>2, <1>5, <2>1, <2>2
  <2>3. CASE j # i
    BY <1>3, <2>1, <2>3
  <2> QED BY <2>2, <2>3
<1>10. \A j \in Instances : \A k \in 1..Len(replies'[j]) :
         \/ k \in 1..Len(replies[j]) /\ replies'[j][k] = replies[j][k]
         \/ j = i /\ k = n + 1 /\ replies'[j][k] = c
  <2> SUFFICES ASSUME NEW j \in Instances, NEW k \in 1..Len(replies'[j])
               PROVE  \/ k \in 1..Len(replies[j]) /\ replies'[j][k] = replies[j][k]
                      \/ j = i /\ k = n + 1 /\ replies'[j][k] = c
    OBVIOUS
  <2>1. CASE j = i
    BY <1>2, <1>5, <2>1
  <2>2. CASE j # i
    BY <1>3, <2>2
  <2> QED BY <2>1, <2>2
<1>a. \A j \in Instances : \A k \in 1..Len(replies'[j]) :
        replies'[j][k] = c => j = i /\ k = n + 1
  BY <1>9, <1>10
<1>11. Queue'
  <2>1. ASSUME NEW j \in Instances, NEW k \in 1..Len(replies'[j])
        PROVE  Running(replies[j][k])' /\ Home[call'[replies'[j][k]].socket] = j
    <3> PICK d : d = replies'[j][k]
      OBVIOUS
    <3>1. Running(d)' /\ HomeOf(d)' = j
      <4>1. CASE d = c
        BY <1>7, <1>a, <4>1
      <4>2. CASE d # c
        <5>1. k \in 1..Len(replies[j]) /\ d = replies[j][k]
          BY <1>10, <4>2
        <5> QED BY <1>6, <1>8, <4>2, <5>1
      <4> QED BY <4>1, <4>2
    <3> QED BY <3>1 DEF HomeOf, Running
  <2>2. ASSUME NEW j \in Instances, NEW k \in 1..Len(replies'[j]), NEW l \in 1..Len(replies'[j]),
               replies'[j][k] = replies'[j][l]
        PROVE  k = l
    <3>1. CASE replies'[j][k] = c
      BY <1>a, <2>2, <3>1
    <3>2. CASE replies'[j][k] # c
      <4>1. /\ k \in 1..Len(replies[j]) /\ replies'[j][k] = replies[j][k]
            /\ l \in 1..Len(replies[j]) /\ replies'[j][l] = replies[j][l]
        BY <1>10, <2>2, <3>2
      <4> QED BY <1>6, <2>2, <4>1
    <3> QED BY <3>1, <3>2
  <2>3. ASSUME NEW d \in Calls, Running(d)'
        PROVE  \E k \in 1..Len(replies'[HomeOf(d)']) : replies'[HomeOf(d)'][k] = d
    <3>1. CASE d = c
      <4>1. n + 1 \in 1..Len(replies'[i]) /\ replies'[i][n + 1] = c
        BY <1>2, <1>5
      <4> QED BY <1>7, <3>1, <4>1
    <3>2. CASE d # c
      BY <1>6, <1>8, <1>9, <2>3, <3>2
    <3> QED BY <3>1, <3>2
  <2>4. \A d \in Calls : HomeOf(d)' = Home[call'[d].socket]
    BY DEF HomeOf
  <2> QED BY <2>1, <2>2, <2>3, <2>4 DEF Queue
<1>12. ASSUME NEW d \in Calls, NEW e \in Calls, Ahead(d, e) PROVE Ahead(d, e)'
  <2>1. PICK j \in Instances : \E k, l \in 1..Len(replies[j]) :
          k < l /\ replies[j][k] = d /\ replies[j][l] = e
    BY <1>12 DEF Ahead
  <2>2. PICK k \in 1..Len(replies[j]), l \in 1..Len(replies[j]) :
          k < l /\ replies[j][k] = d /\ replies[j][l] = e
    BY <2>1
  <2>3. /\ k \in 1..Len(replies'[j]) /\ replies'[j][k] = d
        /\ l \in 1..Len(replies'[j]) /\ replies'[j][l] = e
    BY <1>9, <2>2
  <2> QED BY <2>2, <2>3 DEF Ahead
<1>13. ASSUME NEW d \in Calls, Running(d), HomeOf(d) = i PROVE Ahead(d, c)'
  <2>1. PICK k \in 1..n : replies[i][k] = d
    BY <1>6, <1>13
  <2>2. /\ k \in 1..Len(replies'[i]) /\ replies'[i][k] = d
        /\ n + 1 \in 1..Len(replies'[i]) /\ replies'[i][n + 1] = c /\ k < n + 1
    BY <1>2, <1>5, <2>1
  <2> QED BY <1>1, <2>2 DEF Ahead
<1> QED BY <1>1, <1>3, <1>4, <1>11, <1>12, <1>13

\* Nothing is sent and no call runs on or is cut off.
LEMMA QueueStill ==
    ASSUME Shape, UNCHANGED replies,
           \A d \in Calls : (Running(d)' <=> Running(d)) /\ (Running(d) => call'[d] = call[d])
    PROVE  Queue' /\ \A d, e : Ahead(d, e) => Ahead(d, e)'
<1>1. \A i \in Instances : replies[i] \in Seq(Calls)
  BY DEF Shape, PTypeOK
<1>2. \A i \in Instances : \A k \in 1..Len(replies[i]) : replies[i][k] \in Calls
  BY <1>1
<1>3. ASSUME NEW i \in Instances, NEW k \in 1..Len(replies[i])
      PROVE  Running(replies[i][k])' /\ Home[call'[replies[i][k]].socket] = i
  <2> PICK d : d = replies[i][k]
    OBVIOUS
  <2>1. d \in Calls /\ Running(d) /\ Home[call[d].socket] = i
    BY <1>2 DEF Shape, Queue
  <2>2. Running(d)' /\ Home[call'[d].socket] = i
    BY <2>1
  <2> QED BY <2>2 DEF Running
<1>4. ASSUME NEW c \in Calls, Running(c)'
      PROVE  \E k \in 1..Len(replies[Home[call'[c].socket]]) :
                replies[Home[call'[c].socket]][k] = c
  BY <1>4 DEF Shape, Queue
<1> QED BY <1>3, <1>4 DEF Shape, Queue, Ahead

\* A process dies: its queue is gone and its calls are cut off.
LEMMA QueueCrash ==
    ASSUME Shape, NEW i \in Instances, CrashOf(i)
    PROVE  /\ Queue' /\ replies' \in [Instances -> Seq(Calls)]
           /\ \A c \in Calls : Running(c)' <=> Running(c) /\ HomeOf(c) # i
           /\ \A c \in Calls : Running(c)' => call'[c] = call[c]
           /\ \A c \in Calls : Running(c) /\ HomeOf(c) = i =>
                call'[c] = [call[c] EXCEPT !.at = "failed", !.got = {}]
           /\ \A c \in Calls : ~Running(c) => call'[c] = call[c]
           /\ \A d, e \in Calls : Ahead(d, e) /\ Running(e)' => Ahead(d, e)'
<1> DEFINE lost == {s \in Sockets : Home[s] = i /\ CallsOf(s) # {}}
<1>1. /\ replies' = [replies EXCEPT ![i] = <<>>]
      /\ call' = [c \in Calls |-> IF Running(c) /\ call[c].socket \in lost
                                  THEN [call[c] EXCEPT !.at = "failed", !.got = {}] ELSE call[c]]
  BY DEF CrashOf
<1>2. replies \in [Instances -> Seq(Calls)]
  BY DEF Shape, PTypeOK
<1>3. replies' \in [Instances -> Seq(Calls)]
  <2>1. <<>> \in Seq(Calls)
    OBVIOUS
  <2> HIDE DEF lost
  <2> QED BY <1>1, <1>2, <2>1
<1>4. \A c \in Calls : Running(c) => (call[c].socket \in lost <=> HomeOf(c) = i)
  <2> SUFFICES ASSUME NEW c \in Calls, Running(c)
               PROVE  call[c].socket \in lost <=> HomeOf(c) = i
    OBVIOUS
  <2>1. call[c].socket \in Sockets /\ c \in CallsOf(call[c].socket)
    BY CallRecord DEF Shape, Running, CallsOf
  <2> QED BY <2>1 DEF HomeOf
<1> HIDE DEF lost
<1>5. \A c \in Calls : ~Running(c) => call'[c] = call[c] /\ ~Running(c)'
  BY <1>1 DEF Running
<1>6. ASSUME NEW c \in Calls, Running(c), HomeOf(c) = i
      PROVE  call'[c] = [call[c] EXCEPT !.at = "failed", !.got = {}] /\ ~Running(c)'
  <2>1. call'[c] = [call[c] EXCEPT !.at = "failed", !.got = {}]
    BY <1>1, <1>4, <1>6
  <2>2. call[c] \in Record
    BY <1>6, CallRecord DEF Shape, Running
  <2>3. call'[c].at = "failed"
    <3>1. call'[c] = [[call[c] EXCEPT !.at = "failed"] EXCEPT !.got = {}]
      BY <2>1
    <3> QED BY <2>2, <3>1 DEF Record
  <2> QED BY <2>1, <2>3 DEF Running
<1>7. \A c \in Calls : Running(c) /\ HomeOf(c) # i => call'[c] = call[c] /\ Running(c)'
  BY <1>1, <1>4 DEF Running
<1>8. /\ \A c \in Calls : Running(c)' <=> Running(c) /\ HomeOf(c) # i
      /\ \A c \in Calls : Running(c)' => call'[c] = call[c]
  BY <1>5, <1>6, <1>7
<1>9. replies'[i] = <<>> /\ \A j \in Instances \ {i} : replies'[j] = replies[j]
  BY <1>1, <1>2
<1>10. \A j \in Instances : \A k \in 1..Len(replies[j]) :
         replies[j][k] \in Calls /\ Running(replies[j][k]) /\ HomeOf(replies[j][k]) = j
  BY <1>2 DEF Shape, Queue, HomeOf
<1>11. \A j \in Instances : \A k \in 1..Len(replies'[j]) :
         j # i /\ k \in 1..Len(replies[j]) /\ replies'[j][k] = replies[j][k]
  BY <1>9
<1>12. Queue'
  <2>1. ASSUME NEW j \in Instances, NEW k \in 1..Len(replies'[j])
        PROVE  Running(replies[j][k])' /\ Home[call'[replies'[j][k]].socket] = j
    <3> PICK d : d = replies'[j][k]
      OBVIOUS
    <3>1. d \in Calls /\ Running(d) /\ HomeOf(d) = j /\ j # i
      BY <1>10, <1>11
    <3>2. Running(d)' /\ call'[d] = call[d]
      BY <1>7, <3>1
    <3> QED BY <3>1, <3>2 DEF HomeOf, Running
  <2>2. \A j \in Instances : \A k, l \in 1..Len(replies'[j]) :
          replies'[j][k] = replies'[j][l] => k = l
    BY <1>11 DEF Shape, Queue
  <2>3. ASSUME NEW d \in Calls, Running(d)'
        PROVE  \E k \in 1..Len(replies'[Home[call'[d].socket]]) :
                  replies'[Home[call'[d].socket]][k] = d
    <3>1. Running(d) /\ HomeOf(d) # i /\ call'[d] = call[d]
      BY <1>8, <2>3
    <3>2. HomeOf(d) \in Instances
      BY <3>1, Waits
    <3>3. \E k \in 1..Len(replies[HomeOf(d)]) : replies[HomeOf(d)][k] = d
      BY <3>1, Waits
    <3> QED BY <1>9, <3>1, <3>2, <3>3 DEF HomeOf
  <2> QED BY <2>1, <2>2, <2>3 DEF Queue
<1>13. ASSUME NEW d \in Calls, NEW e \in Calls, Ahead(d, e), Running(e)' PROVE Ahead(d, e)'
  <2>1. PICK j \in Instances : \E k, l \in 1..Len(replies[j]) :
          k < l /\ replies[j][k] = d /\ replies[j][l] = e
    BY <1>13 DEF Ahead
  <2>2. j # i
    BY <1>8, <1>10, <1>13, <2>1
  <2> QED BY <1>9, <2>1, <2>2 DEF Ahead
<1> QED BY <1>3, <1>5, <1>6, <1>8, <1>12, <1>13

\* How calls begin.
LEMMA Begins ==
    ASSUME PTypeOK, NEW c \in Calls, NEW s \in Sockets
    PROVE  /\ \A r \in Visits[s] : Join(c, s, r) =>
                /\ Begin(c, s) /\ Running(c)' /\ Send(c, s) /\ r \in Rooms
                /\ call'[c].kind = "join" /\ call'[c].room = r /\ call'[c].at = "hset"
           /\ Cursor(c, s) =>
                /\ Begin(c, s) /\ Running(c)' /\ Send(c, s) /\ meta[s] \in Rooms
                /\ call'[c].kind = "cursor" /\ call'[c].room = meta[s] /\ call'[c].at = "hget"
                /\ call'[c].got = {s} \cap Listed(meta[s])
           /\ Disconnect(c, s) =>
                /\ Begin(c, s) /\ call'[c].kind = "leave" /\ call'[c].room = meta[s]
                /\ meta[s] = NoRoom => /\ call'[c].at = "done" /\ ~Running(c)'
                                       /\ UNCHANGED <<replies, presence>>
                /\ meta[s] # NoRoom => /\ call'[c].at = "hdel" /\ Running(c)' /\ Send(c, s)
                                       /\ meta[s] \in Rooms
                                       /\ presence' = [presence EXCEPT ![meta[s]][s] = "out"]
<1>1. ASSUME NEW k \in Kinds, NEW r \in Rooms \cup {NoRoom},
             NEW x \in {"hset", "hdel", "hget", "done"}, NEW S \in SUBSET Sockets,
             Start(c, k, s, r, x, S)
      PROVE  /\ Begin(c, s) /\ call'[c].kind = k /\ call'[c].room = r
             /\ call'[c].at = x /\ call'[c].got = S
             /\ Running(c)' <=> x # "done"
  <2> DEFINE rec == [kind |-> k, socket |-> s, room |-> r, at |-> x, got |-> S]
  <2>1. rec \in Record /\ rec.kind = k /\ rec.room = r /\ rec.at = x /\ rec.got = S
        /\ rec.socket = s
    BY DEF Record
  <2>2. call' = [call EXCEPT ![c] = rec] /\ call[c] = Free
    BY <1>1 DEF Start
  <2> HIDE DEF rec
  <2>3. call'[c] = rec
    BY <2>2 DEF PTypeOK
  <2>4. call'[c] # Free
    BY <2>1, <2>3, FreeAssumption
  <2> QED BY <2>1, <2>2, <2>3, <2>4 DEF Begin, Running
<1>2. meta[s] \in Rooms \cup {NoRoom} /\ {s} \cap Listed(meta[s]) \in SUBSET Sockets
  BY DEF PTypeOK
<1>3. ASSUME NEW r \in Visits[s], Join(c, s, r)
      PROVE  /\ Begin(c, s) /\ Running(c)' /\ Send(c, s) /\ r \in Rooms
             /\ call'[c].kind = "join" /\ call'[c].room = r /\ call'[c].at = "hset"
  <2>1. r \in Rooms
    BY VisitsAssumption
  <2>2. Start(c, "join", s, r, "hset", {}) /\ Send(c, s)
    BY <1>3 DEF Join
  <2> QED BY <1>1, <2>1, <2>2 DEF Kinds
<1>4. ASSUME Cursor(c, s)
      PROVE  /\ Begin(c, s) /\ Running(c)' /\ Send(c, s) /\ meta[s] \in Rooms
             /\ call'[c].kind = "cursor" /\ call'[c].room = meta[s] /\ call'[c].at = "hget"
             /\ call'[c].got = {s} \cap Listed(meta[s])
  <2> PICK S \in SUBSET Sockets : S = {s} \cap Listed(meta[s])
    BY <1>2
  <2>1. Start(c, "cursor", s, meta[s], "hget", S) /\ Send(c, s) /\ meta[s] # NoRoom
    BY <1>4 DEF Cursor
  <2> QED BY <1>1, <1>2, <2>1 DEF Kinds
<1>5. ASSUME Disconnect(c, s)
      PROVE  /\ Begin(c, s) /\ call'[c].kind = "leave" /\ call'[c].room = meta[s]
             /\ meta[s] = NoRoom => /\ call'[c].at = "done" /\ ~Running(c)'
                                    /\ UNCHANGED <<replies, presence>>
             /\ meta[s] # NoRoom => /\ call'[c].at = "hdel" /\ Running(c)' /\ Send(c, s)
                                    /\ meta[s] \in Rooms
                                    /\ presence' = [presence EXCEPT ![meta[s]][s] = "out"]
  <2>1. CASE meta[s] = NoRoom
    <3>1. Start(c, "leave", s, NoRoom, "done", {}) /\ UNCHANGED <<presence, replies>>
      BY <1>5, <2>1 DEF Disconnect
    <3> QED BY <1>1, <2>1, <3>1 DEF Kinds
  <2>2. CASE meta[s] # NoRoom
    <3>1. /\ Start(c, "leave", s, meta[s], "hdel", {}) /\ Send(c, s)
          /\ presence' = [presence EXCEPT ![meta[s]][s] = "out"]
      BY <1>5, <2>2 DEF Disconnect
    <3> QED BY <1>1, <1>2, <2>2, <3>1 DEF Kinds
  <2> QED BY <2>1, <2>2
<1> QED BY <1>3, <1>4, <1>5

\* A call stays the call it is; one that has ended stays as it ended.
CallKept(d) == call[d] # Free =>
    /\ call'[d] # Free /\ call'[d].kind = call[d].kind
    /\ call'[d].socket = call[d].socket /\ call'[d].room = call[d].room
    /\ ~Running(d) => call'[d] = call[d]

\* That is so in every step.
LEMMA CallsKept == Shape /\ [PNext]_pvars => \A d \in Calls : CallKept(d)
<1> SUFFICES ASSUME Shape, [PNext]_pvars, NEW d \in Calls, call[d] # Free
             PROVE  /\ call'[d] # Free /\ call'[d].kind = call[d].kind
                    /\ call'[d].socket = call[d].socket /\ call'[d].room = call[d].room
                    /\ ~Running(d) => call'[d] = call[d]
  BY DEF CallKept
<1>t. PTypeOK
  BY DEF Shape
<1>1. ASSUME NEW c \in Calls, NEW s, Begin(c, s) PROVE call'[d] = call[d]
  BY <1>1, <1>t DEF Begin, PTypeOK
<1>2. ASSUME NEW c \in Calls, Turn(c)
      PROVE  /\ call'[d] # Free /\ call'[d].kind = call[d].kind
             /\ call'[d].socket = call[d].socket /\ call'[d].room = call[d].room
             /\ ~Running(d) => call'[d] = call[d]
  <2>1. CASE d = c
    BY <1>2, <2>1, FreeAssumption DEF Turn
  <2>2. CASE d # c
    BY <1>2, <1>t, <2>2 DEF Turn, PTypeOK
  <2> QED BY <2>1, <2>2
<1>3. ASSUME NEW i \in Instances, CrashOf(i)
      PROVE  /\ call'[d] # Free /\ call'[d].kind = call[d].kind
             /\ call'[d].socket = call[d].socket /\ call'[d].room = call[d].room
             /\ ~Running(d) => call'[d] = call[d]
  <2>1. CASE Running(d) /\ HomeOf(d) = i
    <3>1. call'[d] = [call[d] EXCEPT !.at = "failed", !.got = {}]
      BY <1>3, <2>1, QueueCrash
    <3>2. call'[d] = [[call[d] EXCEPT !.at = "failed"] EXCEPT !.got = {}]
      BY <3>1
    <3>3. call[d] \in Record
      BY <1>t, CallRecord
    <3>4. call'[d] \in Record
      BY <3>2, <3>3 DEF Record
    <3> QED BY <2>1, <3>2, <3>3, <3>4, FreeAssumption DEF Record
  <2>2. CASE ~(Running(d) /\ HomeOf(d) = i)
    BY <1>3, <2>2, QueueCrash
  <2> QED BY <2>1, <2>2
<1>4. ASSUME call' = call PROVE call'[d] = call[d]
  BY <1>4
<1> QED
  BY <1>t, <1>1, <1>2, <1>3, <1>4, Begins, Turns DEF PNext, ExpireRoom, Rest, pvars

-----------------------------------------------------------------------------
(* Shape: types, stages and queues.                                        *)

\* The initial states are well formed.
LEMMA ShapeInit == PInit => Shape
<1> SUFFICES ASSUME PInit PROVE Shape
  OBVIOUS
<1>1. \A c \in Calls : call[c] = Free
  BY DEF PInit
<1>2. <<>> \in Seq(Calls)
  OBVIOUS
<1>3. PTypeOK
  BY <1>2 DEF PInit, PTypeOK, Emptied, Fields
<1>4. \A i \in Instances : Len(replies[i]) = 0
  BY DEF PInit
<1>5. Queue
  BY <1>1, <1>4 DEF Queue, Running
<1> QED BY <1>1, <1>3, <1>5 DEF Shape, CallShape

\* A call that did not move keeps its shape: sockets only ever leave.
LEMMA ShapeKept ==
    ASSUME NEW d \in Calls, CallShape(d), call'[d] = call[d], up' \subseteq up
    PROVE  CallShape(d)'
BY DEF CallShape

\* The types of what a call writes.
LEMMA CallType ==
    ASSUME PTypeOK, NEW c \in Calls, call' = [call EXCEPT ![c] = call'[c]], call'[c] \in Record
    PROVE  /\ call' \in [Calls -> Record \cup {Free}]
           /\ \A d \in Calls \ {c} : call'[d] = call[d]
BY DEF PTypeOK

\* One field of one hash is set.
LEMMA Marked ==
    ASSUME PTypeOK, NEW r, NEW s, NEW x \in Fields,
           presence' = [presence EXCEPT ![r][s] = x]
    PROVE  /\ presence' \in [Rooms -> [Sockets -> Fields]]
           /\ r \in Rooms /\ s \in Sockets => presence'[r][s] = x
           /\ \A q \in Rooms, u \in Sockets :
                q # r \/ u # s => presence'[q][u] = presence[q][u]
<1>1. presence \in [Rooms -> [Sockets -> Fields]]
  BY DEF PTypeOK
<1> DEFINE h == [presence[r] EXCEPT ![s] = x]
<1>2. presence' = [presence EXCEPT ![r] = h]
  OBVIOUS
<1>3. ASSUME r \in Rooms
      PROVE  /\ h \in [Sockets -> Fields]
             /\ s \in Sockets => h[s] = x
             /\ \A u \in Sockets : u # s => h[u] = presence[r][u]
  <2>1. presence[r] \in [Sockets -> Fields]
    BY <1>1, <1>3
  <2> QED BY <2>1
<1> HIDE DEF h
<1>4. \A q \in Rooms : q # r => presence'[q] = presence[q]
  BY <1>1, <1>2
<1>5. r \in Rooms => presence'[r] = h
  BY <1>1, <1>2
<1>6. presence' \in [Rooms -> [Sockets -> Fields]]
  BY <1>1, <1>2, <1>3
<1> QED BY <1>3, <1>4, <1>5, <1>6

\* The first group of invariants is kept by the steps that begin a call.
LEMMA ShapeBegin ==
    ASSUME Shape, NEW c \in Calls, NEW s \in Sockets,
           (\E r \in Visits[s] : Join(c, s, r)) \/ Disconnect(c, s) \/ Cursor(c, s)
    PROVE  Shape'
<1> USE DEF Fields
<1>t. PTypeOK
  BY DEF Shape
<1>1. ASSUME NEW r \in Visits[s], Join(c, s, r) PROVE Shape'
  <2>1. /\ Begin(c, s) /\ Running(c)' /\ Send(c, s) /\ r \in Rooms
        /\ call'[c].kind = "join" /\ call'[c].room = r /\ call'[c].at = "hset"
    BY <1>t, <1>1, Begins
  <2>2. Queue' /\ replies' \in [Instances -> Seq(Calls)]
    BY <2>1, QueueBegin
  <2>3. /\ call' \in [Calls -> Record \cup {Free}]
        /\ \A d \in Calls \ {c} : call'[d] = call[d]
    BY <1>t, <2>1, CallType DEF Begin
  <2>4. /\ members' = [members EXCEPT ![r] = @ \cup {s}] /\ s \in up
        /\ presence' = [presence EXCEPT ![r][s] = "in"]
        /\ UNCHANGED <<up, meta, shown, hasty, wiped>>
    BY <1>1 DEF Join
  <2>5. PTypeOK'
    BY <1>t, <2>1, <2>2, <2>3, <2>4 DEF PTypeOK
  <2>6. \A d \in Calls : CallShape(d)'
    <3>1. CallShape(c)'
      BY <2>1 DEF CallShape
    <3>2. \A d \in Calls \ {c} : CallShape(d)'
      BY <2>3, <2>4, ShapeKept DEF Shape
    <3> QED BY <3>1, <3>2
  <2> QED BY <2>2, <2>5, <2>6 DEF Shape
<1>2. ASSUME Cursor(c, s) PROVE Shape'
  <2>1. /\ Begin(c, s) /\ Running(c)' /\ Send(c, s) /\ meta[s] \in Rooms
        /\ call'[c].kind = "cursor" /\ call'[c].room = meta[s] /\ call'[c].at = "hget"
        /\ call'[c].got = {s} \cap Listed(meta[s])
    BY <1>t, <1>2, Begins
  <2>2. Queue' /\ replies' \in [Instances -> Seq(Calls)]
    BY <2>1, QueueBegin
  <2>3. /\ call' \in [Calls -> Record \cup {Free}]
        /\ \A d \in Calls \ {c} : call'[d] = call[d]
    BY <1>t, <2>1, CallType DEF Begin
  <2>4. UNCHANGED <<up, members, meta, presence, shown, hasty, wiped>>
    BY <1>2 DEF Cursor
  <2>5. PTypeOK'
    BY <1>t, <2>2, <2>3, <2>4 DEF PTypeOK
  <2>6. \A d \in Calls : CallShape(d)'
    <3>1. CallShape(c)'
      BY <2>1 DEF CallShape, Begin
    <3>2. \A d \in Calls \ {c} : CallShape(d)'
      BY <2>3, <2>4, ShapeKept DEF Shape
    <3> QED BY <3>1, <3>2
  <2> QED BY <2>2, <2>5, <2>6 DEF Shape
<1>3. ASSUME Disconnect(c, s) PROVE Shape'
  <2>1. /\ Begin(c, s) /\ call'[c].kind = "leave" /\ call'[c].room = meta[s]
        /\ meta[s] = NoRoom => /\ call'[c].at = "done" /\ ~Running(c)'
                               /\ UNCHANGED <<replies, presence>>
        /\ meta[s] # NoRoom => /\ call'[c].at = "hdel" /\ Running(c)' /\ Send(c, s)
                               /\ meta[s] \in Rooms
                               /\ presence' = [presence EXCEPT ![meta[s]][s] = "out"]
    BY <1>t, <1>3, Begins
  <2>3. /\ call' \in [Calls -> Record \cup {Free}]
        /\ \A d \in Calls \ {c} : call'[d] = call[d]
    BY <1>t, <2>1, CallType DEF Begin
  <2>2. Queue' /\ replies' \in [Instances -> Seq(Calls)]
    <3>1. CASE meta[s] # NoRoom
      BY <2>1, <3>1, QueueBegin
    <3>2. CASE meta[s] = NoRoom
      <4>1. \A d \in Calls : (Running(d)' <=> Running(d)) /\ (Running(d) => call'[d] = call[d])
        <5>1. ~Running(c)' /\ ~Running(c)
          BY <2>1, <3>2 DEF Begin, Running
        <5>2. \A d \in Calls \ {c} : (Running(d)' <=> Running(d)) /\ call'[d] = call[d]
          BY <2>3 DEF Running
        <5> QED BY <5>1, <5>2
      <4> QED BY <1>t, <2>1, <3>2, <4>1, QueueStill DEF PTypeOK
    <3> QED BY <3>1, <3>2
  <2>4. /\ up' = up \ {s} /\ members' = [r \in Rooms |-> members[r] \ {s}]
        /\ hasty' = (IF \E d \in CallsOf(s) : Running(d) THEN hasty \cup {s} ELSE hasty)
        /\ shown' = [u \in Sockets |-> IF u \in {s} THEN {} ELSE shown[u]]
        /\ UNCHANGED <<meta, wiped>>
    BY <1>3 DEF Disconnect, Gone, Show
  <2>5. PTypeOK'
    <3>1. up' \subseteq Sockets /\ hasty' \subseteq Sockets /\ wiped' \subseteq Rooms
      BY <1>t, <2>4 DEF PTypeOK
    <3>2. members' \in [Rooms -> SUBSET up'] /\ shown' \in [Sockets -> SUBSET Sockets]
          /\ meta' \in [Sockets -> Rooms \cup {NoRoom}]
      BY <1>t, <2>4 DEF PTypeOK
    <3>3. presence' \in [Rooms -> [Sockets -> Fields]]
      <4>1. CASE meta[s] = NoRoom
        BY <1>t, <2>1, <4>1 DEF PTypeOK
      <4>2. CASE meta[s] # NoRoom
        BY <1>t, <2>1, <4>2, Marked
      <4> QED BY <4>1, <4>2
    <3> QED BY <2>2, <2>3, <3>1, <3>2, <3>3 DEF PTypeOK
  <2>6. \A d \in Calls : CallShape(d)'
    <3>1. CallShape(c)'
      BY <2>1, <2>4, NoRoomAssumption DEF CallShape, Begin
    <3>2. \A d \in Calls \ {c} : CallShape(d)'
      BY <2>3, <2>4, ShapeKept DEF Shape
    <3> QED BY <3>1, <3>2
  <2> QED BY <2>2, <2>5, <2>6 DEF Shape
<1> QED BY <1>1, <1>2, <1>3

\* The first group of invariants is kept by the steps in which a reply arrives.
LEMMA ShapeTurn ==
    ASSUME Shape, NEW c \in Calls,
           \/ JoinExpire(c) \/ JoinList(c) \/ JoinDone(c) \/ LeaveCount(c) \/ LeaveDrop(c)
           \/ LeaveDone(c) \/ CursorSet(c) \/ Fail(c)
    PROVE  Shape'
<1> USE DEF Fields
<1>t. PTypeOK
  BY DEF Shape
<1>1. Turn(c)
  BY <1>t, Turns
<1>2. Queue' /\ replies' \in [Instances -> Seq(Calls)]
  BY <1>1, QueueTurn, TurnQueue
<1>3. /\ call' \in [Calls -> Record \cup {Free}]
      /\ \A d \in Calls \ {c} : call'[d] = call[d]
  BY <1>t, <1>1, CallType DEF Turn
<1>4. call[c] # Free /\ CallShape(c)
  BY <1>1 DEF Turn, Running, Shape
<1>5. up' = up /\ members' = members /\ hasty' = hasty
  BY <1>1 DEF Turn
<1>r. \A r : Listed(r) \subseteq Sockets
  BY DEF Listed
<1>6. /\ meta' \in [Sockets -> Rooms \cup {NoRoom}] /\ wiped' \subseteq Rooms
      /\ presence' \in [Rooms -> [Sockets -> Fields]]
      /\ shown' \in [Sockets -> SUBSET Sockets]
  <2>1. CASE JoinExpire(c) \/ JoinList(c) \/ LeaveCount(c) \/ Fail(c)
    BY <1>t, <2>1 DEF JoinExpire, JoinList, LeaveCount, Fail, PTypeOK
  <2>2. CASE JoinDone(c)
    BY <1>t, <1>4, <2>2, CallRecord DEF JoinDone, Show, PTypeOK
  <2>3. CASE LeaveDrop(c)
    <3>1. call[c].kind = "leave" /\ call[c].at = "hlen" /\ call[c].room \in Rooms
      BY <1>t, <1>4, <2>3, CallRecord DEF LeaveDrop, Replied, CallShape
    <3>2. /\ presence' = [presence EXCEPT ![call[c].room] = Emptied]
          /\ wiped' = wiped \/ wiped' = wiped \cup {call[c].room}
          /\ UNCHANGED <<meta, shown>>
      BY <2>3 DEF LeaveDrop
    <3>3. Emptied \in [Sockets -> Fields]
      BY DEF Emptied
    <3> QED BY <1>t, <3>1, <3>2, <3>3 DEF PTypeOK
  <2>4. CASE LeaveDone(c)
    BY <1>t, <2>4 DEF LeaveDone, PTypeOK
  <2>5. CASE CursorSet(c)
    <3>1. UNCHANGED <<meta, wiped, shown>>
      BY <2>5 DEF CursorSet
    <3>2. \/ presence' = presence
          \/ presence' = [presence EXCEPT ![call[c].room][call[c].socket] = "cursor"]
      BY <2>5 DEF CursorSet
    <3>3. presence' \in [Rooms -> [Sockets -> Fields]]
      BY <1>t, <3>2, Marked DEF PTypeOK
    <3> QED BY <1>t, <3>1, <3>3 DEF PTypeOK
  <2> QED BY <2>1, <2>2, <2>3, <2>4, <2>5
<1>7. PTypeOK'
  BY <1>t, <1>2, <1>3, <1>5, <1>6 DEF PTypeOK
<1>8. CallShape(c)'
  <2>1. /\ call'[c].kind = call[c].kind /\ call'[c].socket = call[c].socket
        /\ call'[c].room = call[c].room
    BY <1>1 DEF Turn
  <2>2. \/ /\ call[c].kind = "join" /\ call'[c].at \in {"expire", "list", "done"}
        \/ /\ call[c].kind = "leave" /\ call[c].at \in {"hdel", "hlen", "del"}
           /\ call'[c].at \in {"hlen", "del", "done"}
        \/ /\ call[c].kind = "cursor" /\ call'[c].at = "done" /\ call'[c].got = {}
        \/ /\ call'[c].at = "failed" /\ call'[c].got = {} /\ call[c].at # "done"
    <3>1. Fail(c) => call[c].at # "done"
      BY DEF Fail, Running
    <3> QED BY <1>t, <3>1, Turns
  <2> QED BY <1>4, <1>5, <2>1, <2>2 DEF CallShape
<1>9. \A d \in Calls \ {c} : CallShape(d)'
  BY <1>3, <1>5, ShapeKept DEF Shape
<1> QED BY <1>2, <1>7, <1>8, <1>9 DEF Shape

\* The first group of invariants is inductive.
LEMMA ShapeStep == Shape /\ [PNext]_pvars => Shape'
<1> SUFFICES ASSUME Shape, [PNext]_pvars PROVE Shape'
  OBVIOUS
<1> USE DEF Fields
<1>t. PTypeOK
  BY DEF Shape
<1>1. ASSUME NEW i \in Instances, CrashOf(i) PROVE Shape'
  <2> DEFINE lost == {s \in Sockets : Home[s] = i /\ CallsOf(s) # {}}
  <2>1. /\ up' = up \ lost /\ members' = [r \in Rooms |-> members[r] \ lost]
        /\ meta' = [s \in Sockets |-> IF s \in lost THEN NoRoom ELSE meta[s]]
        /\ hasty' = hasty \cup lost
        /\ shown' = [s \in Sockets |-> IF s \in lost THEN {} ELSE shown[s]]
        /\ UNCHANGED <<presence, wiped>>
    BY <1>1 DEF CrashOf, Show
  <2>2. lost \subseteq Sockets
    OBVIOUS
  <2> HIDE DEF lost
  <2>3. /\ Queue' /\ replies' \in [Instances -> Seq(Calls)]
        /\ \A c \in Calls : \/ call'[c] = call[c]
                            \/ /\ Running(c)
                               /\ call'[c] = [call[c] EXCEPT !.at = "failed", !.got = {}]
    BY <1>1, QueueCrash
  <2>4. ASSUME NEW c \in Calls
        PROVE  call'[c] \in Record \cup {Free} /\ CallShape(c)'
    <3>1. CASE call'[c] = call[c]
      <4>1. call'[c] \in Record \cup {Free}
        BY <1>t, <3>1 DEF PTypeOK
      <4> QED BY <2>1, <3>1, <4>1, ShapeKept DEF Shape
    <3>2. CASE Running(c) /\ call'[c] = [call[c] EXCEPT !.at = "failed", !.got = {}]
      <4>1. call'[c] = [[call[c] EXCEPT !.at = "failed"] EXCEPT !.got = {}]
        BY <3>2
      <4>2. call[c] \in Record /\ CallShape(c) /\ call[c] # Free /\ call[c].at # "done"
        BY <1>t, <3>2, CallRecord DEF Running, Shape
      <4>3. /\ call'[c] \in Record /\ call'[c].at = "failed" /\ call'[c].got = {}
            /\ call'[c].kind = call[c].kind /\ call'[c].socket = call[c].socket
            /\ call'[c].room = call[c].room
        BY <4>1, <4>2 DEF Record
      <4> QED BY <2>1, <4>2, <4>3 DEF CallShape
    <3> QED BY <2>3, <3>1, <3>2
  <2>5. call' \in [Calls -> Record \cup {Free}]
    <3>1. call' = [c \in Calls |-> call'[c]]
      BY <1>1 DEF CrashOf
    <3> QED BY <2>4, <3>1
  <2>6. PTypeOK'
    BY <1>t, <2>1, <2>2, <2>3, <2>5 DEF PTypeOK
  <2> QED BY <2>3, <2>4, <2>6 DEF Shape
<1>2. ASSUME NEW r \in Rooms, ExpireRoom(r) PROVE Shape'
  <2>1. /\ presence' = [presence EXCEPT ![r] = Emptied] /\ wiped' = wiped \cup {r}
        /\ UNCHANGED <<up, members, meta, call, replies, shown, hasty>>
    BY <1>2 DEF ExpireRoom
  <2>2. PTypeOK'
    BY <1>t, <2>1 DEF PTypeOK, Emptied
  <2>3. Queue' /\ \A c \in Calls : CallShape(c)'
    BY <2>1 DEF Shape, Queue, CallShape, Running
  <2> QED BY <2>2, <2>3 DEF Shape
<1>3. ASSUME UNCHANGED pvars PROVE Shape'
  BY <1>3 DEF Shape, PTypeOK, Queue, CallShape, Running, pvars
<1> QED BY <1>1, <1>2, <1>3, ShapeBegin, ShapeTurn DEF PNext, Rest

-----------------------------------------------------------------------------
(* Roll: who is in which room, which hash, and the map.                    *)

\* Socket s has opened room r.
LEMMA Opened ==
    ASSUME NEW s, NEW r
    PROVE  r \in RoomsOf(s) <=> \E d \in Calls : /\ call[d] # Free /\ call[d].kind = "join"
                                                 /\ call[d].socket = s /\ call[d].room = r
BY DEF RoomsOf, CallsOf

\* Which rooms a socket has opened changes with the joins.
LEMMA RoomsGrow ==
    ASSUME \A d \in Calls : CallKept(d)
    PROVE  /\ \A s : RoomsOf(s) \subseteq RoomsOf(s)'
           /\ (\A d \in Calls : call[d] = Free /\ call'[d] # Free => call'[d].kind # "join")
              => \A s : RoomsOf(s)' = RoomsOf(s)
           /\ \A c \in Calls : \A t, q :
                /\ call'[c] # Free /\ call'[c].kind = "join"
                /\ call'[c].socket = t /\ call'[c].room = q
                /\ \A d \in Calls \ {c} : call'[d] = call[d]
                => /\ \A s : s # t => RoomsOf(s)' = RoomsOf(s)
                   /\ RoomsOf(t)' = RoomsOf(t) \cup {q}
<1> DEFINE Has(s, r) == \E d \in Calls : /\ call[d] # Free /\ call[d].kind = "join"
                                         /\ call[d].socket = s /\ call[d].room = r
<1>1. \A s, r : r \in RoomsOf(s) <=> Has(s, r)
  BY Opened
<1>2. \A s, r : r \in RoomsOf(s)' <=> Has(s, r)'
  BY DEF RoomsOf, CallsOf
<1>3. \A s, r : Has(s, r) => Has(s, r)'
  BY DEF CallKept
<1>4. ASSUME \A d \in Calls : call[d] = Free /\ call'[d] # Free => call'[d].kind # "join",
             NEW s, NEW r, Has(s, r)'
      PROVE  Has(s, r)
  BY <1>4 DEF CallKept
<1>5. ASSUME NEW c \in Calls, NEW t, NEW q,
             call'[c] # Free, call'[c].kind = "join",
             call'[c].socket = t, call'[c].room = q,
             \A d \in Calls \ {c} : call'[d] = call[d]
      PROVE  \A s, r : Has(s, r)' <=> Has(s, r) \/ (s = t /\ r = q)
  BY <1>3, <1>5
<1> HIDE DEF Has
<1>6. \A s : RoomsOf(s) \subseteq RoomsOf(s)'
  BY <1>1, <1>2, <1>3
<1>7. ASSUME \A d \in Calls : call[d] = Free /\ call'[d] # Free => call'[d].kind # "join"
      PROVE  \A s : RoomsOf(s)' = RoomsOf(s)
  BY <1>1, <1>2, <1>3, <1>4, <1>7
<1>8. ASSUME NEW c \in Calls, NEW t, NEW q,
             call'[c] # Free, call'[c].kind = "join",
             call'[c].socket = t, call'[c].room = q,
             \A d \in Calls \ {c} : call'[d] = call[d]
      PROVE  /\ \A s : s # t => RoomsOf(s)' = RoomsOf(s)
             /\ RoomsOf(t)' = RoomsOf(t) \cup {q}
  <2>1. \A s, r : Has(s, r)' <=> Has(s, r) \/ (s = t /\ r = q)
    BY <1>5, <1>8
  <2> QED BY <1>1, <1>2, <2>1
<1> QED BY <1>6, <1>7, <1>8

\* A turn makes no call.
LEMMA TurnRooms ==
    ASSUME Shape, [PNext]_pvars, NEW c \in Calls, Turn(c)
    PROVE  /\ \A d \in Calls \ {c} : call'[d] = call[d]
           /\ \A s : RoomsOf(s)' = RoomsOf(s)
<1>1. PTypeOK /\ \A d \in Calls : CallKept(d)
  BY CallsKept DEF Shape
<1>2. \A d \in Calls \ {c} : call'[d] = call[d]
  BY <1>1 DEF Turn, PTypeOK
<1>3. call[c] # Free
  BY DEF Turn, Running
<1> QED BY <1>1, <1>2, <1>3, RoomsGrow

\* Members, hashes and the map speak of rooms that were opened; and a member is in the
\* hash, unless the hash was deleted.
LEMMA RollStep == Shape /\ Roll /\ [PNext]_pvars => Roll'
<1> SUFFICES ASSUME Shape, Roll, [PNext]_pvars PROVE Roll'
  OBVIOUS
<1> USE DEF Roll
<1>t. PTypeOK /\ \A d \in Calls : CallKept(d)
  BY CallsKept DEF Shape
<1>g. \A s : RoomsOf(s) \subseteq RoomsOf(s)'
  BY <1>t, RoomsGrow
<1>1. ASSUME NEW c \in Calls, NEW s \in Sockets, NEW r \in Visits[s], Join(c, s, r) PROVE Roll'
  <2>1. Begin(c, s) /\ Running(c)' /\ r \in Rooms /\ call'[c].kind = "join" /\ call'[c].room = r
    BY <1>t, <1>1, Begins, ZenonT(40)
  <2>2. call'[c] # Free /\ call'[c].socket = s /\ \A d \in Calls \ {c} : call'[d] = call[d]
    BY <1>t, <2>1, CallType DEF Begin, Running
  <2>3. RoomsOf(s)' = RoomsOf(s) \cup {r} /\ \A u : u # s => RoomsOf(u)' = RoomsOf(u)
    BY <1>t, <2>1, <2>2, RoomsGrow
  <2>4. /\ members' = [members EXCEPT ![r] = @ \cup {s}] /\ s \in up
        /\ presence' = [presence EXCEPT ![r][s] = "in"]
        /\ UNCHANGED <<up, meta, shown, hasty, wiped>>
    BY <1>1 DEF Join
  <2>5. /\ presence'[r][s] = "in"
        /\ \A q \in Rooms, u \in Sockets : q # r \/ u # s => presence'[q][u] = presence[q][u]
    <3>1. "in" \in Fields
      BY DEF Fields
    <3>2. presence' = [presence EXCEPT ![r][s] = "in"] /\ PTypeOK /\ r \in Rooms
      BY <1>t, <2>1, <2>4
    <3> HIDE DEF Roll
    <3>3. presence \in [Rooms -> [Sockets -> Fields]] /\ presence[r] \in [Sockets -> Fields]
      BY <3>2 DEF PTypeOK
    <3>4. presence' = [presence EXCEPT ![r] = [presence[r] EXCEPT ![s] = "in"]]
      BY <3>2
    <3>5. presence'[r] = [presence[r] EXCEPT ![s] = "in"]
      BY <3>2, <3>3, <3>4
    <3>6. presence'[r][s] = "in" /\ \A u \in Sockets : u # s => presence'[r][u] = presence[r][u]
      BY <3>3, <3>5
    <3>7. \A q \in Rooms : q # r => presence'[q] = presence[q]
      BY <3>3, <3>4
    <3> QED BY <3>6, <3>7
  <2>6. \A q \in Rooms : members'[q] = IF q = r THEN members[q] \cup {s} ELSE members[q]
    BY <1>t, <2>4 DEF PTypeOK
  <2>7. \A u \in Sockets, q \in Rooms : u \in members'[q] <=> u \in up' /\ q \in RoomsOf(u)'
    <3> SUFFICES ASSUME NEW u \in Sockets, NEW q \in Rooms
                 PROVE  u \in members'[q] <=> u \in up' /\ q \in RoomsOf(u)'
      OBVIOUS
    <3>1. u \in members[q] <=> u \in up /\ q \in RoomsOf(u)
      OBVIOUS
    <3> HIDE DEF Roll
    <3>2. CASE u = s
      BY <2>3, <2>4, <2>6, <3>1, <3>2
    <3>3. CASE u # s
      BY <2>3, <2>4, <2>6, <3>1, <3>3
    <3> QED BY <3>2, <3>3
  <2>8. \A u \in Sockets, q \in Rooms : presence'[q][u] # "out" => q \in RoomsOf(u)'
    BY <2>3, <2>5
  <2>9. \A u \in Sockets : meta'[u] # NoRoom => meta'[u] \in RoomsOf(u)'
    BY <1>g, <2>4
  <2>10. \A d \in Calls, u \in Sockets :
          call'[d] # Free /\ call'[d].kind = "cursor" /\ call'[d].socket = u =>
            call'[d].room \in RoomsOf(u)'
    BY <1>g, <2>1, <2>2
  <2>11. \A u \in Sockets, q \in Rooms :
           u \in members'[q] /\ q \notin wiped' => presence'[q][u] # "out"
    BY <2>4, <2>5, <2>6
  <2> QED BY <2>7, <2>8, <2>9, <2>10, <2>11
<1>2. ASSUME NEW c \in Calls, NEW s \in Sockets, Cursor(c, s) PROVE Roll'
  <2>1. /\ Begin(c, s) /\ call'[c].kind = "cursor" /\ call'[c].room = meta[s]
        /\ meta[s] \in Rooms
    BY <1>t, <1>2, Begins
  <2>2. call'[c].socket = s /\ \A d \in Calls \ {c} : call'[d] = call[d]
    BY <1>t, <2>1, CallType DEF Begin
  <2>3. \A u : RoomsOf(u)' = RoomsOf(u)
    BY <1>t, <2>1, <2>2, RoomsGrow
  <2>4. UNCHANGED <<up, members, meta, presence, shown, hasty, wiped>>
    BY <1>2 DEF Cursor
  <2>5. \A d \in Calls, u \in Sockets :
          call'[d] # Free /\ call'[d].kind = "cursor" /\ call'[d].socket = u =>
            call'[d].room \in RoomsOf(u)'
    BY <2>1, <2>2, <2>3, NoRoomAssumption
  <2> QED BY <2>3, <2>4, <2>5
<1>3. ASSUME NEW c \in Calls, NEW s \in Sockets, Disconnect(c, s) PROVE Roll'
  <2>1. /\ Begin(c, s) /\ call'[c].kind = "leave"
        /\ \A q \in Rooms, u \in Sockets :
             presence'[q][u] = presence[q][u] \/ (u = s /\ presence'[q][u] = "out")
    <3>1. CASE meta[s] = NoRoom
      BY <1>t, <1>3, <3>1, Begins
    <3>2. CASE meta[s] # NoRoom
      <4>1. /\ Begin(c, s) /\ call'[c].kind = "leave" /\ meta[s] \in Rooms
            /\ presence' = [presence EXCEPT ![meta[s]][s] = "out"]
        BY <1>t, <1>3, <3>2, Begins
      <4> QED BY <1>t, <4>1, Marked DEF Fields
    <3> QED BY <3>1, <3>2
  <2>2. \A d \in Calls \ {c} : call'[d] = call[d]
    BY <1>t, <2>1, CallType DEF Begin
  <2>3. \A u : RoomsOf(u)' = RoomsOf(u)
    BY <1>t, <2>1, <2>2, RoomsGrow
  <2>4. /\ up' = up \ {s} /\ members' = [r \in Rooms |-> members[r] \ {s}]
        /\ UNCHANGED <<meta, wiped>>
    BY <1>3 DEF Disconnect, Gone
  <2>5. \A d \in Calls, u \in Sockets :
          call'[d] # Free /\ call'[d].kind = "cursor" /\ call'[d].socket = u =>
            call'[d].room \in RoomsOf(u)'
    BY <2>1, <2>2, <2>3
  <2>6. \A u \in Sockets, q \in Rooms :
          /\ u \in members'[q] <=> u \in up' /\ q \in RoomsOf(u)'
          /\ presence'[q][u] # "out" => q \in RoomsOf(u)'
          /\ u \in members'[q] /\ q \notin wiped' => presence'[q][u] # "out"
    BY <2>1, <2>3, <2>4
  <2> QED BY <2>3, <2>4, <2>5, <2>6
<1>4. ASSUME NEW c \in Calls, Turn(c),
             \A u \in Sockets : meta'[u] # NoRoom => meta'[u] \in RoomsOf(u),
             \A u \in Sockets, q \in Rooms :
               /\ presence'[q][u] # "out" => q \in RoomsOf(u)
               /\ u \in members[q] /\ q \notin wiped' => presence'[q][u] # "out"
      PROVE  Roll'
  <2>1. /\ \A d \in Calls \ {c} : call'[d] = call[d]
        /\ \A u : RoomsOf(u)' = RoomsOf(u)
    BY <1>4, TurnRooms
  <2>2. /\ up' = up /\ members' = members
        /\ call'[c].kind = call[c].kind /\ call'[c].socket = call[c].socket
        /\ call'[c].room = call[c].room /\ call[c] # Free
    BY <1>4 DEF Turn, Running
  <2>3. \A d \in Calls, u \in Sockets :
          call'[d] # Free /\ call'[d].kind = "cursor" /\ call'[d].socket = u =>
            call'[d].room \in RoomsOf(u)'
    BY <2>1, <2>2
  <2> QED BY <1>4, <2>1, <2>2, <2>3
<1>5. ASSUME NEW c \in Calls, JoinExpire(c) \/ JoinList(c) \/ LeaveCount(c) \/ Fail(c) PROVE Roll'
  <2>1. Turn(c)
    BY <1>t, <1>5, Turns
  <2>2. UNCHANGED <<meta, presence, wiped>>
    BY <1>5 DEF JoinExpire, JoinList, LeaveCount, Fail
  <2> QED BY <1>4, <2>1, <2>2
<1>6. ASSUME NEW c \in Calls, JoinDone(c) PROVE Roll'
  <2>1. Turn(c) /\ call[c].kind = "join" /\ call[c] # Free
    BY <1>t, <1>6, Turns DEF Turn, Running
  <2>2. meta' = [meta EXCEPT ![call[c].socket] = call[c].room] /\ UNCHANGED <<presence, wiped>>
    BY <1>6 DEF JoinDone
  <2>3. call[c].room \in RoomsOf(call[c].socket)
    BY <2>1, Opened
  <2>4. \A u \in Sockets : meta'[u] # NoRoom => meta'[u] \in RoomsOf(u)
    BY <1>t, <2>2, <2>3 DEF PTypeOK
  <2> QED BY <1>4, <2>1, <2>2, <2>4
<1>7. ASSUME NEW c \in Calls, LeaveDone(c) PROVE Roll'
  <2>1. Turn(c)
    BY <1>t, <1>7, Turns
  <2>2. meta' = [meta EXCEPT ![call[c].socket] = NoRoom] /\ UNCHANGED <<presence, wiped>>
    BY <1>7 DEF LeaveDone
  <2>3. \A u \in Sockets : meta'[u] # NoRoom => meta'[u] \in RoomsOf(u)
    BY <1>t, <2>2 DEF PTypeOK
  <2> QED BY <1>4, <2>1, <2>2, <2>3
<1>8. ASSUME NEW c \in Calls, LeaveDrop(c) PROVE Roll'
  <2>1. Turn(c)
    BY <1>t, <1>8, Turns
  <2> PICK r : r = call[c].room
    OBVIOUS
  <2>2. /\ presence' = [presence EXCEPT ![r] = Emptied] /\ UNCHANGED meta
        /\ wiped' = IF Listed(r) # {} THEN wiped \cup {r} ELSE wiped
    BY <1>8 DEF LeaveDrop
  <2>3. \A q \in Rooms, u \in Sockets :
          presence'[q][u] = IF q = r THEN "out" ELSE presence[q][u]
    BY <1>t, <2>2 DEF PTypeOK, Emptied
  <2>4. \A u \in Sockets : r \in Rooms /\ u \in members[r] => r \in wiped'
    BY <2>2 DEF Listed
  <2>5. \A u \in Sockets, q \in Rooms :
          /\ presence'[q][u] # "out" => q \in RoomsOf(u)
          /\ u \in members[q] /\ q \notin wiped' => presence'[q][u] # "out"
    BY <2>2, <2>3, <2>4
  <2> QED BY <1>4, <2>1, <2>2, <2>5
<1>9. ASSUME NEW c \in Calls, CursorSet(c) PROVE Roll'
  <2>1. Turn(c) /\ call[c].kind = "cursor" /\ call[c] # Free
    BY <1>t, <1>9, Turns DEF Turn, Running
  <2>2. \/ presence' = presence
        \/ presence' = [presence EXCEPT ![call[c].room][call[c].socket] = "cursor"]
    BY <1>9 DEF CursorSet
  <2>3. UNCHANGED <<meta, wiped>>
    BY <1>9 DEF CursorSet
  <2>4. call[c].room \in RoomsOf(call[c].socket)
    BY <1>t, <2>1, CallRecord
  <2>5. \A q \in Rooms, u \in Sockets :
          \/ presence'[q][u] = presence[q][u]
          \/ presence'[q][u] = "cursor" /\ q \in RoomsOf(u)
    <3>1. CASE presence' = presence
      BY <3>1
    <3>2. CASE presence' = [presence EXCEPT ![call[c].room][call[c].socket] = "cursor"]
      <4>1. PICK x \in Fields : x = "cursor"
        BY DEF Fields
      <4>2. PICK a, b : a = call[c].room /\ b = call[c].socket
        OBVIOUS
      <4>3. presence' = [presence EXCEPT ![a][b] = x]
        BY <3>2, <4>1, <4>2
      <4>4. presence \in [Rooms -> [Sockets -> Fields]]
        BY <1>t DEF PTypeOK
      <4>5. /\ a \in Rooms /\ b \in Sockets => presence'[a][b] = x
            /\ \A q \in Rooms, u \in Sockets :
                 q # a \/ u # b => presence'[q][u] = presence[q][u]
        BY <4>3, <4>4, SMTT(25)
      <4> QED BY <2>4, <4>1, <4>2, <4>5
    <3> QED BY <2>2, <3>1, <3>2
  <2>6. \A u \in Sockets, q \in Rooms :
          /\ presence'[q][u] # "out" => q \in RoomsOf(u)
          /\ u \in members[q] /\ q \notin wiped' => presence'[q][u] # "out"
    BY <2>3, <2>5
  <2> QED BY <1>4, <2>1, <2>3, <2>6
<1>10. ASSUME NEW i \in Instances, CrashOf(i) PROVE Roll'
  <2> DEFINE lost == {s \in Sockets : Home[s] = i /\ CallsOf(s) # {}}
  <2>1. /\ up' = up \ lost /\ members' = [r \in Rooms |-> members[r] \ lost]
        /\ meta' = [s \in Sockets |-> IF s \in lost THEN NoRoom ELSE meta[s]]
        /\ UNCHANGED <<presence, wiped>>
    BY <1>10 DEF CrashOf
  <2> HIDE DEF lost
  <2>2. \A d \in Calls : call[d] = Free => call'[d] = Free
    BY <1>10, QueueCrash DEF Running
  <2>3. \A u : RoomsOf(u)' = RoomsOf(u)
    BY <1>t, <2>2, RoomsGrow
  <2>4. \A d \in Calls, u \in Sockets :
          call'[d] # Free /\ call'[d].kind = "cursor" /\ call'[d].socket = u =>
            call'[d].room \in RoomsOf(u)'
    BY <1>t, <2>2, <2>3 DEF CallKept
  <2> QED BY <2>1, <2>3, <2>4
<1>11. ASSUME NEW r \in Rooms, ExpireRoom(r) PROVE Roll'
  <2>1. /\ presence' = [presence EXCEPT ![r] = Emptied] /\ wiped' = wiped \cup {r}
        /\ UNCHANGED <<up, members, meta, call>>
    BY <1>11 DEF ExpireRoom
  <2>2. \A u : RoomsOf(u)' = RoomsOf(u)
    BY <2>1 DEF RoomsOf, CallsOf
  <2>3. \A q \in Rooms, u \in Sockets :
          presence'[q][u] = IF q = r THEN "out" ELSE presence[q][u]
    BY <1>t, <2>1 DEF PTypeOK, Emptied
  <2> QED BY <2>1, <2>2, <2>3
<1>12. ASSUME UNCHANGED pvars PROVE Roll'
  <2>1. \A u : RoomsOf(u)' = RoomsOf(u)
    BY <1>12 DEF RoomsOf, CallsOf, pvars
  <2> QED BY <1>12, <2>1 DEF pvars
<1> HIDE DEF Roll
<1> QED
  BY <1>1, <1>2, <1>3, <1>5, <1>6, <1>7, <1>8, <1>9, <1>10, <1>11, <1>12 DEF PNext, Rest

-----------------------------------------------------------------------------
(* Left: what a leave leaves behind.                                       *)

\* A leave is made once, and what its socket was doing then goes with it.
LeftBy(c, s) == call[c] # Free /\ call[c].kind = "leave" /\ call[c].socket = s

\* A socket that was not hasty has no other call running beside its leave.
LEMMA LeaveAlone ==
    ASSUME Shape, Left, NEW c \in Calls, NEW s \in Sockets \ hasty, LeftBy(c, s)
    PROVE  /\ s \notin up
           /\ \A d \in Calls : d # c /\ Running(d) => call[d].socket # s
           /\ call[c].room # NoRoom => presence[call[c].room][s] = "out"
           /\ call[c].at = "done" => meta[s] = NoRoom
BY DEF Shape, CallShape, Left, LeftBy, CallsOf, Running

\* What Left asks of one leave.
LeftWell(c, s) ==
    /\ \A d \in Calls : d # c /\ Running(d) => call[d].socket # s
    /\ call[c].room # NoRoom => presence[call[c].room][s] = "out"
    /\ call[c].at = "done" => meta[s] = NoRoom

\* Left, said with these two operators.
LEMMA LeftForm ==
    Left <=> /\ \A s \in Sockets \ up : s \in hasty \/ \E c \in Calls : LeftBy(c, s)
             /\ \A c \in Calls, s \in Sockets \ hasty : LeftBy(c, s) => LeftWell(c, s)
<1>1. \A s : (\E c \in CallsOf(s) : call[c].kind = "leave") <=> \E c \in Calls : LeftBy(c, s)
  BY DEF CallsOf, LeftBy
<1>2. \A c \in Calls, s \in Sockets \ hasty : LeftBy(c, s) =>
        ((\A d \in CallsOf(s) : d # c => ~Running(d)) <=>
         (\A d \in Calls : d # c /\ Running(d) => call[d].socket # s))
  BY DEF CallsOf, Running
<1> QED BY <1>1, <1>2 DEF Left, LeftBy, LeftWell

\* How a leave looks after a step that neither begins it nor is its own.
LEMMA LeaveKept ==
    ASSUME Shape, [PNext]_pvars, NEW c \in Calls, NEW s, LeftBy(c, s)
    PROVE  LeftBy(c, s)'
BY CallsKept DEF CallKept, LeftBy

\* Who left is accounted for, and who left in peace left nothing in the room it left.
LEMMA LeftStep == Shape /\ Left /\ [PNext]_pvars => Left'
<1> SUFFICES ASSUME Shape, Left, [PNext]_pvars PROVE Left'
  OBVIOUS
<1>t. PTypeOK /\ (\A d \in Calls : CallKept(d)) /\ (\A d \in Calls : CallShape(d))
  BY CallsKept DEF Shape
<1>l. /\ \A s \in Sockets \ up : s \in hasty \/ \E c \in Calls : LeftBy(c, s)
      /\ \A c \in Calls, s \in Sockets \ hasty : LeftBy(c, s) => LeftWell(c, s)
  BY LeftForm
<1>k. \A c \in Calls : \A s : LeftBy(c, s) => LeftBy(c, s)'
  BY LeaveKept
<1>u. \A c \in Calls : \A s : LeftBy(c, s) => s \notin up
  BY <1>t DEF LeftBy, CallShape
<1>f. /\ \A s \in Sockets \ up' : s \in hasty' \/ \E c \in Calls : LeftBy(c, s)'
      /\ \A c \in Calls, s \in Sockets \ hasty' : LeftBy(c, s)' => LeftWell(c, s)'
      => Left'
  <2> SUFFICES ASSUME \A s \in Sockets \ up' : s \in hasty' \/ \E c \in Calls : LeftBy(c, s)',
                      \A c \in Calls, s \in Sockets \ hasty' : LeftBy(c, s)' => LeftWell(c, s)'
               PROVE  Left'
    OBVIOUS
  <2>1. ASSUME NEW s \in Sockets \ up', s \notin hasty'
        PROVE  \E c \in CallsOf(s)' : call'[c].kind = "leave"
    BY <2>1 DEF CallsOf, LeftBy
  <2>2. ASSUME NEW c \in Calls, NEW s \in Sockets \ hasty', LeftBy(c, s)'
        PROVE  /\ \A d \in CallsOf(s)' : d # c => ~Running(d)'
               /\ call'[c].room # NoRoom => presence'[call'[c].room][s] = "out"
               /\ call'[c].at = "done" => meta'[s] = NoRoom
    <3>1. LeftWell(c, s)'
      BY <2>2
    <3> QED BY <3>1 DEF CallsOf, LeftWell
  <2> QED BY <2>1, <2>2 DEF Left, LeftBy
<1>1. ASSUME NEW b \in Calls, NEW s \in Sockets, s \in up, Begin(b, s), call'[b].kind # "leave",
             UNCHANGED <<up, hasty, meta>>,
             \A q \in Rooms, u \in Sockets : u # s => presence'[q][u] = presence[q][u]
      PROVE  Left'
  <2>1. \A d \in Calls \ {b} : call'[d] = call[d]
    BY <1>t, <1>1, CallType DEF Begin
  <2>2. ASSUME NEW c \in Calls, NEW u \in Sockets \ hasty', LeftBy(c, u)'
        PROVE  LeftWell(c, u)'
    <3>1. c # b /\ call'[c] = call[c] /\ LeftBy(c, u)
      BY <1>1, <2>1, <2>2 DEF LeftBy
    <3>2. LeftWell(c, u) /\ u # s
      BY <1>l, <1>u, <1>1, <3>1
    <3>3. \A d \in Calls : d # c /\ Running(d)' => call'[d].socket # u
      BY <1>1, <2>1, <3>2 DEF LeftWell, Running, Begin
    <3>4. call[c].room \in Rooms \cup {NoRoom}
      BY <1>t, <3>1, CallRecord DEF LeftBy
    <3> QED BY <1>1, <3>1, <3>2, <3>3, <3>4 DEF LeftWell
  <2> QED BY <1>f, <1>k, <1>l, <1>1, <2>2
<1>2. ASSUME NEW c \in Calls, NEW s \in Sockets, NEW r \in Visits[s], Join(c, s, r) PROVE Left'
  <2>1. Begin(c, s) /\ r \in Rooms /\ call'[c].kind = "join"
    BY <1>t, <1>2, Begins
  <2>2. s \in up /\ UNCHANGED <<up, hasty, meta>> /\ presence' = [presence EXCEPT ![r][s] = "in"]
    BY <1>2 DEF Join
  <2>3. \A q \in Rooms, u \in Sockets : u # s => presence'[q][u] = presence[q][u]
    BY <1>t, <2>2 DEF PTypeOK
  <2> QED BY <1>1, <2>1, <2>2, <2>3
<1>3. ASSUME NEW c \in Calls, NEW s \in Sockets, Cursor(c, s) PROVE Left'
  <2>1. Begin(c, s) /\ call'[c].kind = "cursor"
    BY <1>t, <1>3, Begins
  <2>2. s \in up /\ UNCHANGED <<up, hasty, meta, presence>>
    BY <1>3 DEF Cursor
  <2> QED BY <1>1, <2>1, <2>2
<1>4. ASSUME NEW b \in Calls, NEW s \in Sockets, Disconnect(b, s) PROVE Left'
  <2>1. /\ Begin(b, s) /\ call'[b].kind = "leave" /\ call'[b].room = meta[s]
        /\ meta[s] = NoRoom => call'[b].at = "done" /\ presence' = presence
        /\ meta[s] # NoRoom => /\ call'[b].at = "hdel" /\ meta[s] \in Rooms
                               /\ presence' = [presence EXCEPT ![meta[s]][s] = "out"]
    BY <1>t, <1>4, Begins
  <2>2. \A d \in Calls \ {b} : call'[d] = call[d]
    BY <1>t, <2>1, CallType DEF Begin
  <2>3. /\ s \in up /\ up' = up \ {s} /\ meta' = meta
        /\ hasty' = IF \E d \in CallsOf(s) : Running(d) THEN hasty \cup {s} ELSE hasty
    BY <1>4 DEF Disconnect, Gone
  <2>4. /\ meta[s] # NoRoom => presence'[meta[s]][s] = "out"
        /\ \A q \in Rooms, u \in Sockets : u # s => presence'[q][u] = presence[q][u]
    <3>1. CASE meta[s] = NoRoom
      BY <2>1, <3>1
    <3>2. CASE meta[s] # NoRoom
      BY <1>t, <2>1, <3>2, Marked DEF Fields
    <3> QED BY <3>1, <3>2
  <2>5. LeftBy(b, s)' /\ \A u : u # s => ~LeftBy(b, u)'
    BY <2>1, FreeAssumption DEF Begin, LeftBy
  <2>6. ASSUME NEW c \in Calls, NEW u \in Sockets \ hasty', LeftBy(c, u)', c # b
        PROVE  LeftWell(c, u)'
    <3>1. call'[c] = call[c] /\ LeftBy(c, u)
      BY <2>2, <2>6 DEF LeftBy
    <3>2. LeftWell(c, u) /\ u # s
      BY <1>l, <1>u, <2>3, <2>6, <3>1
    <3>3. \A d \in Calls : d # c /\ Running(d)' => call'[d].socket # u
      BY <2>1, <2>2, <3>2 DEF LeftWell, Running, Begin
    <3>4. call[c].room \in Rooms \cup {NoRoom}
      BY <1>t, <3>1, CallRecord DEF LeftBy
    <3> QED BY <2>3, <2>4, <3>1, <3>2, <3>3, <3>4 DEF LeftWell
  <2>7. s \notin hasty' => LeftWell(b, s)'
    <3> SUFFICES ASSUME s \notin hasty' PROVE LeftWell(b, s)'
      OBVIOUS
    <3>1. \A d \in CallsOf(s) : ~Running(d)
      BY <2>3
    <3>2. \A d \in Calls : d # b /\ Running(d)' => call'[d].socket # s
      BY <2>2, <3>1 DEF CallsOf, Running
    <3> QED BY <2>1, <2>3, <2>4, <3>2 DEF LeftWell
  <2>8. \A u \in Sockets \ up' : u \in hasty' \/ \E c \in Calls : LeftBy(c, u)'
    BY <1>l, <1>k, <2>3, <2>5
  <2> QED BY <1>f, <2>5, <2>6, <2>7, <2>8
<1>5. ASSUME NEW b \in Calls, Turn(b),
             \A s \in Sockets, q \in Rooms :
               \/ presence'[q][s] = "out" \/ presence'[q][s] = presence[q][s]
               \/ call[b].kind # "leave" /\ call[b].socket = s,
             \A s \in Sockets :
               \/ meta'[s] = meta[s] \/ meta'[s] = NoRoom
               \/ call[b].kind # "leave" /\ call[b].socket = s,
             call'[b].at = "done" /\ call[b].kind = "leave" => meta'[call[b].socket] = NoRoom
      PROVE  Left'
  <2>1. \A d \in Calls \ {b} : call'[d] = call[d]
    BY <1>5, TurnRooms
  <2>2. /\ up' = up /\ hasty' = hasty /\ Running(b)
        /\ call'[b].kind = call[b].kind /\ call'[b].socket = call[b].socket
        /\ call'[b].room = call[b].room
    BY <1>5 DEF Turn
  <2>3. ASSUME NEW c \in Calls, NEW u \in Sockets \ hasty', LeftBy(c, u)'
        PROVE  LeftWell(c, u)'
    <3>1. LeftBy(c, u) /\ call'[c].room = call[c].room
      BY <2>1, <2>2, <2>3 DEF LeftBy, Running
    <3>2. LeftWell(c, u)
      BY <1>l, <2>2, <3>1
    <3>3. \A d \in Calls : d # c /\ Running(d)' => call'[d].socket # u
      BY <2>1, <2>2, <3>2 DEF LeftWell, Running
    <3>4. b # c => call[b].socket # u
      BY <2>2, <3>2 DEF LeftWell
    <3>5. b = c => call[b].kind = "leave" /\ call[b].socket = u
      BY <3>1 DEF LeftBy
    <3>6. call[c].room \in Rooms \cup {NoRoom}
      BY <1>t, <3>1, CallRecord DEF LeftBy
    <3>7. call'[c].room # NoRoom => presence'[call'[c].room][u] = "out"
      BY <1>5, <3>1, <3>2, <3>4, <3>5, <3>6 DEF LeftWell
    <3>8. call'[c].at = "done" => meta'[u] = NoRoom
      <4>1. CASE b = c
        BY <1>5, <3>5, <4>1
      <4>2. CASE b # c
        BY <1>5, <2>1, <3>2, <3>4, <4>2 DEF LeftWell
      <4> QED BY <4>1, <4>2
    <3> QED BY <3>3, <3>7, <3>8 DEF LeftWell
  <2> QED BY <1>f, <1>k, <1>l, <2>2, <2>3
<1>6. ASSUME NEW c \in Calls, JoinExpire(c) \/ JoinList(c) \/ LeaveCount(c) \/ Fail(c) PROVE Left'
  <2>1. Turn(c) /\ call'[c].at # "done"
    BY <1>t, <1>6, Turns
  <2>2. UNCHANGED <<meta, presence>>
    BY <1>6 DEF JoinExpire, JoinList, LeaveCount, Fail
  <2> QED BY <1>5, <2>1, <2>2
<1>7. ASSUME NEW c \in Calls, JoinDone(c) PROVE Left'
  <2>1. Turn(c) /\ call[c].kind = "join"
    BY <1>t, <1>7, Turns
  <2>2. meta' = [meta EXCEPT ![call[c].socket] = call[c].room] /\ presence' = presence
    BY <1>7 DEF JoinDone
  <2>3. \A s \in Sockets : meta'[s] = meta[s] \/ call[c].socket = s
    BY <1>t, <2>2 DEF PTypeOK
  <2> QED BY <1>5, <2>1, <2>2, <2>3
<1>8. ASSUME NEW c \in Calls, LeaveDone(c) PROVE Left'
  <2>1. Turn(c) /\ call[c].kind = "leave" /\ call[c].socket \in Sockets
    BY <1>t, <1>8, Turns, CallRecord DEF Turn, Running
  <2>2. meta' = [meta EXCEPT ![call[c].socket] = NoRoom] /\ presence' = presence
    BY <1>8 DEF LeaveDone
  <2>3. /\ \A s \in Sockets : meta'[s] = meta[s] \/ meta'[s] = NoRoom
        /\ meta'[call[c].socket] = NoRoom
    BY <1>t, <2>1, <2>2 DEF PTypeOK
  <2> QED BY <1>5, <2>1, <2>2, <2>3
<1>9. ASSUME NEW c \in Calls, LeaveDrop(c) PROVE Left'
  <2>1. Turn(c) /\ call'[c].at # "done"
    BY <1>t, <1>9, Turns
  <2>2. presence' = [presence EXCEPT ![call[c].room] = Emptied] /\ meta' = meta
    BY <1>9 DEF LeaveDrop
  <2>3. \A q \in Rooms, u \in Sockets :
          presence'[q][u] = "out" \/ presence'[q][u] = presence[q][u]
    BY <1>t, <2>2 DEF PTypeOK, Emptied
  <2> QED BY <1>5, <2>1, <2>2, <2>3
<1>10. ASSUME NEW c \in Calls, CursorSet(c) PROVE Left'
  <2>1. Turn(c) /\ call[c].kind = "cursor"
    BY <1>t, <1>10, Turns
  <2>2. /\ \/ presence' = presence
           \/ presence' = [presence EXCEPT ![call[c].room][call[c].socket] = "cursor"]
        /\ meta' = meta
    BY <1>10 DEF CursorSet
  <2>3. \A q \in Rooms, u \in Sockets :
          presence'[q][u] = presence[q][u] \/ call[c].socket = u
    BY <1>t, <2>2 DEF PTypeOK
  <2> QED BY <1>5, <2>1, <2>2, <2>3
<1>11. ASSUME NEW i \in Instances, CrashOf(i) PROVE Left'
  <2> DEFINE lost == {s \in Sockets : Home[s] = i /\ CallsOf(s) # {}}
  <2>1. /\ up' = up \ lost /\ hasty' = hasty \cup lost
        /\ meta' = [s \in Sockets |-> IF s \in lost THEN NoRoom ELSE meta[s]]
        /\ presence' = presence
    BY <1>11 DEF CrashOf
  <2> HIDE DEF lost
  <2>2. \A c \in Calls : call[c] = Free => call'[c] = Free
    BY <1>11, QueueCrash DEF Running
  <2>3. \A c \in Calls : Running(c)' => Running(c) /\ call'[c] = call[c]
    BY <1>11, QueueCrash
  <2>4. \A c \in Calls : call'[c].at = "done" => call'[c] = call[c]
    <3> SUFFICES ASSUME NEW c \in Calls, call'[c] # call[c] PROVE call'[c].at # "done"
      OBVIOUS
    <3>1. Running(c) /\ call'[c] = [call[c] EXCEPT !.at = "failed", !.got = {}]
      BY <1>11, QueueCrash
    <3>2. call'[c] = [[call[c] EXCEPT !.at = "failed"] EXCEPT !.got = {}]
      BY <3>1
    <3>3. call[c] \in Record
      BY <1>t, <3>1, CallRecord DEF Running
    <3> QED BY <3>2, <3>3 DEF Record
  <2>5. ASSUME NEW c \in Calls, NEW u \in Sockets \ hasty', LeftBy(c, u)'
        PROVE  LeftWell(c, u)'
    <3>1. LeftBy(c, u) /\ call'[c].room = call[c].room
      BY <1>t, <2>2, <2>5 DEF LeftBy, CallKept
    <3>2. LeftWell(c, u) /\ u \notin lost
      BY <1>l, <2>1, <3>1
    <3>3. \A d \in Calls : d # c /\ Running(d)' => call'[d].socket # u
      BY <2>3, <3>2 DEF LeftWell
    <3> QED BY <2>1, <2>4, <3>1, <3>2, <3>3 DEF LeftWell
  <2> QED BY <1>f, <1>k, <1>l, <2>1, <2>5
<1>12. ASSUME NEW r \in Rooms, ExpireRoom(r) PROVE Left'
  <2>1. /\ presence' = [presence EXCEPT ![r] = Emptied]
        /\ UNCHANGED <<up, hasty, meta, call>>
    BY <1>12 DEF ExpireRoom
  <2>2. \A q \in Rooms, u \in Sockets :
          presence'[q][u] = "out" \/ presence'[q][u] = presence[q][u]
    BY <1>t, <2>1 DEF PTypeOK, Emptied
  <2>3. ASSUME NEW c \in Calls, NEW u \in Sockets \ hasty', LeftBy(c, u)'
        PROVE  LeftWell(c, u)'
    <3>1. LeftBy(c, u)
      BY <2>1, <2>3 DEF LeftBy
    <3>2. LeftWell(c, u)
      BY <1>l, <2>1, <3>1
    <3>3. call[c].room \in Rooms \cup {NoRoom}
      BY <1>t, <3>1, CallRecord DEF LeftBy
    <3> QED BY <2>1, <2>2, <3>2, <3>3 DEF LeftWell, Running
  <2> QED BY <1>f, <1>k, <1>l, <2>1, <2>3
<1>13. ASSUME UNCHANGED pvars PROVE Left'
  BY <1>13 DEF Left, CallsOf, Running, pvars
<1> QED
  BY <1>2, <1>3, <1>4, <1>6, <1>7, <1>8, <1>9, <1>10, <1>11, <1>12, <1>13 DEF PNext, Rest

\* The inductive invariant of who is in, and who has left.
Comings == Shape /\ Roll /\ Left

\* Nobody is in and nobody has left at first.
LEMMA ComingsInit == PInit => Comings
<1> SUFFICES ASSUME PInit PROVE Comings
  OBVIOUS
<1>1. \A c \in Calls : call[c] = Free
  BY DEF PInit
<1>2. \A s : RoomsOf(s) = {} /\ CallsOf(s) = {}
  BY <1>1 DEF RoomsOf, CallsOf
<1>3. Roll
  BY <1>1, <1>2 DEF PInit, Roll, Emptied
<1>4. Left
  BY <1>1, <1>2 DEF PInit, Left
<1> QED BY <1>3, <1>4, ShapeInit DEF Comings

\* Who is in and who has left stays accounted for.
LEMMA ComingsStep == Comings /\ [PNext]_pvars => Comings'
BY ShapeStep, RollStep, LeftStep DEF Comings

\* The comings and goings of sockets are booked as the handlers mean them to be: the
\* members of a room, the hash, the map and the calls agree in every reachable state.
THEOREM ComingsAndGoings == PSpec => []Comings
BY ComingsInit, ComingsStep, PTL DEF PSpec

\* The variables of the presence handlers keep their types.
THEOREM PresenceTypes == PSpec => []PTypeOK
<1>1. Comings => PTypeOK
  BY DEF Comings, Shape
<1> QED BY <1>1, ComingsAndGoings, PTL

\* OrderlyLeave: a socket that left in peace has no entry in the map, and is in the hash
\* only of a sheet it had opened before the one it left.
THEOREM LeavesAreClean == PSpec => []OrderlyLeave
<1>1. Comings => OrderlyLeave
  <2> SUFFICES ASSUME Comings, NEW s \in Sockets \ up, Orderly(s),
                      \A c \in CallsOf(s) : ~Running(c)
               PROVE  /\ meta[s] = NoRoom
                      /\ \A r \in Rooms : presence[r][s] # "out" =>
                           r \in RoomsOf(s) /\ LeftAnother(s, r)
    BY DEF OrderlyLeave
  <2>1. s \notin hasty /\ \A c \in CallsOf(s) : call[c].at # "failed"
    BY DEF Orderly
  <2>2. PICK c \in Calls : LeftBy(c, s)
    BY <2>1, LeftForm DEF Comings
  <2>3. c \in CallsOf(s) /\ call[c].at = "done"
    BY <2>1, <2>2 DEF LeftBy, CallsOf, Running
  <2>4. /\ call[c].room # NoRoom => presence[call[c].room][s] = "out"
        /\ meta[s] = NoRoom
    BY <2>1, <2>2, <2>3, LeaveAlone DEF Comings
  <2>5. \A r \in Rooms : presence[r][s] # "out" => r \in RoomsOf(s) /\ call[c].room # r
    BY <2>4, NoRoomAssumption DEF Comings, Roll
  <2> QED BY <2>2, <2>3, <2>4, <2>5 DEF LeftAnother, LeftBy
<1> QED BY <1>1, ComingsAndGoings, PTL

-----------------------------------------------------------------------------
(* How calls, rooms and strays go on.                                      *)

\* What a step may do to one call: a running call stays, takes its turn or is cut off,
\* and a call that was not made begins.
LEMMA Fate ==
    ASSUME Shape, [PNext]_pvars, NEW d \in Calls, call'[d] # call[d]
    PROVE  \/ /\ call[d] = Free
              /\ \E s \in Sockets :
                   \/ \E r \in Visits[s] : Join(d, s, r)
                   \/ Disconnect(d, s) \/ Cursor(d, s)
           \/ JoinExpire(d) \/ JoinList(d) \/ JoinDone(d)
           \/ LeaveCount(d) \/ LeaveDrop(d) \/ LeaveDone(d) \/ CursorSet(d)
           \/ Running(d) /\ call'[d] # Free /\ call'[d].at = "failed"
<1>t. PTypeOK
  BY DEF Shape
<1>1. ASSUME NEW c \in Calls, NEW s, Begin(c, s) PROVE c = d
  BY <1>t, <1>1, CallType DEF Begin
<1>2. ASSUME NEW c \in Calls, Turn(c) PROVE c = d
  BY <1>t, <1>2, CallType DEF Turn
<1>3. ASSUME NEW i \in Instances, CrashOf(i)
      PROVE  Running(d) /\ call'[d] # Free /\ call'[d].at = "failed"
  <2>1. Running(d) /\ call'[d] = [call[d] EXCEPT !.at = "failed", !.got = {}]
    BY <1>3, QueueCrash
  <2>2. call'[d] = [[call[d] EXCEPT !.at = "failed"] EXCEPT !.got = {}]
    BY <2>1
  <2>3. call[d] \in Record
    BY <1>t, <2>1, CallRecord DEF Running
  <2>4. call'[d] \in Record /\ call'[d].at = "failed"
    BY <2>2, <2>3 DEF Record
  <2> QED BY <2>1, <2>4, FreeAssumption
<1>4. ASSUME NEW c \in Calls, Fail(c)
      PROVE  Running(d) /\ call'[d] # Free /\ call'[d].at = "failed"
  <2>1. Turn(c) /\ call'[c].at = "failed"
    BY <1>t, <1>4, Turns
  <2>2. c = d
    BY <1>2, <2>1
  <2> QED BY <2>1, <2>2, FreeAssumption DEF Turn
<1>5. ASSUME NEW c \in Calls, NEW s \in Sockets,
             (\E r \in Visits[s] : Join(c, s, r)) \/ Disconnect(c, s) \/ Cursor(c, s)
      PROVE  c = d /\ call[d] = Free
  <2>1. Begin(c, s)
    BY <1>t, <1>5, Begins
  <2> QED BY <1>1, <2>1 DEF Begin
<1>6. ASSUME NEW c \in Calls,
             \/ JoinExpire(c) \/ JoinList(c) \/ JoinDone(c)
             \/ LeaveCount(c) \/ LeaveDrop(c) \/ LeaveDone(c) \/ CursorSet(c)
      PROVE  c = d
  BY <1>t, <1>2, <1>6, Turns
<1>7. ASSUME call' = call PROVE FALSE
  BY <1>7
<1> QED BY <1>3, <1>4, <1>5, <1>6, <1>7 DEF PNext, ExpireRoom, Rest, pvars

\* A join that runs, and that no reply reached, is as it was or was cut off; the others
\* went one step on.
LEMMA JoinFate ==
    ASSUME Shape, [PNext]_pvars, NEW d \in Calls, NEW u, NEW r, Joining(d, u, r)
    PROVE  \/ call'[d] = call[d] /\ Joining(d, u, r)'
           \/ JoinExpire(d) /\ Joining(d, u, r)' /\ call'[d].at = "expire"
           \/ JoinList(d) /\ Joining(d, u, r)' /\ call'[d].at = "list"
           \/ JoinDone(d) /\ call[d].at = "list"
           \/ ~Orderly(u)'
<1>1. /\ PTypeOK /\ call[d] # Free /\ call[d].kind = "join"
      /\ call[d].socket = u /\ call[d].room = r
  BY DEF Shape, Joining, Running
<1>2. /\ call'[d] # Free /\ call'[d].kind = "join"
      /\ call'[d].socket = u /\ call'[d].room = r
  BY <1>1, CallsKept DEF CallKept
<1>3. CASE call'[d] = call[d]
  BY <1>3 DEF Joining, Running
<1>4. CASE JoinExpire(d) \/ JoinList(d) \/ JoinDone(d)
  <2>1. \/ JoinExpire(d) /\ call'[d].at = "expire"
        \/ JoinList(d) /\ call'[d].at = "list"
        \/ JoinDone(d) /\ call[d].at = "list"
    BY <1>1, <1>4, Turns
  <2> QED BY <1>2, <2>1 DEF Joining, Running
<1>5. CASE call'[d].at = "failed"
  BY <1>2, <1>5 DEF Orderly, CallsOf
<1>6. CASE LeaveCount(d) \/ LeaveDrop(d) \/ LeaveDone(d) \/ CursorSet(d)
  BY <1>1, <1>6, Turns
<1> QED BY <1>1, <1>3, <1>4, <1>5, <1>6, Fate

\* A leave that runs stays, goes one step on, tells the room, or was cut off.
LEMMA LeaveFate ==
    ASSUME Shape, [PNext]_pvars, NEW c \in Calls, NEW v, NEW r, Leaving(c, v, r)
    PROVE  \/ call'[c] = call[c] /\ Leaving(c, v, r)'
           \/ Turn(c) /\ Leaving(c, v, r)'
           \/ Turn(c) /\ LeaveDone(c)
           \/ ~Orderly(v)'
<1>1. /\ PTypeOK /\ call[c] # Free /\ call[c].kind = "leave"
      /\ call[c].socket = v /\ call[c].room = r
  BY DEF Shape, Leaving, Running
<1>2. /\ call'[c] # Free /\ call'[c].kind = "leave"
      /\ call'[c].socket = v /\ call'[c].room = r
  BY <1>1, CallsKept DEF CallKept
<1>3. CASE call'[c] = call[c]
  BY <1>3 DEF Leaving, Running
<1>4. CASE LeaveCount(c) \/ LeaveDrop(c) \/ LeaveDone(c)
  <2>1. Turn(c) /\ (call'[c].at \in {"hlen", "del"} \/ LeaveDone(c))
    BY <1>1, <1>4, Turns
  <2> QED BY <1>2, <2>1 DEF Leaving, Running
<1>5. CASE call'[c].at = "failed"
  BY <1>2, <1>5 DEF Orderly, CallsOf
<1>6. CASE JoinExpire(c) \/ JoinList(c) \/ JoinDone(c) \/ CursorSet(c)
  BY <1>1, <1>6, Turns
<1> QED BY <1>1, <1>3, <1>4, <1>5, <1>6, Fate

\* Redis keeps the order: what was asked before another call is answered before it.
LEMMA AheadKept ==
    ASSUME Shape, [PNext]_pvars, NEW d \in Calls, NEW e \in Calls,
           Ahead(d, e), call'[d] = call[d], Running(e)'
    PROVE  Ahead(d, e)'
<1>t. PTypeOK
  BY DEF Shape
<1>1. ASSUME NEW c \in Calls, Turn(c), call'[c] # call[c] PROVE Ahead(d, e)'
  BY <1>1, QueueTurn
<1>2. ASSUME NEW c \in Calls,
             \/ JoinExpire(c) \/ JoinList(c) \/ JoinDone(c) \/ LeaveCount(c) \/ LeaveDrop(c)
             \/ LeaveDone(c) \/ CursorSet(c) \/ Fail(c)
      PROVE  Ahead(d, e)'
  <2>1. Turn(c) /\ (call'[c].at # call[c].at \/ Fail(c))
    BY <1>t, <1>2, Turns
  <2>2. Fail(c) => call'[c].at # call[c].at
    BY <1>t, Turns DEF Fail, Running
  <2> QED BY <1>1, <2>1, <2>2
<1>3. ASSUME NEW c \in Calls, NEW s \in Sockets, Begin(c, s),
             (Running(c)' /\ Send(c, s)) \/ (~Running(c)' /\ UNCHANGED replies)
      PROVE  Ahead(d, e)'
  <2>1. CASE Running(c)' /\ Send(c, s)
    BY <1>3, <2>1, QueueBegin
  <2>2. CASE UNCHANGED replies
    BY <2>2 DEF Ahead
  <2> QED BY <1>3, <2>1, <2>2
<1>4. ASSUME NEW c \in Calls, NEW s \in Sockets,
             (\E r \in Visits[s] : Join(c, s, r)) \/ Disconnect(c, s) \/ Cursor(c, s)
      PROVE  Ahead(d, e)'
  BY <1>t, <1>3, <1>4, Begins
<1>5. ASSUME NEW i \in Instances, CrashOf(i) PROVE Ahead(d, e)'
  BY <1>5, QueueCrash
<1>6. ASSUME UNCHANGED replies PROVE Ahead(d, e)'
  BY <1>6 DEF Ahead
<1> QED BY <1>2, <1>4, <1>5, <1>6 DEF PNext, ExpireRoom, Rest, pvars

\* What only ever grows: the sheets a socket has opened, those a client of two instances
\* opened, the calls that failed, the leaves of other sheets.
LEMMA Grows ==
    ASSUME Shape, [PNext]_pvars
    PROVE  /\ \A s : RoomsOf(s) \subseteq RoomsOf(s)'
           /\ \A r : OneHome(r)' => OneHome(r)
           /\ \A s : ~Orderly(s) => ~Orderly(s)'
           /\ \A s, r : LeftAnother(s, r) => LeftAnother(s, r)'
           /\ wiped \subseteq wiped'
<1>k. \A d \in Calls : CallKept(d)
  BY CallsKept
<1>1. \A s : RoomsOf(s) \subseteq RoomsOf(s)'
  BY <1>k, RoomsGrow
<1>2. \A r : OneHome(r)' => OneHome(r)
  BY <1>1 DEF OneHome
<1>3. hasty \subseteq hasty'
  <2>1. ASSUME NEW c \in Calls, Turn(c) PROVE hasty' = hasty
    BY <2>1 DEF Turn
  <2>2. ASSUME NEW c \in Calls, NEW s \in Sockets,
               (\E r \in Visits[s] : Join(c, s, r)) \/ Disconnect(c, s) \/ Cursor(c, s)
        PROVE  hasty \subseteq hasty'
    BY <2>2 DEF Join, Disconnect, Gone, Cursor
  <2>3. ASSUME NEW i \in Instances, CrashOf(i) PROVE hasty \subseteq hasty'
    BY <2>3 DEF CrashOf
  <2>4. PTypeOK
    BY DEF Shape
  <2> QED BY <2>1, <2>2, <2>3, <2>4, Turns DEF PNext, ExpireRoom, Rest, pvars
<1>4. ASSUME NEW s, ~Orderly(s) PROVE ~Orderly(s)'
  <2>1. CASE s \in hasty
    BY <1>3, <2>1 DEF Orderly
  <2>2. CASE \E c \in CallsOf(s) : call[c].at = "failed"
    <3>1. PICK c \in Calls : call[c] # Free /\ call[c].socket = s /\ call[c].at = "failed"
      BY <2>2 DEF CallsOf
    <3>2. call'[c] = call[c]
      BY <1>k, <3>1 DEF CallKept, Running
    <3> QED BY <3>1, <3>2 DEF Orderly, CallsOf
  <2> QED BY <1>4, <2>1, <2>2 DEF Orderly
<1>5. \A s, r : LeftAnother(s, r) => LeftAnother(s, r)'
  BY <1>k DEF LeftAnother, CallsOf, CallKept
<1>6. wiped \subseteq wiped'
  <2>1. ASSUME NEW c \in Calls,
               \/ JoinExpire(c) \/ JoinList(c) \/ JoinDone(c) \/ LeaveCount(c) \/ LeaveDrop(c)
               \/ LeaveDone(c) \/ CursorSet(c) \/ Fail(c)
        PROVE  wiped \subseteq wiped'
    BY <2>1 DEF JoinExpire, JoinList, JoinDone, LeaveCount, LeaveDrop, LeaveDone, CursorSet, Fail
  <2>2. ASSUME NEW c \in Calls, NEW s \in Sockets,
               (\E r \in Visits[s] : Join(c, s, r)) \/ Disconnect(c, s) \/ Cursor(c, s)
        PROVE  wiped \subseteq wiped'
    BY <2>2 DEF Join, Disconnect, Cursor
  <2>3. ASSUME NEW i \in Instances, CrashOf(i) PROVE wiped \subseteq wiped'
    BY <2>3 DEF CrashOf
  <2> QED BY <2>1, <2>2, <2>3 DEF PNext, ExpireRoom, Rest, pvars
<1> QED BY <1>1, <1>2, <1>4, <1>5, <1>6

\* Whoever comes into a room is joining it.
LEMMA Comes ==
    ASSUME Shape, [PNext]_pvars, NEW r \in Rooms, NEW u, u \in members'[r], u \notin members[r]
    PROVE  /\ u \in Sockets /\ u \in up /\ shown' = shown
           /\ \E c \in Calls : Joining(c, u, r)' /\ call'[c].at = "hset"
<1>t. PTypeOK
  BY DEF Shape
<1>1. ASSUME NEW c \in Calls, NEW s \in Sockets, NEW q \in Visits[s], Join(c, s, q)
      PROVE  /\ u \in Sockets /\ u \in up /\ shown' = shown
             /\ \E d \in Calls : Joining(d, u, r)' /\ call'[d].at = "hset"
  <2>1. /\ Begin(c, s) /\ Running(c)' /\ q \in Rooms
        /\ call'[c].kind = "join" /\ call'[c].room = q /\ call'[c].at = "hset"
    BY <1>t, <1>1, Begins
  <2>2. /\ members' = [members EXCEPT ![q] = @ \cup {s}]
        /\ s \in up /\ shown' = shown
    BY <1>1 DEF Join
  <2>3. q = r /\ u = s
    BY <1>t, <2>1, <2>2 DEF PTypeOK
  <2> QED BY <2>1, <2>2, <2>3 DEF Begin, Joining
<1>2. ASSUME NEW c \in Calls, NEW s \in Sockets, Disconnect(c, s) PROVE FALSE
  BY <1>2 DEF Disconnect, Gone
<1>3. ASSUME NEW i \in Instances, CrashOf(i) PROVE FALSE
  BY <1>3 DEF CrashOf
<1>4. ASSUME NEW c \in Calls, Turn(c) PROVE FALSE
  BY <1>4 DEF Turn
<1>5. ASSUME UNCHANGED members PROVE FALSE
  BY <1>5
<1>6. \A c \in Calls, s \in Sockets : Cursor(c, s) => UNCHANGED members
  BY DEF Cursor
<1> QED BY <1>t, <1>1, <1>2, <1>3, <1>4, <1>5, <1>6, Turns DEF PNext, ExpireRoom, Rest, pvars

\* Whoever goes out of a room has strayed, or its leave of the room is asked for behind
\* everything asked for on its instance before.
LEMMA Goes ==
    ASSUME Shape, [PNext]_pvars, NEW r \in Rooms, NEW v, v \in members[r], v \notin members'[r]
    PROVE  \/ Strayed(v, r)'
           \/ \E c \in Calls : /\ Leaving(c, v, r)'
                               /\ \A e \in Calls : Running(e) /\ HomeOf(e) = Home[v] =>
                                    Ahead(e, c)'
<1>t. PTypeOK
  BY DEF Shape
<1>1. ASSUME NEW b \in Calls, NEW s \in Sockets, Disconnect(b, s)
      PROVE  \/ Strayed(v, r)'
             \/ \E c \in Calls : /\ Leaving(c, v, r)'
                                 /\ \A e \in Calls : Running(e) /\ HomeOf(e) = Home[v] =>
                                      Ahead(e, c)'
  <2>1. /\ Begin(b, s) /\ call'[b].kind = "leave" /\ call'[b].room = meta[s]
        /\ meta[s] # NoRoom => /\ Running(b)' /\ Send(b, s)
    BY <1>t, <1>1, Begins
  <2>2. v = s
    BY <1>1 DEF Disconnect, Gone
  <2>3. call'[b] # Free /\ call'[b].socket = s
    BY <2>1, FreeAssumption DEF Begin
  <2>4. CASE meta[s] = r
    <3>1. Running(b)' /\ Send(b, s)
      BY <2>1, <2>4, NoRoomAssumption
    <3>2. \A e \in Calls : Running(e) /\ HomeOf(e) = Home[s] => Ahead(e, b)'
      BY <2>1, <3>1, QueueBegin
    <3> QED BY <2>1, <2>2, <2>3, <2>4, <3>1, <3>2 DEF Leaving
  <2>5. CASE meta[s] # r
    BY <2>1, <2>2, <2>3, <2>5 DEF Strayed, LeftAnother, CallsOf
  <2> QED BY <2>4, <2>5
<1>2. ASSUME NEW i \in Instances, CrashOf(i) PROVE v \in hasty'
  BY <1>2 DEF CrashOf
<1>3. ASSUME NEW c \in Calls, NEW s \in Sockets, NEW q \in Visits[s], Join(c, s, q) PROVE FALSE
  BY <1>t, <1>3 DEF Join, PTypeOK
<1>4. ASSUME NEW c \in Calls, Turn(c) PROVE FALSE
  BY <1>4 DEF Turn
<1>5. ASSUME UNCHANGED members PROVE FALSE
  BY <1>5
<1>6. \A c \in Calls, s \in Sockets : Cursor(c, s) => UNCHANGED members
  BY DEF Cursor
<1>7. v \in hasty' => Strayed(v, r)'
  BY DEF Strayed, Orderly
<1> QED
  BY <1>t, <1>1, <1>2, <1>3, <1>4, <1>5, <1>6, <1>7, Turns DEF PNext, ExpireRoom, Rest, pvars

\* Whoever is in the hash of a room is in the room or has strayed.
LEMMA Ghosts ==
    ASSUME Comings, NEW r \in Rooms, NEW v \in Sockets, presence[r][v] # "out"
    PROVE  v \in members[r] \/ Strayed(v, r)
<1>1. CASE v \in up
  BY <1>1 DEF Comings, Roll
<1>2. CASE v \notin up /\ v \in hasty
  BY <1>2 DEF Strayed, Orderly
<1>3. CASE v \notin up /\ v \notin hasty
  <2>1. PICK c \in Calls : call[c] # Free /\ call[c].socket = v /\ call[c].kind = "leave"
    BY <1>3 DEF Comings, Left, CallsOf
  <2>2. call[c].room # NoRoom => presence[call[c].room][v] = "out"
    BY <1>3, <2>1 DEF Comings, Left
  <2>3. call[c].room # r
    BY <2>2, NoRoomAssumption
  <2> QED BY <2>1, <2>3 DEF Strayed, LeftAnother, CallsOf
<1> QED BY <1>1, <1>2, <1>3

\* Two sockets that opened a sheet served by one instance are on that instance.
LEMMA SameHome ==
    ASSUME Shape, NEW r, OneHome(r), NEW e \in Calls, Running(e),
           call[e].kind = "join", call[e].room = r, NEW u \in Sockets, r \in RoomsOf(u)
    PROVE  HomeOf(e) = Home[u]
<1>1. call[e].socket \in Sockets /\ call[e] # Free
  BY CallRecord DEF Shape, Running
<1>2. r \in RoomsOf(call[e].socket)
  BY <1>1, Opened
<1> QED BY <1>1, <1>2 DEF OneHome, HomeOf

-----------------------------------------------------------------------------
(* Lists: what is taken and what is shown.                                 *)

\* The inductive invariant of what the clients list.
Lists == Unlisted /\ TakenComplete /\ ShownComplete /\ TakenSound /\ ShownSound

\* Who writes the lists that are shown.
LEMMA ShownBy ==
    ASSUME Shape, [PNext]_pvars, NEW s \in Sockets, shown'[s] # shown[s]
    PROVE  \/ \E c \in Calls : /\ JoinDone(c) /\ shown'[s] = call[c].got \ Guests
                               /\ s \in members[call[c].room] \cup ({call[c].socket} \cap up)
           \/ \E c \in Calls : /\ LeaveDone(c) /\ shown'[s] = shown[s] \ {call[c].socket}
                               /\ s \in members[call[c].room]
           \/ s \notin up' /\ shown'[s] = {}
<1>t. PTypeOK
  BY DEF Shape
<1>1. ASSUME NEW c \in Calls, JoinDone(c)
      PROVE  /\ shown'[s] = call[c].got \ Guests
             /\ s \in members[call[c].room] \cup ({call[c].socket} \cap up)
  BY <1>1 DEF JoinDone, Show
<1>2. ASSUME NEW c \in Calls, LeaveDone(c)
      PROVE  shown'[s] = shown[s] \ {call[c].socket} /\ s \in members[call[c].room]
  BY <1>2 DEF LeaveDone
<1>3. ASSUME NEW c \in Calls, NEW u \in Sockets, Disconnect(c, u)
      PROVE  s \notin up' /\ shown'[s] = {}
  BY <1>3 DEF Disconnect, Gone, Show
<1>4. ASSUME NEW i \in Instances, CrashOf(i) PROVE s \notin up' /\ shown'[s] = {}
  BY <1>4 DEF CrashOf, Show
<1>5. ASSUME UNCHANGED shown PROVE FALSE
  BY <1>5
<1>6. /\ \A c \in Calls, u \in Sockets :
           Cursor(c, u) \/ (\E r \in Visits[u] : Join(c, u, r)) => UNCHANGED shown
      /\ \A c \in Calls :
           JoinExpire(c) \/ JoinList(c) \/ LeaveCount(c) \/ LeaveDrop(c) \/ CursorSet(c) \/ Fail(c)
           => UNCHANGED shown
  BY DEF Cursor, Join, JoinExpire, JoinList, LeaveCount, LeaveDrop, CursorSet, Fail
<1> QED
  BY <1>1, <1>2, <1>3, <1>4, <1>5, <1>6 DEF PNext, ExpireRoom, Rest, pvars

\* A join that ends was waiting for its list; its client is told about its own room.
LEMMA EndsListing ==
    ASSUME Shape, Roll, NEW c \in Calls, JoinDone(c)
    PROVE  /\ Turn(c) /\ Listing(c, call[c].room) /\ call[c].room \in Rooms
           /\ call[c].room \in RoomsOf(call[c].socket)
           /\ \A s \in members[call[c].room] \cup ({call[c].socket} \cap up) :
                call[c].room \in RoomsOf(s)
<1>1. Turn(c) /\ call[c].kind = "join" /\ call[c].at = "list"
  BY Turns DEF Shape
<1>2. call[c] # Free /\ call[c].room \in Rooms /\ Running(c)
  BY <1>1 DEF Turn, Running, Shape, CallShape
<1>3. call[c].room \in RoomsOf(call[c].socket)
  BY <1>1, <1>2, Opened
<1>4. members[call[c].room] \subseteq Sockets
  BY <1>2 DEF Shape, PTypeOK
<1> QED BY <1>1, <1>2, <1>3, <1>4 DEF Listing, Roll

\* Nobody lists a guest, and who opened nothing lists nobody.
LEMMA UnlistedStep == Comings /\ Unlisted /\ [PNext]_pvars => Unlisted'
<1> SUFFICES ASSUME Comings, Unlisted, [PNext]_pvars, NEW s \in Sockets
             PROVE  shown'[s] \cap Guests = {} /\ (RoomsOf(s)' = {} => shown'[s] = {})
  BY DEF Unlisted
<1>1. shown[s] \cap Guests = {} /\ (RoomsOf(s) = {} => shown[s] = {})
  BY DEF Unlisted
<1>2. RoomsOf(s) \subseteq RoomsOf(s)'
  BY Grows DEF Comings
<1>3. ASSUME NEW c \in Calls, JoinDone(c),
             s \in members[call[c].room] \cup ({call[c].socket} \cap up)
      PROVE  RoomsOf(s) # {}
  BY <1>3, EndsListing DEF Comings
<1>4. \/ shown'[s] = shown[s] \/ shown'[s] = {}
      \/ \E u : shown'[s] = shown[s] \ {u}
      \/ \E S : shown'[s] = S \ Guests /\ RoomsOf(s) # {}
  BY <1>3, ShownBy DEF Comings
<1> QED BY <1>1, <1>2, <1>4

\* A join that waits for its list waited already or asks for it in this step.
LEMMA Listings ==
    ASSUME Shape, [PNext]_pvars, NEW e \in Calls, NEW r, Listing(e, r)'
    PROVE  JoinList(e) \/ call'[e] = call[e]
<1> SUFFICES ASSUME call'[e] # call[e] PROVE JoinList(e)
  OBVIOUS
<1>t. PTypeOK
  BY DEF Shape
<1>1. call'[e] # Free /\ call'[e].kind = "join" /\ call'[e].at = "list"
  BY DEF Listing, Running
<1>2. ASSUME NEW s \in Sockets,
             (\E q \in Visits[s] : Join(e, s, q)) \/ Disconnect(e, s) \/ Cursor(e, s)
      PROVE  FALSE
  BY <1>t, <1>1, <1>2, Begins
<1> QED BY <1>t, <1>1, <1>2, Fate, Turns DEF Turn

\* A list that is taken misses a member only if a join of that member lists later.
LEMMA TakenCompleteStep == Comings /\ TakenComplete /\ [PNext]_pvars => TakenComplete'
<1> SUFFICES ASSUME Comings, TakenComplete, [PNext]_pvars,
                    NEW r \in Rooms \ wiped', OneHome(r)', NEW e \in Calls, Listing(e, r)',
                    NEW u \in members'[r]
             PROVE  \/ u \in call'[e].got \/ ~Orderly(u)'
                    \/ \E d \in Calls : Joining(d, u, r)' /\ (call'[d].at # "list" \/ Ahead(e, d)')
  BY DEF TakenComplete
<1>t. Shape /\ Roll /\ PTypeOK
  BY DEF Comings, Shape
<1>1. r \notin wiped /\ OneHome(r) /\ (~Orderly(u) => ~Orderly(u)')
  BY <1>t, Grows
<1>2. CASE u \notin members[r]
  <2>1. \E d \in Calls : Joining(d, u, r)' /\ call'[d].at = "hset"
    BY <1>t, <1>2, Comes
  <2> QED BY <2>1
<1>3. CASE u \in members[r] /\ JoinList(e)
  <2>1. call[e].kind = "join" /\ call'[e].got = Listed(call[e].room) /\ call[e].room = r
    BY <1>t, <1>3, Turns DEF Turn, Listing
  <2>2. u \in Sockets /\ presence[r][u] # "out"
    BY <1>t, <1>1, <1>3 DEF Roll, PTypeOK
  <2> QED BY <2>1, <2>2 DEF Listed
<1>4. CASE u \in members[r] /\ call'[e] = call[e]
  <2>1. Listing(e, r) /\ Running(e)' /\ Running(e)
    BY <1>4 DEF Listing, Running
  <2>2. r \in RoomsOf(u) /\ u \in Sockets
    BY <1>t, <1>4 DEF Roll, PTypeOK
  <2>3. \/ u \in call[e].got \/ ~Orderly(u)
        \/ \E d \in Calls : Joining(d, u, r) /\ (call[d].at # "list" \/ Ahead(e, d))
    BY <1>1, <1>4, <2>1 DEF TakenComplete
  <2>4. ASSUME NEW d \in Calls, Joining(d, u, r), call[d].at # "list" \/ Ahead(e, d)
        PROVE  \/ ~Orderly(u)'
               \/ Joining(d, u, r)' /\ (call'[d].at # "list" \/ Ahead(e, d)')
    <3>1. CASE call'[d] = call[d] /\ Joining(d, u, r)'
      BY <1>t, <1>4, <2>4, <3>1, AheadKept DEF Joining
    <3>2. CASE JoinList(d) /\ Joining(d, u, r)' /\ call'[d].at = "list"
      <4>1. Turn(d) /\ d # e
        BY <1>t, <1>4, <2>1, <3>2, Turns DEF Listing
      <4>2. HomeOf(e) = Home[u] /\ HomeOf(d) = Home[u]
        BY <1>t, <1>1, <2>1, <2>2, <2>4, SameHome DEF Listing, Joining
      <4>3. Ahead(e, d)'
        BY <1>t, <2>1, <3>2, <4>1, <4>2, QueueTurn DEF Joining
      <4> QED BY <3>2, <4>3
    <3>3. CASE JoinDone(d) /\ call[d].at = "list"
      BY <1>t, <2>4, <3>3, EndsListing, QueueTurn
    <3> QED BY <1>t, <2>4, <3>1, <3>2, <3>3, JoinFate
  <2> QED BY <1>1, <1>4, <2>3, <2>4
<1>5. JoinList(e) \/ call'[e] = call[e]
  BY <1>t, Listings
<1> QED BY <1>2, <1>3, <1>4, <1>5

\* A list that is shown to a room holds its members, but those whose join lists later.
LEMMA Told ==
    ASSUME Comings, TakenComplete, [PNext]_pvars, NEW c \in Calls, JoinDone(c),
           NEW r \in Rooms \ wiped, OneHome(r), call[c].room = r,
           NEW u \in members[r], u \notin Guests
    PROVE  \/ u \in call[c].got \ Guests \/ ~Orderly(u)'
           \/ \E d \in Calls : Joining(d, u, r)'
<1>t. Shape /\ Roll /\ PTypeOK
  BY DEF Comings, Shape
<1>1. Turn(c) /\ Listing(c, r)
  BY <1>t, EndsListing
<1>2. \/ u \in call[c].got \/ ~Orderly(u)
      \/ \E d \in Calls : Joining(d, u, r) /\ (call[d].at # "list" \/ Ahead(c, d))
  BY <1>1 DEF TakenComplete
<1>3. ASSUME NEW d \in Calls, Joining(d, u, r), call[d].at # "list" \/ Ahead(c, d)
      PROVE  Joining(d, u, r)'
  <2>1. d # c
    BY <1>t, <1>1, <1>3, QueueTurn DEF Listing
  <2>2. call'[d] = call[d]
    BY <1>t, <1>1, <2>1, CallType DEF Turn
  <2> QED BY <1>3, <2>2 DEF Joining, Running
<1> QED BY <1>t, <1>2, <1>3, Grows

\* A client that keeps to a room lists a member, unless a join of either is running.
LEMMA ShownCompleteStep ==
    Comings /\ TakenComplete /\ ShownComplete /\ [PNext]_pvars => ShownComplete'
<1> SUFFICES ASSUME Comings, TakenComplete, ShownComplete, [PNext]_pvars,
                    NEW r \in Rooms \ wiped', OneHome(r)',
                    NEW u \in members'[r], NEW s \in members'[r],
                    u \notin Guests, RoomsOf(s)' = {r}
             PROVE  \/ u \in shown'[s] \/ ~Orderly(u)' \/ ~Orderly(s)'
                    \/ \E d \in Calls : Joining(d, u, r)' \/ Joining(d, s, r)'
  BY DEF ShownComplete
<1>t. Shape /\ Roll /\ PTypeOK
  BY DEF Comings, Shape
<1>1. /\ r \notin wiped /\ OneHome(r) /\ RoomsOf(s) \subseteq {r}
      /\ (~Orderly(u) => ~Orderly(u)') /\ (~Orderly(s) => ~Orderly(s)')
  BY <1>t, Grows
<1>2. CASE u \notin members[r] \/ s \notin members[r]
  BY <1>t, <1>2, Comes
<1>3. CASE u \in members[r] /\ s \in members[r]
  <2>1. /\ u \in Sockets /\ s \in Sockets /\ s \in up' /\ u \in up
        /\ RoomsOf(s) = {r}
    <3>1. PTypeOK'
      BY <1>t, ShapeStep DEF Shape
    <3>2. u \in Sockets /\ s \in Sockets /\ s \in up' /\ u \in up
      BY <1>t, <1>3, <3>1 DEF PTypeOK
    <3> QED BY <1>t, <1>1, <1>3, <3>2 DEF Roll
  <2>2. ASSUME NEW c \in Calls, JoinDone(c), call[c].room = r
        PROVE  u \in shown'[s] \/ ~Orderly(u)' \/ \E d \in Calls : Joining(d, u, r)'
    <3>1. shown'[s] = call[c].got \ Guests
      BY <1>3, <2>1, <2>2 DEF JoinDone, Show
    <3> QED BY <1>1, <1>3, <2>2, <3>1, Told
  <2>3. ASSUME u \in shown[s], u \notin shown'[s]
        PROVE  ~Orderly(u)' \/ \E d \in Calls : Joining(d, u, r)'
    <3>1. ASSUME NEW c \in Calls, LeaveDone(c), shown'[s] = shown[s] \ {call[c].socket}
          PROVE  FALSE
      <4>1. call[c].socket = u
        BY <2>3, <3>1
      <4>2. Turn(c) /\ call[c].kind = "leave"
        BY <1>t, <3>1, Turns
      <4>3. call[c].socket \notin up
        BY <1>t, <4>2 DEF Turn, Running, Shape, CallShape
      <4> QED BY <2>1, <4>1, <4>3
    <3>2. ASSUME NEW c \in Calls, JoinDone(c),
                 s \in members[call[c].room] \cup ({call[c].socket} \cap up)
          PROVE  call[c].room = r
      BY <1>t, <2>1, <3>2, EndsListing
    <3> QED BY <1>t, <2>1, <2>2, <2>3, <3>1, <3>2, ShownBy
  <2>4. ASSUME NEW t \in {u, s}, NEW d \in Calls, Joining(d, t, r)
        PROVE  \/ u \in shown'[s] \/ ~Orderly(u)' \/ ~Orderly(s)'
               \/ \E e \in Calls : Joining(e, u, r)' \/ Joining(e, s, r)'
    <3>1. \/ Joining(d, t, r)' \/ ~Orderly(t)' \/ JoinDone(d)
      BY <1>t, <2>4, JoinFate
    <3> QED BY <2>2, <2>4, <3>1 DEF Joining
  <2>5. \/ u \in shown[s] \/ ~Orderly(u) \/ ~Orderly(s)
        \/ \E d \in Calls : Joining(d, u, r) \/ Joining(d, s, r)
    BY <1>1, <1>3, <2>1 DEF ShownComplete
  <2> QED BY <1>1, <2>3, <2>4, <2>5
<1> QED BY <1>2, <1>3

\* A list that is taken names somebody who is not in the room only if he strayed or his
\* leave is told later.
LEMMA TakenSoundStep == Comings /\ TakenSound /\ [PNext]_pvars => TakenSound'
<1> SUFFICES ASSUME Comings, TakenSound, [PNext]_pvars,
                    NEW r \in Rooms, OneHome(r)', NEW e \in Calls, Listing(e, r)',
                    NEW v \in call'[e].got
             PROVE  \/ v \in members'[r] \/ Strayed(v, r)'
                    \/ \E c \in Calls : Leaving(c, v, r)' /\ Ahead(e, c)'
  BY DEF TakenSound
<1>t. Shape /\ Roll /\ PTypeOK
  BY DEF Comings, Shape
<1>1. OneHome(r) /\ (Strayed(v, r) => Strayed(v, r)')
  BY <1>t, Grows DEF Strayed
<1>2. CASE JoinList(e)
  <2>1. /\ Turn(e) /\ call'[e].got = Listed(call[e].room) /\ call[e].room = r
    BY <1>t, <1>2, Turns DEF Turn, Listing
  <2>2. v \in Sockets /\ presence[r][v] # "out"
    BY <2>1 DEF Listed
  <2>3. v \in members[r] \/ Strayed(v, r)
    BY <2>2, Ghosts
  <2> QED BY <1>1, <2>1, <2>3 DEF Turn
<1>3. CASE call'[e] = call[e]
  <2>1. Listing(e, r) /\ Running(e)' /\ Running(e) /\ v \in call[e].got
    BY <1>3 DEF Listing, Running
  <2>2. \/ v \in members[r] \/ Strayed(v, r)
        \/ \E c \in Calls : Leaving(c, v, r) /\ Ahead(e, c)
    BY <1>1, <2>1 DEF TakenSound
  <2>3. ASSUME v \in members[r], v \notin members'[r]
        PROVE  Strayed(v, r)' \/ \E c \in Calls : Leaving(c, v, r)' /\ Ahead(e, c)'
    <3>1. r \in RoomsOf(v) /\ v \in Sockets
      BY <1>t, <2>3 DEF Roll, PTypeOK
    <3>2. HomeOf(e) = Home[v]
      BY <1>t, <1>1, <2>1, <3>1, SameHome DEF Listing
    <3> QED BY <1>t, <2>1, <2>3, <3>2, Goes
  <2>4. ASSUME NEW c \in Calls, Leaving(c, v, r), Ahead(e, c)
        PROVE  Strayed(v, r)' \/ (Leaving(c, v, r)' /\ Ahead(e, c)')
    <3>1. ~Turn(c)
      BY <1>t, <2>4, QueueTurn
    <3>2. (call'[c] = call[c] /\ Leaving(c, v, r)') \/ ~Orderly(v)'
      BY <1>t, <2>4, <3>1, LeaveFate
    <3>3. CASE call'[c] = call[c] /\ Leaving(c, v, r)'
      BY <1>t, <1>3, <2>4, <3>3, AheadKept DEF Leaving
    <3> QED BY <3>2, <3>3 DEF Strayed
  <2> QED BY <1>1, <2>2, <2>3, <2>4
<1>5. JoinList(e) \/ call'[e] = call[e]
  BY <1>t, Listings
<1> QED BY <1>2, <1>3, <1>5

\* A client that keeps to a room lists somebody who is not in it only if he strayed or
\* his leave is still to be told.
LEMMA ShownSoundStep ==
    Comings /\ Unlisted /\ TakenSound /\ ShownSound /\ [PNext]_pvars => ShownSound'
<1> SUFFICES ASSUME Comings, Unlisted, TakenSound, ShownSound, [PNext]_pvars,
                    NEW r \in Rooms, OneHome(r)', NEW s \in members'[r], RoomsOf(s)' = {r},
                    NEW v \in shown'[s]
             PROVE  \/ v \in members'[r] \/ Strayed(v, r)'
                    \/ \E c \in Calls : Leaving(c, v, r)'
  BY DEF ShownSound
<1>t. Shape /\ Roll /\ PTypeOK
  BY DEF Comings, Shape
<1>1. /\ OneHome(r) /\ (Strayed(v, r) => Strayed(v, r)')
      /\ RoomsOf(s) \subseteq {r}
  BY <1>t, Grows DEF Strayed
<1>2. CASE s \notin members[r]
  <2>1. s \in Sockets /\ s \in up /\ shown' = shown
    BY <1>t, <1>2, Comes
  <2>2. RoomsOf(s) = {}
    BY <1>t, <1>1, <1>2, <2>1 DEF Roll
  <2> QED BY <2>1, <2>2 DEF Unlisted
<1>3. CASE s \in members[r]
  <2>1. s \in Sockets /\ s \in up' /\ RoomsOf(s) = {r}
    <3>1. PTypeOK'
      BY <1>t, ShapeStep DEF Shape
    <3>2. s \in Sockets /\ s \in up'
      BY <1>t, <1>3, <3>1 DEF PTypeOK
    <3> QED BY <1>t, <1>1, <1>3, <3>2 DEF Roll
  <2>2. v \in members[r] =>
          v \in members'[r] \/ Strayed(v, r)' \/ \E c \in Calls : Leaving(c, v, r)'
    BY <1>t, Goes
  <2>3. ASSUME v \in shown[s]
        PROVE  v \in members'[r] \/ Strayed(v, r)' \/ \E c \in Calls : Leaving(c, v, r)'
    <3>1. v \in members[r] \/ Strayed(v, r) \/ \E c \in Calls : Leaving(c, v, r)
      BY <1>1, <1>3, <2>1, <2>3 DEF ShownSound
    <3>2. ASSUME NEW c \in Calls, Leaving(c, v, r)
          PROVE  Leaving(c, v, r)' \/ Strayed(v, r)'
      <4>1. ~LeaveDone(c)
        <5> SUFFICES ASSUME LeaveDone(c) PROVE FALSE
          OBVIOUS
        <5>1. call[c].socket = v /\ call[c].room = r
          BY <3>2 DEF Leaving
        <5>2. shown'[s] = shown[s] \ {v}
          BY <1>3, <2>1, <5>1 DEF LeaveDone
        <5> QED BY <5>2
      <4> QED BY <1>t, <3>2, <4>1, LeaveFate DEF Strayed
    <3> QED BY <1>1, <2>2, <3>1, <3>2
  <2>4. ASSUME v \notin shown[s]
        PROVE  v \in members'[r] \/ Strayed(v, r)' \/ \E c \in Calls : Leaving(c, v, r)'
    <3>1. PICK c \in Calls : /\ JoinDone(c) /\ shown'[s] = call[c].got \ Guests
                             /\ s \in members[call[c].room] \cup ({call[c].socket} \cap up)
      BY <1>t, <2>1, <2>4, ShownBy
    <3>2. Turn(c) /\ Listing(c, call[c].room) /\ call[c].room = r
      BY <1>t, <2>1, <3>1, EndsListing
    <3>3. \/ v \in members[r] \/ Strayed(v, r)
          \/ \E d \in Calls : Leaving(d, v, r)
      BY <1>1, <3>1, <3>2 DEF TakenSound
    <3>4. ASSUME NEW d \in Calls, Leaving(d, v, r) PROVE Leaving(d, v, r)'
      <4>1. d # c
        BY <3>2, <3>4 DEF Listing, Leaving
      <4>2. call'[d] = call[d]
        BY <1>t, <3>2, <4>1, CallType DEF Turn
      <4> QED BY <3>4, <4>2 DEF Leaving, Running
    <3> QED BY <1>1, <2>2, <3>3, <3>4
  <2> QED BY <2>3, <2>4
<1> QED BY <1>2, <1>3

\* What the clients list is right, inductively.
THEOREM ListsKept == PSpec => [](Comings /\ Lists)
<1>1. PInit => Comings /\ Lists
  <2> SUFFICES ASSUME PInit PROVE Comings /\ Lists
    OBVIOUS
  <2>1. Comings
    BY ComingsInit
  <2>2. \A c \in Calls : call[c] = Free
    BY DEF PInit
  <2>3. \A r \in Rooms : members[r] = {}
    BY DEF PInit
  <2>4. Unlisted
    BY DEF PInit, Unlisted
  <2>5. TakenComplete /\ ShownComplete /\ TakenSound /\ ShownSound
    BY <2>2, <2>3 DEF TakenComplete, ShownComplete, TakenSound, ShownSound, Listing, Running
  <2> QED BY <2>1, <2>4, <2>5 DEF Lists
<1>2. Comings /\ Lists /\ [PNext]_pvars => (Comings /\ Lists)'
  BY ComingsStep, UnlistedStep, TakenCompleteStep, ShownCompleteStep, TakenSoundStep, ShownSoundStep
  DEF Lists
<1> QED BY <1>1, <1>2, PTL DEF PSpec

\* However joins and leaves overlap in a sheet served by one instance, whoever is missing
\* from a list, or named though gone, has a call under way that puts it right.
THEOREM ListsAreFollowed == PSpec => []ListsFollow
<1>1. Comings /\ Lists => ListsFollow
  BY DEF Lists, ListsFollow
<1> QED BY <1>1, ListsKept, PTL

\* In a sheet served by one instance, when all is quiet, the hash and the lists agree with
\* the room, up to the sockets that failed or left another sheet.
THEOREM ListsAgree == PSpec => []ListsConverge
<1>1. Comings /\ Lists => ListsConverge
  <2> SUFFICES ASSUME Comings, Lists, NEW r \in Rooms, Quiet, r \notin wiped, OneHome(r)
               PROVE  LET there == {s \in members[r] : Orderly(s)}
                          stray == {s \in Sockets : Strayed(s, r)}
                      IN  /\ there \subseteq Listed(r) /\ Listed(r) \subseteq members[r] \cup stray
                          /\ \A s \in there : RoomsOf(s) = {r} =>
                                /\ there \ Guests \subseteq shown[s]
                                /\ shown[s] \subseteq (members[r] \cup stray) \ Guests
    BY DEF ListsConverge
  <2>t. PTypeOK /\ Roll
    BY DEF Comings, Shape
  <2>q. \A c \in Calls : ~Running(c)
    BY DEF Quiet
  <2>m. members[r] \subseteq Sockets
    BY <2>t DEF PTypeOK
  <2>1. members[r] \subseteq Listed(r)
    BY <2>t, <2>m DEF Roll, Listed
  <2>2. \A v \in Listed(r) : v \in members[r] \/ Strayed(v, r)
    BY Ghosts DEF Listed
  <2>3. \A u, s \in members[r] : u \notin Guests /\ RoomsOf(s) = {r} /\ Orderly(u) /\ Orderly(s)
           => u \in shown[s]
    BY <2>q DEF Lists, ShownComplete, Joining
  <2>4. \A s \in members[r] : RoomsOf(s) = {r} =>
          \A v \in shown[s] : v \in members[r] \/ Strayed(v, r)
    BY <2>q DEF Lists, ShownSound, Leaving
  <2>5. \A s \in members[r] : shown[s] \subseteq Sockets \ Guests
    BY <2>t, <2>m DEF Lists, Unlisted, PTypeOK
  <2> QED BY <2>1, <2>2, <2>3, <2>4, <2>5 DEF Strayed, Listed
<1> QED BY <1>1, ListsKept, PTL
=============================================================================
