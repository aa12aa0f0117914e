------------------------------ MODULE ChatGateway ------------------------------
(***************************************************************************)
(* The chat of one API process: who is online, who is typing, the last     *)
(* messages of each room, and the rate limit of a user's events.  Tokens   *)
(* are verified without I/O, so that no event comes between a guard and    *)
(* its handler.  What is emitted to the clients is left out, but for what  *)
(* it reads.                                                               *)
(***************************************************************************)
EXTENDS Naturals, FiniteSets, Sequences, FiniteSetsExt

CONSTANTS
    Users, Sockets, Rooms, General,
    UserOf,         \* of a socket: the user of its token
    HistoryCap,     \* messages kept of a room
    MaxPerWindow,   \* maxMessagesPerMinute
    Window, Delay,  \* of the count, and until a refused client is cut off
    ClockEnd,       \* bound: the clock
    MaxMessages     \* bound: messages sent

ASSUME ChatAssumption ==
    /\ General \in Rooms /\ UserOf \in [Sockets -> Users]
    /\ HistoryCap \in Nat \ {0} /\ MaxPerWindow \in Nat /\ MaxMessages \in Nat
    /\ Window \in Nat \ {0} /\ Delay \in Nat /\ ClockEnd \in Nat

VARIABLES
    clock,
    socket,         \* of each: whether it is open, its token and its rooms
    presence,       \* of each user
    typing,         \* of each room
    history,        \* of each room, as <<message, user>>
    counted,        \* of each user: events in the window and its end
    cutAt,          \* of each socket: when it is to be cut off
    leftSince,      \* history: whose sockets closed since this one opened
    sent            \* bound: messages so far

chat == <<clock, socket, presence, typing, history, counted, cutAt, leftSince, sent>>

Open == {s \in Sockets : socket[s].open}
SocketsOf(u) == {s \in Open : UserOf[s] = u}

Closed == [open |-> FALSE, valid |-> FALSE, rooms |-> {}]
Never == ClockEnd + Delay + 1
NoWindow == [events |-> 0, reset |-> 0]

-----------------------------------------------------------------------------
(* Connections                                                             *)

UpdateUserPresence(u, status) == presence' = [presence EXCEPT ![u] = status]

\* A connection with an expired token is closed before it counts.
HandleConnection(s) ==
    /\ s \notin Open
    /\ UpdateUserPresence(UserOf[s], "online")
    /\ socket' = [socket EXCEPT ![s] = [open |-> TRUE, valid |-> TRUE, rooms |-> {General}]]
    /\ leftSince' = [leftSince EXCEPT ![s] = FALSE]
    /\ UNCHANGED <<clock, typing, history, counted, cutAt, sent>>

\* Mutant: a typing user who leaves goes on typing.
HandleDisconnectTyping(s) ==
    /\ UpdateUserPresence(UserOf[s], "offline")
    /\ socket' = [socket EXCEPT ![s] = Closed]
    /\ cutAt' = [cutAt EXCEPT ![s] = Never]
    /\ leftSince' = [t \in Sockets |-> leftSince[t] \/ UserOf[t] = UserOf[s]]
    /\ UNCHANGED typing

\* Of the user, not of the socket: another one may be open.
HandleDisconnect(s) ==
    /\ UpdateUserPresence(UserOf[s], "offline")
    /\ typing' = [room \in Rooms |-> typing[room] \ {UserOf[s]}]
    /\ socket' = [socket EXCEPT ![s] = Closed]
    /\ cutAt' = [cutAt EXCEPT ![s] = Never]
    /\ leftSince' = [t \in Sockets |-> leftSince[t] \/ UserOf[t] = UserOf[s]]

Disconnect(s) ==
    /\ s \in Open
    /\ HandleDisconnect(s)
    /\ UNCHANGED <<clock, history, counted, sent>>

-----------------------------------------------------------------------------
(* Guards                                                                  *)

TokenExpires(s) ==
    /\ s \in Open /\ socket[s].valid
    /\ socket' = [socket EXCEPT ![s].valid = FALSE]
    /\ UNCHANGED <<clock, presence, typing, history, counted, cutAt, leftSince, sent>>

\* Every event verifies the token again and closes the socket of an expired one.
JwtRefuses(s) ==
    /\ s \in Open /\ ~socket[s].valid
    /\ HandleDisconnect(s)
    /\ UNCHANGED <<clock, history, counted, sent>>

\* How far past the limit a count goes makes no difference.
Count(u) ==
    LET window == IF counted[u] = NoWindow \/ clock > counted[u].reset
                    THEN [events |-> 0, reset |-> clock + Window]
                    ELSE counted[u]
    IN  [window EXCEPT !.events = Min({@ + 1, MaxPerWindow + 1})]

Allowed(u) == Count(u).events <= MaxPerWindow

RateGuard(u) == counted' = [counted EXCEPT ![u] = Count(u)]

\* The event is refused, and a timer will cut off the socket it came from.
RateRefuses(s) ==
    /\ s \in Open /\ socket[s].valid /\ ~Allowed(UserOf[s])
    /\ RateGuard(UserOf[s])
    /\ cutAt' = [cutAt EXCEPT ![s] = IF @ = Never THEN clock + Delay ELSE @]
    /\ UNCHANGED <<clock, socket, presence, typing, history, leftSince, sent>>

CutOff(s) ==
    /\ s \in Open /\ cutAt[s] <= clock
    /\ HandleDisconnect(s)
    /\ UNCHANGED <<clock, history, counted, sent>>

-----------------------------------------------------------------------------
(* Events                                                                  *)

Guarded(s) ==
    /\ s \in Open /\ socket[s].valid /\ Allowed(UserOf[s])
    /\ RateGuard(UserOf[s])
    /\ UNCHANGED <<clock, presence, cutAt, leftSince>>

\* A message goes to any room, joined or not.
HandleMessage(s, room) ==
    /\ Guarded(s) /\ sent < MaxMessages
    /\ LET longer == Append(history[room], <<sent, UserOf[s]>>)
       IN  history' = [history EXCEPT ![room] =
                          IF Len(longer) > HistoryCap THEN Tail(longer) ELSE longer]
    /\ sent' = sent + 1
    /\ UNCHANGED <<socket, typing>>

HandleJoinRoom(s, room) ==
    /\ Guarded(s)
    /\ socket' = [socket EXCEPT ![s].rooms = @ \cup {room}]
    /\ UNCHANGED <<typing, history, sent>>

HandleLeaveRoom(s, room) ==
    /\ Guarded(s)
    /\ socket' = [socket EXCEPT ![s].rooms = @ \ {room}]
    /\ UNCHANGED <<typing, history, sent>>

HandleTyping(s, room, isTyping) ==
    /\ Guarded(s)
    /\ typing' = [typing EXCEPT ![room] = IF isTyping THEN @ \cup {UserOf[s]} ELSE @ \ {UserOf[s]}]
    /\ UNCHANGED <<socket, history, sent>>

\* getOnlineUsers and getMessageHistory: they only count.
HandleQuestion(s) ==
    /\ Guarded(s)
    /\ UNCHANGED <<socket, typing, history, sent>>

OnlineUsers == {u \in Users : presence[u] = "online"}

-----------------------------------------------------------------------------

PassTime ==
    /\ clock < ClockEnd /\ \A s \in Open : cutAt[s] > clock
    /\ clock' = clock + 1
    /\ UNCHANGED <<socket, presence, typing, history, counted, cutAt, leftSince, sent>>

\* Everything is kept in the process; the sockets close with it.
Stop ==
    /\ socket' = [s \in Sockets |-> Closed]
    /\ presence' = [u \in Users |-> "unknown"]
    /\ typing' = [room \in Rooms |-> {}]
    /\ history' = [room \in Rooms |-> <<>>]
    /\ counted' = [u \in Users |-> NoWindow]
    /\ cutAt' = [s \in Sockets |-> Never]
    /\ leftSince' = [s \in Sockets |-> FALSE]
    /\ UNCHANGED <<clock, sent>>

ChatInit ==
    /\ clock = 0 /\ sent = 0
    /\ socket = [s \in Sockets |-> Closed]
    /\ presence = [u \in Users |-> "unknown"]
    /\ typing = [room \in Rooms |-> {}]
    /\ history = [room \in Rooms |-> <<>>]
    /\ counted = [u \in Users |-> NoWindow]
    /\ cutAt = [s \in Sockets |-> Never]
    /\ leftSince = [s \in Sockets |-> FALSE]

ChatNext ==
    \/ \E s \in Sockets :
        \/ HandleConnection(s) \/ Disconnect(s) \/ TokenExpires(s)
        \/ JwtRefuses(s) \/ RateRefuses(s) \/ CutOff(s) \/ HandleQuestion(s)
        \/ \E room \in Rooms :
            \/ HandleMessage(s, room) \/ HandleJoinRoom(s, room) \/ HandleLeaveRoom(s, room)
            \/ \E isTyping \in BOOLEAN : HandleTyping(s, room, isTyping)
    \/ PassTime \/ Stop

ChatSpec == ChatInit /\ [][ChatNext]_chat

-----------------------------------------------------------------------------

\* Nobody is shown online, or typing, without an open socket (chat.gateway.ts).
ShownAreConnected ==
    \A u \in OnlineUsers \cup UNION {typing[room] : room \in Rooms} : SocketsOf(u) # {}

\* A user with an open socket is shown online unless another of the user's
\* sockets closed since this one opened (handleDisconnect).
ConnectedAreShown ==
    \A s \in Open : UserOf[s] \in OnlineUsers \/ leftSince[s]

\* Presence follows the sockets, but for a user with several (chat.gateway.ts).
PresenceExplained == ShownAreConnected /\ ConnectedAreShown
=============================================================================
