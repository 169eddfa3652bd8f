-------------------------------- MODULE Lobby --------------------------------
(***************************************************************************)
(* The rooms that players make, and who gets into them: createRoom with    *)
(* its two codes, listRooms, and the checks of joinRoom before the mutex.  *)
(* Presence and capacity are in Rooms, stakes in GameConfig.               *)
(*                                                                         *)
(* A secret travels with people: what a player knows was in an answer, or  *)
(* was told by somebody who was invited.                                   *)
(***************************************************************************)
EXTENDS Naturals, Sequences, FiniteSets

CONSTANTS Users, Codes,
          MaxTries,   \* draws of a code before createRoom gives up (8)
          MaxRooms,   \* bound: rooms
          SoftDelete, \* whether game_rooms has the column deletedAt, which the queries name
          None        \* not chosen yet, no code

LobbyAssumption ==
    /\ MaxTries \in Nat \ {0} /\ MaxRooms \in Nat \ {0} /\ SoftDelete \in BOOLEAN
    /\ None \notin Users \cup Codes

Fields == {"code", "inviteCode"}
Modes == {"CLASSIC", "PRACTICE", "PRIVATE"}
Creatable == {"PRIVATE", "PRACTICE"}

VARIABLES
    rooms,   \* game_rooms, in the order of their creation
    making,  \* the room each user is creating, None without one
    tries,   \* how many codes it has drawn for each field
    knows,   \* <<user, room>>: has seen or was told the room's invite code
    invited, \* ghost: <<user, room>>: the host, and whom the invited have told
    present, \* <<user, room>>: joined
    shown,   \* the room in the last answer to each user, None without one
    failed   \* users whose last call was answered with an internal error

vars == <<rooms, making, tries, knows, invited, present, shown, failed>>

Ids == DOMAIN rooms
Answer(u, dto) == shown' = [shown EXCEPT ![u] = dto] /\ failed' = failed \ {u}
Break(u) ==
    /\ failed' = failed \cup {u}
    /\ UNCHANGED <<rooms, making, tries, knows, invited, present, shown>>

\* Of a row read with ROOM_SELECT, which leaves passwordHash out.
ToRoomDto(r, row) ==
    [id |-> r, mode |-> row.mode,
     inviteCode |-> IF row.mode = "PRIVATE" THEN None ELSE row.inviteCode,
     passwordProtected |-> FALSE]

Learned(u, dto) == IF dto.inviteCode = None THEN knows ELSE knows \cup {<<u, dto.id>>}

-----------------------------------------------------------------------------
\* One room of the operator, without a host.
Init ==
    /\ rooms = << [code |-> None, inviteCode |-> None, mode |-> "CLASSIC",
                   host |-> None, password |-> FALSE] >>
    /\ making = [u \in Users |-> None] /\ tries = [u \in Users |-> [f \in Fields |-> 0]]
    /\ knows = {} /\ invited = {} /\ present = {}
    /\ shown = [u \in Users |-> None] /\ failed = {}

\* createRoom up to the first draw; other modes are refused.
CreateRoom(u, mode, password) ==
    /\ making[u] = None /\ mode \in Creatable
    /\ Len(rooms) + Cardinality({v \in Users : making[v] # None}) < MaxRooms
    /\ making' = [making EXCEPT ![u] = [code |-> None, inviteCode |-> None, mode |-> mode,
                                        host |-> u, password |-> password]]
    /\ tries' = [tries EXCEPT ![u] = [f \in Fields |-> 0]]
    /\ UNCHANGED <<rooms, knows, invited, present, shown, failed>>

Clash(f, c) == \E r \in Ids : rooms[r][f] = c

\* One draw of generateUniqueCode: the two fields are allocated at the same time.
GenerateUniqueCode(u, f, c) ==
    /\ making[u] # None /\ making[u][f] = None /\ tries[u][f] < MaxTries
    /\ tries' = [tries EXCEPT ![u][f] = @ + 1]
    /\ making' = IF Clash(f, c) THEN making ELSE [making EXCEPT ![u][f] = c]
    /\ UNCHANGED <<rooms, knows, invited, present, shown, failed>>

Forget(u) == making' = [making EXCEPT ![u] = None] /\ tries' = [tries EXCEPT ![u] = [f \in Fields |-> 0]]

\* ROOM_CODE_ALLOCATION_FAILED
GiveUp(u) ==
    /\ making[u] # None
    /\ \E f \in Fields : making[u][f] = None /\ tries[u][f] = MaxTries
    /\ Forget(u) /\ Answer(u, None)
    /\ UNCHANGED <<rooms, knows, invited, present>>

\* The row, unless another room took one of its codes since the draw (P2002, a
\* conflict); the host is present, and told the invite code.
Insert(u) ==
    /\ making[u] # None /\ \A f \in Fields : making[u][f] # None
    /\ Forget(u)
    /\ LET id == Len(rooms) + 1 IN
       IF \E f \in Fields : Clash(f, making[u][f])
       THEN Answer(u, None) /\ UNCHANGED <<rooms, knows, invited, present>>
       ELSE /\ rooms' = Append(rooms, making[u])
            /\ knows' = knows \cup {<<u, id>>} /\ invited' = invited \cup {<<u, id>>}
            /\ present' = present \cup {<<u, id>>}
            /\ Answer(u, [ToRoomDto(id, making[u]) EXCEPT !.inviteCode = making[u].inviteCode])

\* One row of listRooms' page.  Without a mode, private rooms are left out.
ListRooms(u, mode, r) ==
    /\ r \in Ids
    /\ IF ~SoftDelete THEN Break(u)
       ELSE /\ IF mode = None THEN rooms[r].mode # "PRIVATE" ELSE rooms[r].mode = mode
            /\ Answer(u, ToRoomDto(r, rooms[r]))
            /\ knows' = Learned(u, ToRoomDto(r, rooms[r]))
            /\ UNCHANGED <<rooms, making, tries, invited, present>>

\* Players talk: who was invited hands on the invite code and the password.
Tell(u, v, r) ==
    /\ <<u, r>> \in invited /\ <<v, r>> \notin invited
    /\ invited' = invited \cup {<<v, r>>} /\ knows' = knows \cup {<<v, r>>}
    /\ UNCHANGED <<rooms, making, tries, present, shown, failed>>

Admitted(u, r) ==
    /\ rooms[r].mode = "PRIVATE" /\ rooms[r].inviteCode # None => <<u, r>> \in knows
    /\ rooms[r].password => <<u, r>> \in invited

\* requireRoom names deletedAt; its row has the passwordHash.
JoinRoom(u, r) ==
    /\ r \in Ids
    /\ IF ~SoftDelete THEN Break(u)
       ELSE /\ Admitted(u, r)
            /\ present' = present \cup {<<u, r>>}
            /\ LET dto == [ToRoomDto(r, rooms[r]) EXCEPT !.passwordProtected = rooms[r].password]
               IN Answer(u, dto) /\ knows' = Learned(u, dto)
            /\ UNCHANGED <<rooms, making, tries, invited>>

Draw(u) == \E f \in Fields, c \in Codes : GenerateUniqueCode(u, f, c)

Next ==
    \E u \in Users :
        \/ \E mode \in Modes, password \in BOOLEAN : CreateRoom(u, mode, password)
        \/ Draw(u) \/ GiveUp(u) \/ Insert(u)
        \/ \E r \in Ids : JoinRoom(u, r) \/ \E mode \in Modes \cup {None} : ListRooms(u, mode, r)
        \/ \E v \in Users, r \in Ids : Tell(u, v, r)

Spec == Init /\ [][Next]_vars

\* The database answers every query of a call that has begun.
FairSpec == Spec /\ \A u \in Users : WF_vars(Draw(u) \/ GiveUp(u) \/ Insert(u))
-----------------------------------------------------------------------------
Row == [code : Codes \cup {None}, inviteCode : Codes \cup {None}, mode : Modes,
        host : Users \cup {None}, password : BOOLEAN]
Dto == [id : 1 .. MaxRooms, mode : Modes, inviteCode : Codes \cup {None}, passwordProtected : BOOLEAN]

\* The variables keep their types.
TypeOK ==
    /\ rooms \in Seq(Row) /\ Len(rooms) <= MaxRooms
    /\ making \in [Users -> Row \cup {None}] /\ tries \in [Users -> [Fields -> 0 .. MaxTries]]
    /\ knows \subseteq Users \X Ids /\ invited \subseteq Users \X Ids
    /\ present \subseteq Users \X Ids
    /\ shown \in [Users -> Dto \cup {None}] /\ failed \subseteq Users

\* However players browse and join, who is in a private room was invited by its
\* host or by somebody the host invited (joinRoom, toRoomDto).
OnlyTheInvited ==
    \A p \in present : rooms[p[2]].mode = "PRIVATE" => p \in invited

\* "separate unique columns, so allocate both": two creators who draw the same
\* code do not both keep it, and nobody is sent to another's room by a code.
CodesAreOnesOwn ==
    \A q, r \in Ids : \A f \in Fields :
        q # r /\ rooms[q][f] # None => rooms[q][f] # rooms[r][f]

\* A createRoom that has begun ends, whatever codes it draws.
CreateRoomEnds == \A u \in Users : making[u] # None ~> making[u] = None

\* "Private rooms are reachable by invite code, not by browsing." (listRooms)
NotByBrowsing ==
    \A u \in Users :
        shown[u] # None /\ shown[u].mode = "PRIVATE" => <<u, shown[u].id>> \in invited

\* "True when the room requires a password to join." (game.dto.ts)
PasswordIsAnnounced ==
    \A u \in Users : shown[u] # None => shown[u].passwordProtected = rooms[shown[u].id].password

\* A listing or a join of a room that exists is answered (game.controller.ts).
RoomsAnswer == failed = {}
=============================================================================
