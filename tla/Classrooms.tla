----------------------------- MODULE Classrooms -----------------------------
(***************************************************************************)
(* One classroom: its members, its invites, and the transactions that use  *)
(* them at the same time (classrooms/service.py, knowledge/access.py).     *)
(*                                                                         *)
(* Row locks.  join_classroom locks the invite.  get_writable_knowledge_   *)
(* base selects knowledge base, space, classroom and membership FOR UPDATE *)
(* in one statement and holds the rows until the request commits.  Rows    *)
(* that refer to the classroom (memberships, invites) wait for its lock    *)
(* when they are inserted, and hold it off until they commit.              *)
(* update_member and create_invite read memberships without a lock.        *)
(***************************************************************************)
EXTENDS Integers, FiniteSets

CONSTANTS
    Members,     \* users other than the owner
    Owner,       \* the user who created the classroom
    Invites,
    First,       \* the invite made with the classroom
    UseLimits,   \* the values max_uses is asked for
    RoomCalls    \* transactions under way at a time

ASSUME ClassroomsAssumption ==
    /\ Owner \notin Members /\ First \in Invites
    /\ UseLimits \subseteq Nat \ {0}

VARIABLES
    role,      \* user -> role, "none" without a membership row
    rowOf,     \* user -> the number of the user's membership row
    invite,    \* invite -> its row
    admitted,  \* invite -> the membership rows it has made
    room       \* call -> its transaction

roomVars == <<role, rowOf, invite, admitted, room>>

People == Members \cup {Owner}
Roles == {"owner", "teacher", "student"}
Writers == {"owner", "teacher"}

InviteRow == [state : {"absent", "open", "expired"}, uses : Nat, max : Nat]

RoomState ==
    [op : {"idle"}]
    \cup [op : {"join"}, st : {"asked", "locked", "inserted"},
          user : People, by : Invites]
    \cup [op : {"write"}, user : People]
    \cup [op : {"update"}, user : Members, row : Nat,
          to : {"teacher", "student", "none"}]
    \cup [op : {"invite"}, st : {"allowed", "inserted"}, by : Invites,
          max : UseLimits]

RoomTypeOK ==
    /\ role \in [People -> Roles \cup {"none"}]
    /\ rowOf \in [People -> Nat]
    /\ invite \in [Invites -> InviteRow]
    /\ admitted \in [Invites -> SUBSET (People \X Nat)]
    /\ room \in [RoomCalls -> RoomState]

NoInvite == [state |-> "absent", uses |-> 0, max |-> 0]
Idling == [op |-> "idle"]

\* create_classroom: the owner's membership and one invite for one use.
RoomInit ==
    /\ role = [u \in People |-> IF u = Owner THEN "owner" ELSE "none"]
    /\ rowOf = [u \in People |-> 0]
    /\ invite = [[i \in Invites |-> NoInvite] EXCEPT
                    ![First] = [state |-> "open", uses |-> 0, max |-> 1]]
    /\ admitted = [i \in Invites |-> {}]
    /\ room = [c \in RoomCalls |-> Idling]

-----------------------------------------------------------------------------
(* Who holds which row.                                                    *)

Writing == {c \in RoomCalls : room[c].op = "write"}

\* Inserted rows that refer to the classroom and are not yet committed.
Inserting == {c \in RoomCalls : /\ room[c].op \in {"join", "invite"}
                                /\ room[c].st = "inserted"}

InviteHeld(i) == \E c \in RoomCalls : /\ room[c].op = "join"
                                      /\ room[c].st \in {"locked", "inserted"}
                                      /\ room[c].by = i

MembershipHeld(u) == \E c \in Writing : room[c].user = u

Becomes(c, value) == room' = [room EXCEPT ![c] = value]
Ends(c) == Becomes(c, Idling)

-----------------------------------------------------------------------------
(* join_classroom.                                                         *)

AskJoin(c) ==
    /\ room[c].op = "idle"
    /\ \E u \in People, i \in Invites :
         /\ invite[i].state # "absent"
         /\ Becomes(c, [op |-> "join", st |-> "asked", user |-> u, by |-> i])
    /\ UNCHANGED <<role, rowOf, invite, admitted>>

\* The invite row is locked; then a member, and an invite that is expired or
\* used up, end the request (409, 403).
LockInvite(c) ==
    LET call == room[c] IN
    /\ call.op = "join" /\ call.st = "asked" /\ ~InviteHeld(call.by)
    /\ IF /\ role[call.user] = "none"
          /\ invite[call.by].state = "open"
          /\ invite[call.by].uses < invite[call.by].max
       THEN Becomes(c, [call EXCEPT !.st = "locked"])
       ELSE Ends(c)
    /\ UNCHANGED <<role, rowOf, invite, admitted>>

\* The insert in the savepoint.  It waits for a writer's lock on the classroom
\* and for another insert for the same user; a membership that has been
\* committed meanwhile breaks the unique constraint (409).
InsertMembership(c) ==
    LET call == room[c] IN
    /\ call.op = "join" /\ call.st = "locked" /\ Writing = {}
    /\ ~ \E d \in RoomCalls \ {c} : /\ room[d].op = "join"
                                    /\ room[d].st = "inserted"
                                    /\ room[d].user = call.user
    /\ IF role[call.user] = "none"
       THEN Becomes(c, [call EXCEPT !.st = "inserted"])
       ELSE Ends(c)
    /\ UNCHANGED <<role, rowOf, invite, admitted>>

\* use_count += 1 and commit.
CommitJoin(c) ==
    LET call == room[c] IN
    /\ call.op = "join" /\ call.st = "inserted"
    /\ role' = [role EXCEPT ![call.user] = "student"]
    /\ rowOf' = [rowOf EXCEPT ![call.user] = @ + 1]
    /\ invite' = [invite EXCEPT ![call.by] =
                    [state |-> @.state, uses |-> @.uses + 1, max |-> @.max]]
    /\ admitted' = [admitted EXCEPT ![call.by] =
                      @ \cup {<<call.user, rowOf[call.user] + 1>>}]
    /\ Ends(c)

\* A request that ends before its commit changes nothing.
Abort(c) ==
    /\ room[c].op # "idle" /\ Ends(c)
    /\ UNCHANGED <<role, rowOf, invite, admitted>>

-----------------------------------------------------------------------------
(* get_writable_knowledge_base, and the request that goes on under it.     *)

BeginWrite(c) ==
    /\ room[c].op = "idle" /\ Writing = {} /\ Inserting = {}
    /\ \E u \in People :
         /\ role[u] \in Writers
         /\ Becomes(c, [op |-> "write", user |-> u])
    /\ UNCHANGED <<role, rowOf, invite, admitted>>

CommitWrite(c) ==
    /\ room[c].op = "write" /\ Ends(c)
    /\ UNCHANGED <<role, rowOf, invite, admitted>>

-----------------------------------------------------------------------------
(* update_member, by the owner; the owner's own membership is refused.     *)

ReadMember(c) ==
    /\ room[c].op = "idle"
    /\ \E u \in Members, to \in {"teacher", "student", "none"} :
         /\ role[u] # "none"
         /\ Becomes(c, [op |-> "update", user |-> u, row |-> rowOf[u], to |-> to])
    /\ UNCHANGED <<role, rowOf, invite, admitted>>

\* Variant: the statement does not wait for the writer that holds the row.
ChangeMemberAtOnce(c) ==
    LET call == room[c] IN
    /\ call.op = "update"
    /\ role' = IF rowOf[call.user] = call.row /\ role[call.user] # "none"
               THEN [role EXCEPT ![call.user] = call.to] ELSE role
    /\ Ends(c)
    /\ UNCHANGED <<rowOf, invite, admitted>>

\* UPDATE or DELETE of the row that was read, and commit.  A row that is gone
\* is not touched: the user may have joined again with a new one.
ChangeMember(c) ==
    LET call == room[c] IN
    /\ call.op = "update" /\ ~MembershipHeld(call.user)
    /\ role' = IF rowOf[call.user] = call.row /\ role[call.user] # "none"
               THEN [role EXCEPT ![call.user] = call.to] ELSE role
    /\ Ends(c)
    /\ UNCHANGED <<rowOf, invite, admitted>>

-----------------------------------------------------------------------------
(* create_invite.                                                          *)

AskInvite(c) ==
    /\ room[c].op = "idle"
    /\ \E u \in People, i \in Invites, m \in UseLimits :
         /\ role[u] \in Writers
         /\ invite[i].state = "absent"
         /\ \A d \in RoomCalls : room[d].op = "invite" => room[d].by # i
         /\ Becomes(c, [op |-> "invite", st |-> "allowed", by |-> i, max |-> m])
    /\ UNCHANGED <<role, rowOf, invite, admitted>>

InsertInvite(c) ==
    /\ room[c].op = "invite" /\ room[c].st = "allowed" /\ Writing = {}
    /\ Becomes(c, [room[c] EXCEPT !.st = "inserted"])
    /\ UNCHANGED <<role, rowOf, invite, admitted>>

CommitInvite(c) ==
    /\ room[c].op = "invite" /\ room[c].st = "inserted"
    /\ invite' = [invite EXCEPT ![room[c].by] =
                    [state |-> "open", uses |-> 0, max |-> room[c].max]]
    /\ Ends(c)
    /\ UNCHANGED <<role, rowOf, admitted>>

\* expires_at passes.
Expires(i) ==
    /\ invite[i].state = "open"
    /\ invite' = [invite EXCEPT ![i] =
                    [state |-> "expired", uses |-> @.uses, max |-> @.max]]
    /\ UNCHANGED <<role, rowOf, admitted, room>>

RoomNext ==
    \/ \E i \in Invites : Expires(i)
    \/ \E c \in RoomCalls :
         \/ AskJoin(c) \/ LockInvite(c) \/ InsertMembership(c) \/ CommitJoin(c)
         \/ Abort(c) \/ BeginWrite(c) \/ CommitWrite(c)
         \/ ReadMember(c) \/ ChangeMember(c)
         \/ AskInvite(c) \/ InsertInvite(c) \/ CommitInvite(c)

RoomSpec == RoomInit /\ [][RoomNext]_roomVars

-----------------------------------------------------------------------------

(* An invite admits at most max_uses memberships, however many requests    *)
(* use it at the same time, and its use_count is the number it admitted.   *)
InvitesAdmitWithinLimit ==
    \A i \in Invites : /\ Cardinality(admitted[i]) = invite[i].uses
                       /\ invite[i].uses <= invite[i].max

(* Until a request that writes to the knowledge base commits, its user has *)
(* the role it was admitted with: a removal or demotion waits for it.      *)
WritesKeepTheirRole ==
    \A c \in Writing : role[room[c].user] \in Writers

(* What a request was admitted with, its invitation or its role, holds     *)
(* until it commits (service.py:66, access.py:143).                        *)
AdmissionHolds == InvitesAdmitWithinLimit /\ WritesKeepTheirRole
=============================================================================
