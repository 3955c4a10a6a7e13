-------------------------- MODULE GroupMembership --------------------------
(***************************************************************************)
(* The members of a group (proxmox/config_group.go, config_user.go).  The  *)
(* server keeps the groups of every user; a group has no member list of    *)
(* its own.  AddUsersToGroup, RemoveUsersFromGroup, SetMembers and their   *)
(* callers therefore read the list of all users once, work out from it the *)
(* new group list of every user they have to change, and send those lists  *)
(* user by user, each overwriting what the user's list has become in the   *)
(* meantime.  Several clients do so at once, next to calls that write a    *)
(* user or delete a group in one request.                                  *)
(***************************************************************************)
EXTENDS Integers, FiniteSets

CONSTANTS Users, Groups, Clients,
          Kinds,     \* the operations the clients make, see AllKinds
          MaxFaults, \* requests that may fail without being rejected
          MaxOthers  \* requests that are no operation on a group's members

\* AddUsersToGroup, RemoveUsersFromGroup, RemoveAllUsersFromGroup, SetMembers;
\* Create, Update and Set of a ConfigGroup.
AllKinds == {"add", "remove", "clear", "members", "create", "update", "set"}

ASSUME GroupMembershipAssumption ==
    /\ Kinds \subseteq AllKinds
    /\ MaxFaults \in Nat
    /\ MaxOthers \in Nat

VARIABLES
    users,    \* the users the server knows
    groups,   \* the groups the server knows
    member,   \* member[u]: the groups of user u
    touched,  \* users written by something else than a membership operation
    pc,       \* pc[c]: the next request of client c, or how its call returned
    op,       \* op[c]: the operation and its arguments, chosen at the start
    seen,     \* seen[c]: member, as the list of users that c read shows it
    plan,     \* plan[c]: the users that list tells c to write
    todo,     \* todo[c]: those still to be written
    faults,   \* requests that failed without being rejected
    others    \* requests that were no operation on a group's members

server == <<users, groups, member, touched, others>>
local == <<op, seen, plan, todo>>
vars == <<server, pc, local, faults>>

Memberships == [Users -> SUBSET Groups]

\* keep: ConfigGroup.Members is nil, the members are left alone.
Ops == {o \in [kind : Kinds, group : Groups, users : SUBSET Users, keep : BOOLEAN] :
            /\ o.kind = "clear" => o.users = {}
            /\ o.keep => o.kind \in {"create", "update", "set"} /\ o.users = {}}

TypeOK ==
    /\ users \subseteq Users /\ groups \subseteq Groups
    /\ touched \subseteq Users
    /\ member \in Memberships
    /\ pc \in [Clients -> {"idle", "check", "create", "update", "list",
                           "write", "ok", "error"}]
    /\ op \in [Clients -> Ops]
    /\ seen \in [Clients -> Memberships]
    /\ plan \in [Clients -> SUBSET Users] /\ todo \in [Clients -> SUBSET Users]
    /\ faults \in 0..MaxFaults
    /\ others \in 0..MaxOthers

Init ==
    /\ users \in SUBSET Users
    /\ groups \in SUBSET Groups
    /\ member \in [Users -> SUBSET groups]
    /\ \A u \in Users \ users : member[u] = {}
    /\ touched = {}
    /\ pc = [c \in Clients |-> "idle"]
    /\ op \in [Clients -> Ops]
    /\ seen = [c \in Clients |-> [u \in Users |-> {}]]
    /\ plan = [c \in Clients |-> {}]
    /\ todo = [c \in Clients |-> {}]
    /\ faults = 0
    /\ others = 0

-----------------------------------------------------------------------------
(* What an operation makes of a user's groups.                             *)

Adds(o) == o.kind \notin {"remove", "clear"}

Removes(o) == o.kind # "add"

\* Mutant: SetMembers only adds.
Losers_mut(o) ==
    IF o.kind = "remove" THEN o.users ELSE IF o.kind = "clear" THEN Users ELSE {}

\* The users o takes out of its group: those it names, or all it does not.
Losers(o) ==
    IF o.kind = "remove" THEN o.users
    ELSE IF o.kind = "clear" THEN Users
    ELSE IF Removes(o) THEN Users \ o.users
    ELSE {}

Gainers(o) == IF Adds(o) THEN o.users ELSE {}

\* The groups of u after o, when they are m before it.
After(o, u, m) ==
    IF u \in Gainers(o) THEN m \cup {o.group}
    ELSE IF u \in Losers(o) THEN m \ {o.group}
    ELSE m

-----------------------------------------------------------------------------
(* The clients.                                                            *)

Goto(c, step) == pc' = [pc EXCEPT ![c] = step]

CanFail == faults < MaxFaults

\* A request fails: nothing is known of what it did.
Fail(c) ==
    /\ CanFail
    /\ faults' = faults + 1
    /\ Goto(c, "error")

\* The call begins.  Create and Update drop the error of Validate.
Begin(c) ==
    /\ pc[c] = "idle"
    /\ Goto(c, IF op[c].kind = "set" THEN "check"
               ELSE IF op[c].kind \in {"create", "update"} THEN op[c].kind
               ELSE "list")
    /\ UNCHANGED <<server, local, faults>>

\* CheckExistence, which answers FALSE when the list of groups cannot be read.
Check(c) ==
    /\ pc[c] = "check"
    /\ \/ /\ Goto(c, IF op[c].group \in groups THEN "update" ELSE "create")
          /\ UNCHANGED faults
       \/ /\ CanFail
          /\ faults' = faults + 1
          /\ Goto(c, "create")
    /\ UNCHANGED <<server, local>>

\* POST /access/groups or PUT /access/groups/{group}; then SetMembers, unless
\* the members are left alone.
WriteGroup(c) ==
    /\ pc[c] \in {"create", "update"}
    /\ LET g == op[c].group
           accepted == (pc[c] = "update") <=> (g \in groups) IN
       \/ /\ accepted
          /\ groups' = groups \cup {g}
          /\ Goto(c, IF op[c].keep THEN "ok" ELSE "list")
          /\ UNCHANGED faults
       \/ /\ ~accepted
          /\ Goto(c, "error")
          /\ UNCHANGED <<groups, faults>>
       \/ /\ Fail(c)
          /\ groups' \in {groups} \cup (IF accepted THEN {groups \cup {g}} ELSE {})
    /\ UNCHANGED <<users, member, touched, others, local>>

\* listUsersFull, and from it the users whose groups have to change.  A user
\* the caller names and the server does not know is passed over.
List(c) ==
    /\ pc[c] = "list"
    /\ \/ LET changed == {u \in users : After(op[c], u, member[u]) # member[u]} IN
          /\ seen' = [seen EXCEPT ![c] = member]
          /\ plan' = [plan EXCEPT ![c] = changed]
          /\ todo' = [todo EXCEPT ![c] = changed]
          /\ Goto(c, "write")
          /\ UNCHANGED <<op, faults>>
       \/ Fail(c) /\ UNCHANGED local
    /\ UNCHANGED server

\* SetMembers removes from the group before it adds to it.
NextWrites(c) ==
    LET leaving == todo[c] \ Gainers(op[c]) IN
    IF leaving # {} THEN leaving ELSE todo[c]

\* Mutant: the list sent for a user holds the operation's group only.
SendGroups_mut(c, u) == After(op[c], u, {})

\* The group list configUserShort holds for u.
SendGroups(c, u) == After(op[c], u, seen[c][u])

\* Mutant: the loop goes on past a user whose update failed.
WriteUser_mut(c, u) ==
    /\ pc[c] = "write"
    /\ u \in NextWrites(c)
    /\ todo' = [todo EXCEPT ![c] = @ \ {u}]
    /\ IF u \in users /\ SendGroups(c, u) \subseteq groups
       THEN member' = [member EXCEPT ![u] = SendGroups(c, u)]
       ELSE UNCHANGED member
    /\ UNCHANGED <<users, groups, touched, others, faults, pc, op, seen, plan>>

\* updateUserMembership: PUT /access/users/{u} replaces the groups of u.  The
\* server refuses a user or a group it does not know; the first error ends the
\* call, with the users before it written.
WriteUser(c, u) ==
    /\ pc[c] = "write"
    /\ u \in NextWrites(c)
    /\ LET accepted == u \in users /\ SendGroups(c, u) \subseteq groups
           written == [member EXCEPT ![u] = SendGroups(c, u)] IN
       \/ /\ accepted
          /\ member' = written
          /\ todo' = [todo EXCEPT ![c] = @ \ {u}]
          /\ UNCHANGED <<pc, faults>>
       \/ /\ ~accepted
          /\ Goto(c, "error")
          /\ UNCHANGED <<member, todo, faults>>
       \/ /\ Fail(c)
          /\ member' \in {member} \cup (IF accepted THEN {written} ELSE {})
          /\ UNCHANGED todo
    /\ UNCHANGED <<users, groups, touched, others, op, seen, plan>>

Finish(c) ==
    /\ pc[c] = "write"
    /\ todo[c] = {}
    /\ Goto(c, "ok")
    /\ UNCHANGED <<server, local, faults>>

Step(c) ==
    \/ Begin(c) \/ Check(c) \/ WriteGroup(c) \/ List(c) \/ Finish(c)
    \/ \E u \in Users : WriteUser(c, u)

-----------------------------------------------------------------------------
(* Operations that are one request, by anyone.                             *)

\* CreateUser and UpdateUser of a ConfigUser, which always send its Groups.
PutUser(u, G) ==
    /\ users' = users \cup {u}
    /\ member' = [member EXCEPT ![u] = G]
    /\ touched' = touched \cup {u}
    /\ UNCHANGED <<groups, pc, local, faults>>

DeleteUser(u) ==
    /\ users' = users \ {u}
    /\ member' = [member EXCEPT ![u] = {}]
    /\ touched' = touched \cup {u}
    /\ UNCHANGED <<groups, pc, local, faults>>

\* The server takes the members out of a group it deletes.
DeleteGroup(g) ==
    /\ groups' = groups \ {g}
    /\ member' = [u \in Users |-> member[u] \ {g}]
    /\ touched' = touched \cup {u \in Users : g \in member[u]}
    /\ UNCHANGED <<users, pc, local, faults>>

Other ==
    /\ others < MaxOthers
    /\ others' = others + 1
    /\ \/ \E u \in Users : \E G \in SUBSET groups : PutUser(u, G)
       \/ \E u \in users : DeleteUser(u)
       \/ \E g \in groups : DeleteGroup(g)

Next == Other \/ \E c \in Clients : Step(c)

Spec == Init /\ [][Next]_vars

-----------------------------------------------------------------------------
(* Properties.                                                             *)

\* No other client's operation has u among the users it writes, and nothing
\* else wrote u.
Unshared(c, u) == u \notin touched /\ \A d \in Clients \ {c} : u \notin plan[d]

\* However many clients work at once and whatever fails elsewhere, a user that
\* only one operation writes has, once the operation returns without an error,
\* exactly the groups it is to have: in or out of the operation's group as
\* asked, and the groups it had besides.
UnsharedIsExact ==
    \A c \in Clients : pc[c] = "ok" =>
        \A u \in plan[c] : Unshared(c, u) =>
            member[u] = After(op[c], u, seen[c][u])

\* A client that has the server to itself gets what it asked for: after
\* SetMembers, or Create, Update or Set with members, the group has exactly the
\* members given, as far as the server knows them.
AloneIsExact ==
    \A c \in Clients :
        (/\ pc[c] = "ok" /\ Adds(op[c]) /\ Removes(op[c]) /\ ~op[c].keep
         /\ touched = {}
         /\ \A d \in Clients \ {c} : pc[d] = "idle")
        => {u \in Users : op[c].group \in member[u]} = op[c].users \cap users

\* A call that failed midway has left every user it alone writes either as it
\* was or as asked, never with a group too many or too few: trying again is
\* safe.
NothingHalfWritten ==
    \A c \in Clients : \A u \in plan[c] : Unshared(c, u) =>
        member[u] \in {seen[c][u], After(op[c], u, seen[c][u])}
=============================================================================
