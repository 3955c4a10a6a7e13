----------------------- MODULE GroupMembershipProofs -----------------------
(***************************************************************************)
(* Proofs about GroupMembership, for any users, groups and clients: its    *)
(* types, and that an operation is exact on every user it does not share.  *)
(* The argument rests on Progress: of the users in its plan a client has   *)
(* written exactly those no longer in todo, as long as nobody else writes  *)
(* them; every step of another client that writes such a user makes it a   *)
(* shared one.                                                             *)
(***************************************************************************)
EXTENDS GroupMembership, TLAPS

Wanted(c, u) == After(op[c], u, seen[c][u])

\* How far client c has come with a user that it alone writes.
Written(c, u) ==
    /\ pc[c] = "write" =>
          member[u] = (IF u \in todo[c] THEN seen[c][u] ELSE Wanted(c, u))
    /\ pc[c] = "ok" => member[u] = Wanted(c, u)
    /\ member[u] \in {seen[c][u], Wanted(c, u)}

\* A client has no plan before it has read the list of users.
Planned(c) ==
    /\ todo[c] \subseteq plan[c]
    /\ pc[c] \in {"idle", "check", "create", "update", "list"} => plan[c] = {}

Progress ==
    \A c \in Clients :
        Planned(c) /\ \A u \in plan[c] : Unshared(c, u) => Written(c, u)

\* Nobody has sent the server anything but client c.
Alone(c) == touched = {} /\ \A d \in Clients \ {c} : pc[d] = "idle"

\* What a client that is alone did not plan to write is as it wants it, and
\* users the server does not know are in no group.
Complete ==
    /\ \A u \in Users \ users : member[u] = {}
    /\ \A c \in Clients :
          (Alone(c) /\ (pc[c] = "write" \/ (pc[c] = "ok" /\ ~op[c].keep))) =>
              /\ plan[c] \subseteq users
              /\ \A u \in users \ plan[c] : After(op[c], u, member[u]) = member[u]

IInv == TypeOK /\ Progress /\ Complete

-----------------------------------------------------------------------------
\* What an operation makes of a set of groups is a set of groups (After).
LEMMA AfterType ==
    ASSUME NEW o \in Ops, NEW u, NEW m \in SUBSET Groups
    PROVE  After(o, u, m) \in SUBSET Groups
  BY DEF After, Ops

\* Every field of the server's and the clients' state keeps its type.
LEMMA TypeStep == TypeOK /\ [Next]_vars => TypeOK'
<1> SUFFICES ASSUME TypeOK, [Next]_vars PROVE TypeOK'
  OBVIOUS
<1> USE GroupMembershipAssumption DEF TypeOK, Memberships
<1>1. ASSUME NEW c \in Clients, Begin(c) PROVE TypeOK'
  BY <1>1 DEF Begin, Goto, server, local
<1>2. ASSUME NEW c \in Clients, Check(c) PROVE TypeOK'
  BY <1>2 DEF Check, Goto, CanFail, server, local
<1>3. ASSUME NEW c \in Clients, WriteGroup(c) PROVE TypeOK'
  <2>1. op[c].group \in Groups
    BY DEF Ops
  <2>2. QED BY <1>3, <2>1 DEF WriteGroup, Fail, Goto, CanFail, local
<1>4. ASSUME NEW c \in Clients, List(c) PROVE TypeOK'
  <2>1. {u \in users : After(op[c], u, member[u]) # member[u]} \in SUBSET Users
    OBVIOUS
  <2>2. CASE Fail(c) /\ UNCHANGED local
    BY <1>4, <2>2 DEF List, Fail, Goto, CanFail, server, local
  <2>3. CASE ~(Fail(c) /\ UNCHANGED local)
    <3> DEFINE changed == {u \in users : After(op[c], u, member[u]) # member[u]}
    <3>1. /\ seen' = [seen EXCEPT ![c] = member]
          /\ plan' = [plan EXCEPT ![c] = changed]
          /\ todo' = [todo EXCEPT ![c] = changed]
          /\ pc' = [pc EXCEPT ![c] = "write"]
          /\ UNCHANGED <<op, faults, server>>
      BY <1>4, <2>3 DEF List, Goto
    <3>2. changed \in SUBSET Users
      BY <2>1
    <3> HIDE DEF changed
    <3>3. QED BY <3>1, <3>2 DEF server
  <2>4. QED BY <2>2, <2>3
<1>5. ASSUME NEW c \in Clients, NEW u \in Users, WriteUser(c, u) PROVE TypeOK'
  <2>1. SendGroups(c, u) \in SUBSET Groups
    BY AfterType DEF SendGroups
  <2>2. member' \in {member, [member EXCEPT ![u] = SendGroups(c, u)]}
    BY <1>5 DEF WriteUser
  <2>3. member' \in Memberships
    BY <2>1, <2>2
  <2>4. todo' \in [Clients -> SUBSET Users]
    BY <1>5 DEF WriteUser
  <2>5. faults' \in 0..MaxFaults
    BY <1>5 DEF WriteUser, Fail, CanFail
  <2>6. pc' \in [Clients -> {"idle", "check", "create", "update", "list",
                           "write", "ok", "error"}]
    BY <1>5 DEF WriteUser, Fail, Goto
  <2>7. QED BY <1>5, <2>3, <2>4, <2>5, <2>6 DEF WriteUser
<1>6. ASSUME NEW c \in Clients, Finish(c) PROVE TypeOK'
  BY <1>6 DEF Finish, Goto, server, local
<1>7. ASSUME Other PROVE TypeOK'
  <2>1. others' \in 0..MaxOthers
    BY <1>7 DEF Other
  <2>2. CASE \E u \in Users : \E G \in SUBSET groups : PutUser(u, G)
    BY <2>1, <2>2 DEF PutUser, local
  <2>3. CASE \E u \in users : DeleteUser(u)
    BY <2>1, <2>3 DEF DeleteUser, local
  <2>4. CASE \E g \in groups : DeleteGroup(g)
    BY <2>1, <2>4 DEF DeleteGroup, local
  <2>5. QED BY <1>7, <2>2, <2>3, <2>4 DEF Other
<1>8. CASE UNCHANGED vars
  BY <1>8 DEF vars, server, local
<1>9. QED
  BY <1>1, <1>2, <1>3, <1>4, <1>5, <1>6, <1>7, <1>8 DEF Next, Step

\* A step that writes no user and moves only client c, to a place where its
\* plan is still empty or where it has given up, keeps Progress.
LEMMA QuietStep ==
    ASSUME TypeOK, Progress, NEW c \in Clients,
           UNCHANGED <<member, touched, local>>,
           NEW step, pc' = [pc EXCEPT ![c] = step],
           step # "write", plan[c] = {} \/ step = "error"
    PROVE  Progress'
<1> SUFFICES ASSUME NEW d \in Clients
             PROVE  /\ Planned(d)'
                    /\ \A u \in plan[d] : Unshared(d, u)' => Written(d, u)'
  BY DEF Progress, local
<1>1. \A u : Unshared(d, u)' <=> Unshared(d, u)
  BY DEF Unshared, local
<1>2. \A u : Wanted(d, u)' = Wanted(d, u)
  BY DEF Wanted, After, Gainers, Losers, Adds, Removes, local
<1>3. Planned(d)'
  BY DEF Progress, Planned, TypeOK, local
<1>4. \A u \in plan[d] : Unshared(d, u)' => Written(d, u)'
  BY <1>1, <1>2 DEF Progress, Written, TypeOK, local
<1>5. QED BY <1>3, <1>4

\* The strengthening Progress is inductive.
LEMMA ProgressStep == TypeOK /\ Progress /\ [Next]_vars => Progress'
<1> SUFFICES ASSUME TypeOK, Progress, [Next]_vars PROVE Progress'
  OBVIOUS
<1>1. ASSUME NEW c \in Clients, Begin(c) PROVE Progress'
  <2>1. plan[c] = {}
    BY <1>1 DEF Begin, Progress, Planned
  <2>2. QED BY <1>1, <2>1, QuietStep DEF Begin, Goto, server
<1>2. ASSUME NEW c \in Clients, Check(c) PROVE Progress'
  <2>1. plan[c] = {}
    BY <1>2 DEF Check, Progress, Planned
  <2>2. QED BY <1>2, <2>1, QuietStep DEF Check, Goto, server
<1>3. ASSUME NEW c \in Clients, WriteGroup(c) PROVE Progress'
  <2>1. plan[c] = {}
    BY <1>3 DEF WriteGroup, Progress, Planned
  <2>2. QED BY <1>3, <2>1, QuietStep DEF WriteGroup, Fail, Goto
<1>4. ASSUME NEW c \in Clients, List(c) PROVE Progress'
  <2>1. CASE Fail(c) /\ UNCHANGED local
    BY <1>4, <2>1, QuietStep DEF List, Fail, Goto, server
  <2>2. ASSUME NEW changed \in SUBSET users,
               seen' = [seen EXCEPT ![c] = member],
               plan' = [plan EXCEPT ![c] = changed],
               todo' = [todo EXCEPT ![c] = changed],
               Goto(c, "write"), UNCHANGED <<server, op>>, plan[c] = {}
        PROVE  Progress'
    <3> SUFFICES ASSUME NEW d \in Clients
                 PROVE  /\ Planned(d)'
                        /\ \A u \in plan'[d] : Unshared(d, u)' => Written(d, u)'
      BY DEF Progress
    <3>1. CASE d = c
      BY <2>2, <3>1 DEF TypeOK, Planned, Written, Goto, server
    <3>2. CASE d # c
      <4>1. \A u : Unshared(d, u)' => Unshared(d, u)
        BY <2>2 DEF Unshared, TypeOK, server
      <4>2. \A u : Wanted(d, u)' = Wanted(d, u)
        BY <2>2, <3>2 DEF Wanted, After, Gainers, Losers, Adds, Removes, TypeOK
      <4>3. /\ plan'[d] = plan[d] /\ todo'[d] = todo[d] /\ pc'[d] = pc[d]
            /\ seen'[d] = seen[d] /\ member' = member
        BY <2>2, <3>2 DEF TypeOK, Goto, server
      <4>4. QED BY <4>1, <4>2, <4>3 DEF Progress, Planned, Written
    <3>3. QED BY <3>1, <3>2
  <2>3. plan[c] = {}
    BY <1>4 DEF List, Progress, Planned
  <2>4. {u \in users : After(op[c], u, member[u]) # member[u]} \in SUBSET users
    OBVIOUS
  <2>5. QED BY <1>4, <2>1, <2>2, <2>3, <2>4 DEF List
<1>5. ASSUME NEW c \in Clients, NEW u \in Users, WriteUser(c, u) PROVE Progress'
  <2> SUFFICES ASSUME NEW d \in Clients
               PROVE  /\ Planned(d)'
                      /\ \A v \in plan[d] : Unshared(d, v)' => Written(d, v)'
    BY <1>5 DEF Progress, WriteUser
  <2>1. /\ \A v : Unshared(d, v)' <=> Unshared(d, v)
        /\ \A v : Wanted(d, v)' = Wanted(d, v)
    BY <1>5 DEF WriteUser, Unshared, Wanted, After, Gainers, Losers, Adds, Removes
  <2>2. u \in todo[c] /\ u \in plan[c] /\ pc[c] = "write"
    BY <1>5 DEF WriteUser, NextWrites, Progress, Planned
  <2>3. member' \in {member, [member EXCEPT ![u] = Wanted(c, u)]}
    BY <1>5 DEF WriteUser, SendGroups, Wanted
  <2>4. CASE d # c
    <3>1. /\ todo'[d] = todo[d] /\ pc'[d] = pc[d] /\ UNCHANGED <<plan, seen>>
      BY <1>5, <2>4 DEF WriteUser, Fail, Goto, TypeOK
    <3>2. \A v \in plan[d] : Unshared(d, v) => member'[v] = member[v]
      <4>1. \A v \in plan[d] : Unshared(d, v) => v # u
        BY <2>2, <2>4 DEF Unshared
      <4>2. QED BY <2>3, <4>1 DEF TypeOK, Memberships
    <3>3. QED BY <2>1, <3>1, <3>2 DEF Progress, Planned, Written
  <2>5. CASE d = c
    <3>1. CASE /\ member' = [member EXCEPT ![u] = SendGroups(c, u)]
               /\ todo' = [todo EXCEPT ![c] = @ \ {u}]
               /\ UNCHANGED <<pc, faults>>
      BY <1>5, <2>1, <2>2, <2>5, <3>1
         DEF WriteUser, Progress, Planned, Written, TypeOK, Memberships,
             SendGroups, Wanted
    <3>2. CASE pc' = [pc EXCEPT ![c] = "error"] /\ UNCHANGED todo
      BY <1>5, <2>1, <2>2, <2>3, <2>5, <3>2
         DEF WriteUser, Progress, Planned, Written, TypeOK, Memberships
    <3>3. QED BY <1>5, <3>1, <3>2 DEF WriteUser, Fail, Goto
  <2>6. QED BY <2>4, <2>5
<1>6. ASSUME NEW c \in Clients, Finish(c) PROVE Progress'
  <2> SUFFICES ASSUME NEW d \in Clients
               PROVE  /\ Planned(d)'
                      /\ \A u \in plan[d] : Unshared(d, u)' => Written(d, u)'
    BY <1>6 DEF Progress, Finish, local
  <2>1. /\ \A u : Unshared(d, u)' <=> Unshared(d, u)
        /\ \A u : Wanted(d, u)' = Wanted(d, u)
    BY <1>6 DEF Finish, Unshared, Wanted, After, Gainers, Losers, Adds, Removes,
                server, local
  <2>2. QED
    BY <1>6, <2>1 DEF Finish, Goto, Progress, Planned, Written, TypeOK, server, local
<1>7. ASSUME Other PROVE Progress'
  <2>1. /\ UNCHANGED <<pc, local>>
        /\ touched \subseteq touched'
        /\ \A u \in Users : u \notin touched' => member'[u] = member[u]
    <3>1. CASE \E u \in Users : \E G \in SUBSET groups : PutUser(u, G)
      BY <3>1 DEF PutUser, TypeOK, Memberships
    <3>2. CASE \E u \in users : DeleteUser(u)
      BY <3>2 DEF DeleteUser, TypeOK, Memberships
    <3>3. CASE \E g \in groups : DeleteGroup(g)
      BY <3>3 DEF DeleteGroup, TypeOK, Memberships
    <3>4. QED BY <1>7, <3>1, <3>2, <3>3 DEF Other
  <2> SUFFICES ASSUME NEW d \in Clients
               PROVE  /\ Planned(d)'
                      /\ \A u \in plan[d] : Unshared(d, u)' => Written(d, u)'
    BY <2>1 DEF Progress, local
  <2>2. \A u : Unshared(d, u)' => Unshared(d, u) /\ u \notin touched'
    BY <2>1 DEF Unshared, local
  <2>3. \A u : Wanted(d, u)' = Wanted(d, u)
    BY <2>1 DEF Wanted, After, Gainers, Losers, Adds, Removes, local
  <2>4. QED
    BY <2>1, <2>2, <2>3 DEF Progress, Planned, Written, TypeOK, local
<1>8. CASE UNCHANGED vars
  <2>1. UNCHANGED <<pc, member, touched, plan, todo, seen, op>>
    BY <1>8 DEF vars, server, local
  <2>2. \A d, u : Unshared(d, u)' <=> Unshared(d, u)
    BY <2>1 DEF Unshared
  <2>3. \A d, u : Wanted(d, u)' = Wanted(d, u)
    BY <2>1 DEF Wanted, After, Gainers, Losers, Adds, Removes
  <2>4. QED BY <2>1, <2>2, <2>3 DEF Progress, Planned, Written
<1>9. QED
  BY <1>1, <1>2, <1>3, <1>4, <1>5, <1>6, <1>7, <1>8 DEF Next, Step

\* The strengthening Complete is inductive.
LEMMA CompleteStep == TypeOK /\ Progress /\ Complete /\ [Next]_vars => Complete'
<1> SUFFICES ASSUME TypeOK, Progress, Complete, [Next]_vars PROVE Complete'
  OBVIOUS
<1>1. ASSUME NEW c \in Clients, Step(c), UNCHANGED op, pc'[c] # "idle",
             \A u \in Users \ users' : member'[u] = {},
             (Alone(c)' /\ (pc'[c] = "write" \/ (pc'[c] = "ok" /\ ~op[c].keep))) =>
                /\ plan'[c] \subseteq users'
                /\ \A u \in users' \ plan'[c] : After(op[c], u, member'[u]) = member'[u]
      PROVE  Complete'
  <2>1. \A d \in Clients \ {c} : ~Alone(d)'
    BY <1>1 DEF Alone
  <2>2. QED BY <1>1, <2>1 DEF Complete
<1>2. ASSUME NEW c \in Clients, Step(c), UNCHANGED <<users, member, op>>,
             pc'[c] \in {"check", "create", "update", "list", "error"}
                \/ (pc'[c] = "ok" /\ op[c].keep)
      PROVE  Complete'
  BY <1>1, <1>2 DEF Complete
<1>3. ASSUME NEW c \in Clients, Begin(c) PROVE Complete'
  BY <1>2, <1>3 DEF Step, Begin, Goto, server, local, TypeOK
<1>4. ASSUME NEW c \in Clients, Check(c) PROVE Complete'
  BY <1>2, <1>4 DEF Step, Check, Goto, server, local, TypeOK
<1>5. ASSUME NEW c \in Clients, WriteGroup(c) PROVE Complete'
  BY <1>2, <1>5 DEF Step, WriteGroup, Fail, Goto, local, TypeOK
<1>6. ASSUME NEW c \in Clients, List(c) PROVE Complete'
  <2>1. CASE Fail(c)
    BY <1>2, <1>6, <2>1 DEF Step, List, Fail, Goto, server, local, TypeOK
  <2>2. CASE ~Fail(c)
    <3>1. /\ plan' = [plan EXCEPT ![c] =
                        {u \in users : After(op[c], u, member[u]) # member[u]}]
          /\ pc' = [pc EXCEPT ![c] = "write"]
          /\ UNCHANGED <<users, member, op>>
      BY <1>6, <2>2 DEF List, Goto, server
    <3>2. /\ plan'[c] \subseteq users
          /\ \A u \in users \ plan'[c] : After(op[c], u, member[u]) = member[u]
      BY <3>1 DEF TypeOK
    <3>3. QED BY <1>1, <1>6, <3>1, <3>2 DEF Step, Complete, TypeOK
  <2>3. QED BY <2>1, <2>2
<1>7. ASSUME NEW c \in Clients, NEW u \in Users, WriteUser(c, u) PROVE Complete'
  <2>1. /\ u \in plan[c] /\ pc[c] = "write" /\ pc'[c] \in {"write", "error"}
        /\ \A d \in Clients \ {c} : pc'[d] = pc[d]
    BY <1>7 DEF WriteUser, NextWrites, Fail, Goto, Progress, Planned, TypeOK
  <2>2. /\ \A v \in Users \ {u} : member'[v] = member[v]
        /\ u \in users \/ UNCHANGED member
    BY <1>7 DEF WriteUser, TypeOK, Memberships
  <2>3. UNCHANGED <<users, touched, op, plan>>
    BY <1>7 DEF WriteUser
  <2>4. Alone(c)' => Alone(c)
    BY <2>1, <2>3 DEF Alone
  <2>5. Step(c)
    BY <1>7 DEF Step
  <2>6. \A v \in Users \ users : member'[v] = {}
    BY <2>2 DEF Complete
  <2>7. Alone(c) =>
           /\ plan[c] \subseteq users
           /\ \A v \in users \ plan[c] : After(op[c], v, member'[v]) = member'[v]
    BY <2>1, <2>2 DEF Complete, TypeOK
  <2>8. QED BY <1>1, <2>1, <2>3, <2>4, <2>5, <2>6, <2>7
<1>8. ASSUME NEW c \in Clients, Finish(c) PROVE Complete'
  <2>1. /\ UNCHANGED <<users, member, touched, op, plan>>
        /\ pc[c] = "write" /\ pc'[c] = "ok"
        /\ \A d \in Clients \ {c} : pc'[d] = pc[d]
    BY <1>8 DEF Finish, Goto, server, local, TypeOK
  <2>2. Alone(c)' => Alone(c)
    BY <2>1 DEF Alone
  <2>3. QED BY <1>1, <1>8, <2>1, <2>2 DEF Step, Complete
<1>9. ASSUME Other PROVE Complete'
  <2>1. CASE \E u \in Users : \E G \in SUBSET groups : PutUser(u, G)
    BY <2>1 DEF PutUser, Complete, Alone, TypeOK, Memberships
  <2>2. CASE \E u \in users : DeleteUser(u)
    BY <2>2 DEF DeleteUser, Complete, Alone, TypeOK, Memberships
  <2>3. ASSUME NEW g \in groups, DeleteGroup(g) PROVE Complete'
    <3>1. /\ UNCHANGED <<users, pc, op, plan>>
          /\ touched' = {} => touched = {} /\ \A u \in Users : member'[u] = member[u]
          /\ \A u \in Users : member'[u] \subseteq member[u]
      BY <2>3 DEF DeleteGroup, local, TypeOK, Memberships
    <3>2. \A c \in Clients : Alone(c)' => Alone(c) /\ touched' = {}
      BY <3>1 DEF Alone
    <3>3. \A u \in Users \ users' : member'[u] = {}
      BY <3>1 DEF Complete
    <3>4. ASSUME NEW c \in Clients, Alone(c)',
                 pc'[c] = "write" \/ (pc'[c] = "ok" /\ ~op'[c].keep)
          PROVE  /\ plan'[c] \subseteq users'
                 /\ \A u \in users' \ plan'[c] :
                       After(op'[c], u, member'[u]) = member'[u]
      BY <3>1, <3>2, <3>4 DEF Complete, TypeOK
    <3>5. QED
      BY <3>1, <3>3, <3>4 DEF Complete, After, Gainers, Losers, Adds, Removes
  <2>4. QED BY <1>9, <2>1, <2>2, <2>3 DEF Other
<1>10. CASE UNCHANGED vars
  BY <1>10 DEF vars, server, local, Complete, Alone, After, Gainers, Losers,
               Adds, Removes
<1>11. QED
  BY <1>3, <1>4, <1>5, <1>6, <1>7, <1>8, <1>9, <1>10 DEF Next, Step

-----------------------------------------------------------------------------
\* IInv holds of every reachable state.
LEMMA Inductive == Spec => []IInv
<1>1. Init => IInv
  <2> SUFFICES ASSUME Init PROVE IInv
    OBVIOUS
  <2>1. TypeOK
    BY GroupMembershipAssumption DEF Init, TypeOK, Memberships
  <2>2. Progress
    BY DEF Init, Progress, Planned
  <2>3. Complete
    BY DEF Init, Complete
  <2>4. QED BY <2>1, <2>2, <2>3 DEF IInv
<1>2. IInv /\ [Next]_vars => IInv'
  BY TypeStep, ProgressStep, CompleteStep DEF IInv
<1>3. QED BY <1>1, <1>2, PTL DEF Spec

\* The type invariant (all variables of the module).
THEOREM TypeCorrect == Spec => []TypeOK
<1>1. IInv => TypeOK
  BY DEF IInv
<1>2. QED BY <1>1, Inductive, PTL

\* Whatever the other clients do and whatever fails, an operation that returns
\* without an error has left every user it alone writes with exactly the groups
\* it is to have (updateUsersMembership with lists made from one read).
THEOREM ExactOnUnshared == Spec => []UnsharedIsExact
<1>1. IInv => UnsharedIsExact
  BY DEF IInv, Progress, Written, Wanted, UnsharedIsExact
<1>2. QED BY <1>1, Inductive, PTL

\* A call that failed midway has left each such user as it was or as asked.
THEOREM NeverHalfWritten == Spec => []NothingHalfWritten
<1>1. IInv => NothingHalfWritten
  BY DEF IInv, Progress, Written, Wanted, NothingHalfWritten
<1>2. QED BY <1>1, Inductive, PTL

\* A client that has the server to itself leaves the group with exactly the
\* members given (SetMembers, and Create, Update and Set with members).
THEOREM ExactWhenAlone == Spec => []AloneIsExact
<1>1. IInv => AloneIsExact
  <2> SUFFICES ASSUME IInv, NEW c \in Clients, pc[c] = "ok", Adds(op[c]),
                      Removes(op[c]), ~op[c].keep, Alone(c), NEW u \in Users
               PROVE  op[c].group \in member[u] <=> u \in op[c].users /\ u \in users
    BY DEF AloneIsExact, Alone, IInv, TypeOK, Ops
  <2>1. op[c].group \in After(op[c], u, seen[c][u]) <=> u \in op[c].users
    BY DEF After, Gainers, Losers, Adds, Removes
  <2>2. op[c].group \in After(op[c], u, member[u]) <=> u \in op[c].users
    BY DEF After, Gainers, Losers, Adds, Removes
  <2>3. CASE u \in plan[c]
    <3>1. Unshared(c, u)
      BY DEF Unshared, Alone, IInv, Progress, Planned
    <3>2. member[u] = After(op[c], u, seen[c][u])
      BY <2>3, <3>1 DEF IInv, Progress, Written, Wanted
    <3>3. plan[c] \subseteq users
      BY DEF IInv, Complete
    <3>4. QED BY <2>1, <2>3, <3>2, <3>3
  <2>4. CASE u \in users \ plan[c]
    BY <2>2, <2>4 DEF IInv, Complete
  <2>5. CASE u \notin users
    BY <2>5 DEF IInv, Complete
  <2>6. QED BY <2>3, <2>4, <2>5
<1>2. QED BY <1>1, Inductive, PTL
=============================================================================
