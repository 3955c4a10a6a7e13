------------------------ MODULE PoolMembershipProofs ------------------------
(***************************************************************************)
(* Proofs about PoolMembership, for any guests, pools, clients and         *)
(* versions.  Three arguments go side by side.  A guest that only one      *)
(* operation reaches moves in that operation's own steps, so that Progress *)
(* says where it is at each of them.  What leaves a pool in a step is in   *)
(* ToRemove, or leaves on purpose.  And an operation that is alone sees    *)
(* the pools as they are, so that the server has no reason to refuse it    *)
(* but that its pool is gone (Welcome).                                    *)
(***************************************************************************)
EXTENDS PoolMembership, TLAPS

\* The operations that come to each step.
Placed(c) ==
    /\ pc[c] \in {"exists", "post", "put", "get", "remove"} => op[c].kind # "guest"
    /\ pc[c] = "post" => op[c].kind \in {"create", "set"}
    /\ pc[c] = "put" => op[c].kind \in {"update", "set"}
    /\ pc[c] = "get" => op[c].kind \in {"add", "guests", "update", "set"}
    /\ pc[c] = "remove" => op[c].kind \in {"remove", "guests", "update", "set"}
    /\ pc[c] \in {"read", "leave"} => op[c].kind = "guest"
    /\ pc[c] = "leave" => Target(c) = NoPool \/ major < 8
    /\ pc[c] \in {"leave", "add"} /\ op[c].kind = "guest" =>
          \A i \in op[c].guests : seen[c][i] # Target(c)
    /\ pc[c] = "add" => op[c].kind # "remove" /\ Target(c) # NoPool
    /\ pc[c] \in {"exists", "post", "put", "get", "read"} => \A i \in Guests : seen[c][i] = NoPool

\* The server has no guest in a pool that does not exist.
PoolsExist == \A i \in Guests : pool[i] \in pools \cup {NoPool}

Unshared(c, i) == \A d \in Clients \ {c} : i \notin Reach(d)

\* The guest i is seen in the pool of c's operation if it began there.
SeenRight(c, i) == seen[c][i] = Target(c) <=> began[c][i] = Target(c)

\* How far c has come with the guest i, which it alone reaches.
Progress(c, i) ==
    /\ pc[c] \in {"exists", "post", "put", "get", "read", "remove", "leave"} =>
          pool[i] = began[c][i]
    /\ pc[c] = "remove" /\ op[c].kind # "remove" => SeenRight(c, i)
    /\ pc[c] = "add" /\ op[c].kind = "guest" /\ i \notin op[c].guests =>
          pool[i] = began[c][i]
    /\ pc[c] = "add" /\ op[c].kind # "guest" => SeenRight(c, i)
    /\ pc[c] = "add" /\ op[c].kind = "add" => pool[i] = began[c][i]
    /\ pc[c] = "add" /\ op[c].kind \notin {"guest", "add"} =>
          pool[i] = IF i \notin op[c].guests /\ began[c][i] = Target(c)
                    THEN NoPool ELSE began[c][i]
    /\ pc[c] = "ok" => pool[i] = Result(op[c], began[c])[i]

\* Nobody but c has sent the server anything, and nothing was lost.
Quiet(c) ==
    /\ major >= 8 /\ faults = 0
    /\ \A d \in Clients \ {c} : pc[d] = "idle"
    /\ op[c].kind \notin {"remove", "create"}

\* What c, when it is quiet, knows of the server before each request.
Welcome(c) ==
    /\ pc[c] = "post" => Target(c) \notin pools
    /\ pc[c] = "remove" => \A i \in Guests : seen[c][i] = Target(c) <=> pool[i] = Target(c)
    /\ pc[c] = "leave" => \A i \in op[c].guests : seen[c][i] = pool[i] /\ pool[i] # NoPool
    /\ pc[c] = "add" => \A i \in op[c].guests : seen[c][i] # Target(c) => pool[i] # Target(c)
    /\ pc[c] \in {"error", "dropped"} => Target(c) \notin pools \cup {NoPool}

IInv ==
    /\ TypeOK
    /\ PoolsExist
    /\ \A c \in Clients :
          /\ Placed(c)
          /\ \A i \in Guests : Unshared(c, i) => Progress(c, i)
          /\ Quiet(c) => Welcome(c)

-----------------------------------------------------------------------------

\* What an operation is about.
LEMMA OpsDef ==
  ASSUME TypeOK, NEW c \in Clients
  PROVE  /\ op[c].kind \in AllKinds /\ op[c].guests \subseteq Guests
         /\ Target(c) \in Pools \cup {NoPool}
         /\ op[c].kind # "guest" => Target(c) \in Pools
         /\ op[c].kind = "guest" => \E i \in Guests : op[c].guests = {i}
BY PoolMembershipAssumption DEF TypeOK, Ops, Target

\* A PUT that is carried out moves all of its guests, one that is not none.  It
\* is refused only if it is not accepted, and fails otherwise only by being lost.
PutDone(c, accepted, S, p, next, onError) ==
    /\ UNCHANGED <<major, pools, op, seen, began>>
    /\ faults' \in 0..MaxFaults /\ (faults' = 0 => faults = 0)
    /\ \/ pool' = pool
       \/ accepted /\ pool' = [i \in Guests |-> IF i \in S THEN p ELSE pool[i]]
    /\ \/ /\ accepted /\ pc' = [pc EXCEPT ![c] = next]
          /\ pool' = [i \in Guests |-> IF i \in S THEN p ELSE pool[i]]
       \/ pc' = [pc EXCEPT ![c] = onError] /\ (faults' = 0 => ~accepted /\ pool' = pool)

\* Every outcome of a PUT is one of those.
LEMMA PutOutcome ==
  ASSUME TypeOK, NEW c \in Clients, NEW accepted \in BOOLEAN, NEW S, NEW p, NEW next, NEW onError,
         Put(c, accepted, S, p, next, onError)
  PROVE  PutDone(c, accepted, S, p, next, onError)
<1> DEFINE moved == [i \in Guests |-> IF i \in S THEN p ELSE pool[i]]
<1>1. UNCHANGED <<major, pools, op, seen, began>>
  BY DEF Put
<1>2. \/ accepted /\ pool' = moved /\ pc' = [pc EXCEPT ![c] = next] /\ faults' = faults
      \/ ~accepted /\ pc' = [pc EXCEPT ![c] = onError] /\ pool' = pool /\ faults' = faults
      \/ /\ faults < MaxFaults /\ faults' = faults + 1 /\ pc' = [pc EXCEPT ![c] = onError]
         /\ pool' = pool \/ (accepted /\ pool' = moved)
  BY DEF Put, Goto, CanFail
<1> HIDE DEF moved
<1>3. /\ faults' \in 0..MaxFaults /\ (faults' = 0 => faults = 0)
      /\ pool' = pool \/ (accepted /\ pool' = moved)
      /\ \/ accepted /\ pc' = [pc EXCEPT ![c] = next] /\ pool' = moved
         \/ pc' = [pc EXCEPT ![c] = onError] /\ (faults' = 0 => ~accepted /\ pool' = pool)
  BY <1>2, PoolMembershipAssumption DEF TypeOK
<1>4. QED BY <1>1, <1>3 DEF PutDone, moved

\* The three requests that move guests.
LEMMA Puts ==
  ASSUME TypeOK, NEW c \in Clients
  PROVE  /\ Remove(c) =>
               PutDone(c, Target(c) \in pools /\ \A i \in ToRemove(c) : pool[i] = Target(c),
                       ToRemove(c), NoPool,
                       IF op[c].kind = "remove" THEN "ok" ELSE "add", "error")
         /\ Leave(c) =>
               PutDone(c, \A i \in op[c].guests : seen[c][i] \in pools /\ pool[i] = seen[c][i],
                       op[c].guests, NoPool, IF Target(c) = NoPool THEN "ok" ELSE "add", "error")
         /\ Add(c) =>
               \/ ToAdd(c) = {} /\ pc' = [pc EXCEPT ![c] = "ok"]
                  /\ UNCHANGED <<server, op, seen, began, faults>>
               \/ ToAdd(c) # {} /\ \E onError \in {"dropped", "error"} :
                     PutDone(c, Addable(c, ToAdd(c)), ToAdd(c), Target(c), "ok", onError)
               \/ ReadFails(c)
<1>1. ASSUME Remove(c)
      PROVE  PutDone(c, Target(c) \in pools /\ \A i \in ToRemove(c) : pool[i] = Target(c),
                     ToRemove(c), NoPool,
                     IF op[c].kind = "remove" THEN "ok" ELSE "add", "error")
  BY <1>1, PutOutcome DEF Remove
<1>2. ASSUME Leave(c)
      PROVE  PutDone(c, \A i \in op[c].guests : seen[c][i] \in pools /\ pool[i] = seen[c][i],
                     op[c].guests, NoPool, IF Target(c) = NoPool THEN "ok" ELSE "add", "error")
  BY <1>2, PutOutcome DEF Leave
<1>3. ASSUME Add(c)
      PROVE  \/ ToAdd(c) = {} /\ pc' = [pc EXCEPT ![c] = "ok"]
                /\ UNCHANGED <<server, op, seen, began, faults>>
             \/ ToAdd(c) # {} /\ \E onError \in {"dropped", "error"} :
                   PutDone(c, Addable(c, ToAdd(c)), ToAdd(c), Target(c), "ok", onError)
             \/ ReadFails(c)
  <2>1. Addable(c, ToAdd(c)) \in BOOLEAN
    BY DEF Addable
  <2>2. ASSUME NEW onError \in {"dropped", "error"},
               Put(c, Addable(c, ToAdd(c)), ToAdd(c), Target(c), "ok", onError)
        PROVE  PutDone(c, Addable(c, ToAdd(c)), ToAdd(c), Target(c), "ok", onError)
    BY <2>1, <2>2, PutOutcome
  <2>3. QED BY <1>3, <2>2 DEF Add, Goto
<1>4. QED BY <1>1, <1>2, <1>3

\* What every step of an operation leaves alone, and the steps that it comes to.
LEMMA StepShape ==
  ASSUME TypeOK, NEW c \in Clients, Placed(c), Step(c)
  PROVE  /\ op' = op /\ major' = major
         /\ pc' = [pc EXCEPT ![c] = pc'[c]] /\ pc'[c] # "idle"
         /\ pc'[c] \in {"exists", "post", "put", "get", "read",
                        "remove", "leave", "add", "ok", "dropped", "error"}
         /\ seen' = [seen EXCEPT ![c] = seen'[c]]
         /\ pc[c] \notin {"idle", "get", "read"} => seen' = seen
         /\ began' = [began EXCEPT ![c] = began'[c]]
         /\ pc[c] # "idle" => began' = began
         /\ faults' \in 0..MaxFaults /\ (faults' = 0 => faults = 0)
<1> USE DEF Goto, server
<1>1. CASE Begin(c)
  BY <1>1 DEF Begin, TypeOK
<1>2. CASE ReadFails(c)
  BY <1>2, PoolMembershipAssumption DEF ReadFails, CanFail, TypeOK
<1>3. CASE Exists(c) /\ ~ReadFails(c)
  <2>1. pc' = [pc EXCEPT ![c] = pc'[c]] /\ pc'[c] \in {"post", "error", "put", "remove", "get"}
    BY <1>3 DEF Exists, TypeOK
  <2>2. QED BY <1>3, <2>1 DEF Exists, TypeOK
<1>4. CASE Post(c)
  BY <1>4, PoolMembershipAssumption DEF Post, CanFail, TypeOK
<1>5. CASE PutComment(c) /\ ~ReadFails(c)
  <2>1. pc' = [pc EXCEPT ![c] = pc'[c]] /\ pc'[c] \in {"get", "error"}
    BY <1>5 DEF PutComment, TypeOK
  <2>2. QED BY <1>5, <2>1 DEF PutComment, TypeOK
<1>6. CASE Get(c) /\ ~ReadFails(c)
  <2>1. pc' = [pc EXCEPT ![c] = pc'[c]] /\ pc'[c] \in {"remove", "add", "error"}
    BY <1>6 DEF Get, TypeOK
  <2>2. seen' = [seen EXCEPT ![c] = seen'[c]]
    BY <1>6 DEF Get, TypeOK
  <2>3. QED BY <1>6, <2>1, <2>2 DEF Get, TypeOK
<1>7. CASE Remove(c)
  BY <1>7, Puts DEF Remove, PutDone, TypeOK
<1>8. CASE Add(c) /\ ~ReadFails(c)
  <2>1. CASE ToAdd(c) = {}
    BY <1>8, <2>1, Puts DEF Add, TypeOK
  <2>2. CASE ToAdd(c) # {}
    <3>1. PICK onError \in {"dropped", "error"} :
             PutDone(c, Addable(c, ToAdd(c)), ToAdd(c), Target(c), "ok", onError)
      BY <1>8, <2>2, Puts
    <3>2. QED BY <1>8, <3>1 DEF Add, PutDone, TypeOK
  <2>3. QED BY <2>1, <2>2
<1>9. CASE Read(c) /\ ~ReadFails(c)
  <2>1. PICK i \in Guests : op[c].guests = {i}
    BY <1>9, OpsDef DEF Read, Placed
  <2>2. pc' = [pc EXCEPT ![c] = pc'[c]] /\ pc'[c] \in {"ok", "add", "leave"}
    BY <1>9, <2>1 DEF Read, TypeOK
  <2>3. QED BY <1>9, <2>2 DEF Read, TypeOK
<1>10. CASE Leave(c)
  BY <1>10, Puts DEF Leave, PutDone, TypeOK
<1>11. QED
  BY <1>1, <1>2, <1>3, <1>4, <1>5, <1>6, <1>7, <1>8, <1>9, <1>10 DEF Step

\* A step moves only guests that the operation names or saw in its pool, into
\* its pool or out of every pool, and it forgets none of them.
LEMMA StepMoves ==
  ASSUME TypeOK, NEW c \in Clients, Placed(c), Step(c)
  PROVE  /\ pool' \in Where
         /\ \A i \in Guests \ Reach(c)' : pool'[i] = pool[i] /\ i \notin Reach(c)
         /\ pc[c] \notin {"remove", "leave", "add"} => pool' = pool
         /\ pc[c] # "post" => pools' = pools
<1> USE DEF server
<1>a. /\ Target(c) \in Pools \cup {NoPool} /\ Target(c)' = Target(c)
      /\ op[c].kind # "guest" => Target(c) # NoPool
      /\ op[c].kind \in AllKinds
  BY StepShape, OpsDef, PoolMembershipAssumption DEF Target
<1>b. Reach(c)' = op[c].guests \cup {i \in Guests : seen'[c][i] = Target(c) /\ Target(c) # NoPool}
  BY StepShape, <1>a DEF Reach
<1>c. \A i \in Guests \ Reach(c)' : i \notin Reach(c)
  BY StepShape, <1>a, <1>b DEF Reach, Placed
<1>1. CASE pc[c] \notin {"remove", "leave", "add"}
  <2>1. pool' = pool
    BY <1>1 DEF Step, Begin, Exists, Post, PutComment, Get, Remove, Add, Read, Leave, ReadFails
  <2>2. pc[c] # "post" => pools' = pools
    BY <1>1 DEF Step, Begin, Exists, Post, PutComment, Get, Remove, Add, Read, Leave, ReadFails
  <2>3. QED BY <1>1, <1>c, <2>1, <2>2 DEF TypeOK
<1>2. CASE pc[c] = "remove"
  <2>1. Remove(c)
    BY <1>2 DEF Step, Begin, Exists, Post, PutComment, Get, Add, Read, Leave
  <2>2. /\ pools' = pools /\ seen' = seen
        /\ pool' = pool \/ pool' = [i \in Guests |-> IF i \in ToRemove(c) THEN NoPool ELSE pool[i]]
    BY <2>1, Puts DEF PutDone
  <2>3. ToRemove(c) \subseteq Reach(c)'
    BY <1>2, <1>a, <1>b, <2>2 DEF ToRemove, Members, Placed
  <2>4. QED BY <1>2, <1>c, <2>2, <2>3 DEF TypeOK, Where
<1>3. CASE pc[c] = "leave"
  <2>1. Leave(c)
    BY <1>3 DEF Step, Begin, Exists, Post, PutComment, Get, Add, Read, Remove
  <2>2. /\ pools' = pools
        /\ pool' = pool \/ pool' = [i \in Guests |-> IF i \in op[c].guests THEN NoPool ELSE pool[i]]
    BY <2>1, Puts DEF PutDone
  <2>3. QED BY <1>3, <1>b, <1>c, <2>2 DEF TypeOK, Where
<1>4. CASE pc[c] = "add"
  <2>1. Add(c)
    BY <1>4 DEF Step, Begin, Exists, Post, PutComment, Get, Leave, Read, Remove
  <2>2. /\ pools' = pools
        /\ pool' = pool \/ pool' = [i \in Guests |-> IF i \in ToAdd(c) THEN Target(c) ELSE pool[i]]
    BY <2>1, Puts DEF PutDone, ReadFails
  <2>3. ToAdd(c) \subseteq Reach(c)'
    BY <1>b DEF ToAdd
  <2>4. QED BY <1>4, <1>a, <1>c, <2>2, <2>3 DEF TypeOK, Where
<1>5. QED BY <1>1, <1>2, <1>3, <1>4

\* A step of the server or of an operation keeps the types.
LEMMA TypeStep ==
  ASSUME TypeOK, \A c \in Clients : Placed(c), Next
  PROVE  TypeOK'
<1>1. ASSUME NEW c \in Clients, Step(c)
      PROVE  TypeOK'
  <2> USE <1>1
  <2>1. pools' \subseteq Pools
    <3>1. CASE pc[c] = "post"
      <4>1. Post(c) /\ Target(c) \in Pools
        BY <3>1, OpsDef DEF Placed, Step, Begin, Exists, PutComment, Get, Remove, Add, Read, Leave
      <4>2. QED BY <4>1 DEF Post, TypeOK
    <3>2. QED BY <3>1, StepMoves DEF TypeOK
  <2>2. seen'[c] \in Where /\ began'[c] \in Where
    <3>1. CASE pc[c] = "idle"
      BY <3>1, PoolMembershipAssumption
         DEF Step, Begin, Exists, Post, PutComment, Get, Remove, Add, Read, Leave, TypeOK, Where
    <3>2. CASE pc[c] \in {"get", "read"}
      <4>1. Get(c) \/ Read(c)
        BY <3>2 DEF Step, Begin, Exists, Post, PutComment, Remove, Add, Leave
      <4>2. \/ seen' = seen
            \/ seen' = [seen EXCEPT ![c] = pool]
            \/ seen' = [seen EXCEPT ![c] =
                          [i \in Guests |-> IF pool[i] = Target(c) THEN pool[i] ELSE NoPool]]
        BY <4>1 DEF Get, Read, ReadFails
      <4>3. [i \in Guests |-> IF pool[i] = Target(c) THEN pool[i] ELSE NoPool] \in Where
        BY DEF TypeOK, Where
      <4>4. QED BY <3>2, <4>2, <4>3, StepShape DEF TypeOK
    <3>3. QED BY <3>1, <3>2, StepShape DEF TypeOK
  <2>3. pool' \in Where
    BY StepMoves
  <2>4. QED BY <2>1, <2>2, <2>3, StepShape DEF TypeOK
<1>2. ASSUME NEW p \in Pools, DeletePool(p)
      PROVE  TypeOK'
  BY <1>2 DEF DeletePool, TypeOK
<1>3. QED BY <1>1, <1>2 DEF Next

\* Each step brings its operation to the steps it belongs to.
LEMMA PlacedStep ==
  ASSUME TypeOK, \A d \in Clients : Placed(d), Next, NEW c \in Clients
  PROVE  Placed(c)'
<1>1. CASE \E p \in Pools : DeletePool(p)
  BY <1>1 DEF DeletePool, Placed, Target
<1>2. ASSUME NEW d \in Clients \ {c}, Step(d)
      PROVE  Placed(c)'
  <2>1. pc'[c] = pc[c] /\ seen'[c] = seen[c] /\ op' = op /\ major' = major
    BY <1>2, StepShape DEF TypeOK
  <2>2. QED BY <2>1 DEF Placed, Target
<1>3. ASSUME Step(c)
      PROVE  Placed(c)'
  <2> USE <1>3 DEF Goto
  <2>1. /\ op' = op /\ major' = major /\ Target(c)' = Target(c)
        /\ op[c].kind \in AllKinds /\ (op[c].kind # "guest" => Target(c) # NoPool)
    BY StepShape, OpsDef, PoolMembershipAssumption DEF Target
  <2>2. CASE Begin(c)
    <3>1. pc'[c] \in {"read", "exists"} /\ (pc'[c] = "read" <=> op[c].kind = "guest")
      BY <2>2 DEF Begin, TypeOK
    <3>2. \A i \in Guests : seen'[c][i] = NoPool
      BY <2>2 DEF Begin, TypeOK
    <3>3. QED BY <2>1, <3>1, <3>2 DEF Placed
  <2>3. CASE pc'[c] \in {"ok", "error", "dropped"}
    BY <2>3 DEF Placed
  <2>4. CASE Exists(c) /\ ~ReadFails(c)
    <3>1. /\ pc'[c] = "post" => op[c].kind \in {"create", "set"}
          /\ pc'[c] = "put" => op[c].kind \in {"update", "set"}
          /\ pc'[c] = "remove" => op[c].kind = "remove"
          /\ pc'[c] = "get" => op[c].kind \notin {"create", "set", "update", "remove"}
          /\ pc'[c] \in {"post", "error", "put", "remove", "get"}
      BY <2>4 DEF Exists, TypeOK
    <3>2. seen'[c] = seen[c] /\ op[c].kind # "guest" /\ \A i \in Guests : seen[c][i] = NoPool
      BY <2>4 DEF Exists, Placed
    <3>3. QED BY <2>1, <3>1, <3>2 DEF Placed, AllKinds
  <2>5. CASE Post(c) /\ pc'[c] = "add"
    BY <2>1, <2>5 DEF Placed, Post
  <2>0. ReadFails(c) => pc'[c] = "error"
    BY DEF ReadFails, TypeOK
  <2>6. CASE PutComment(c) /\ pc'[c] = "get"
    BY <2>1, <2>6, StepShape DEF Placed, PutComment
  <2>7. CASE Get(c) /\ pc'[c] # "error"
    <3>1. /\ pc'[c] \in {"remove", "add"}
          /\ pc'[c] = "remove" => op[c].kind # "add"
      BY <2>7, <2>0 DEF Get, TypeOK
    <3>2. op[c].kind \in {"add", "guests", "update", "set"}
      BY <2>7 DEF Get, Placed
    <3>3. QED BY <2>1, <3>1, <3>2 DEF Placed
  <2>8. CASE Remove(c) /\ pc'[c] \notin {"ok", "error"}
    <3>1. pc'[c] = "add" /\ op[c].kind # "remove"
      BY <2>8, Puts DEF PutDone, TypeOK
    <3>2. op[c].kind # "guest"
      BY <2>8 DEF Remove, Placed
    <3>3. QED BY <2>1, <3>1, <3>2 DEF Placed
  <2>9. CASE Add(c) /\ ~ReadFails(c)
    <3>1. pc'[c] \in {"ok", "error", "dropped"}
      BY <2>9, Puts DEF PutDone, TypeOK
    <3>2. QED BY <3>1 DEF Placed
  <2>10. CASE Read(c) /\ ~ReadFails(c)
    <3>1. PICK i \in Guests : op[c].guests = {i}
      BY <2>10, OpsDef DEF Read, Placed
    <3>2. op[c].kind = "guest"
      BY <2>10 DEF Read, Placed
    <3>3. /\ pc'[c] \in {"ok", "add", "leave"}
          /\ pc'[c] = "leave" => Target(c) = NoPool \/ major < 8
          /\ pc'[c] = "add" => Target(c) # NoPool
          /\ pc'[c] # "ok" => pool[i] # Target(c)
          /\ seen'[c] = pool
      BY <2>10, <3>1 DEF Read, TypeOK
    <3>4. QED BY <2>1, <3>1, <3>2, <3>3 DEF Placed
  <2>11. CASE Leave(c) /\ pc'[c] \notin {"ok", "error"}
    <3>1. pc'[c] = "add" /\ Target(c) # NoPool
      BY <2>11, Puts DEF PutDone, TypeOK
    <3>2. op[c].kind = "guest" /\ seen' = seen /\ \A i \in op[c].guests : seen[c][i] # Target(c)
      BY <2>11, StepShape DEF Leave, Placed
    <3>3. QED BY <2>1, <3>1, <3>2 DEF Placed
  <2>13. /\ Post(c) => pc'[c] \in {"add", "error"}
         /\ PutComment(c) => pc'[c] \in {"get", "error"}
    BY <2>0 DEF Post, PutComment, TypeOK
  <2>14. QED
    BY <2>0, <2>2, <2>3, <2>4, <2>5, <2>6, <2>7, <2>8, <2>9, <2>10, <2>11, <2>13 DEF Step
<1>4. QED BY <1>1, <1>2, <1>3 DEF Next

\* The server puts guests into pools that exist only, and deletes empty ones.
LEMMA PoolsExistStep ==
  ASSUME TypeOK, \A c \in Clients : Placed(c), PoolsExist, Next
  PROVE  PoolsExist'
<1>1. CASE \E p \in Pools : DeletePool(p)
  BY <1>1 DEF DeletePool, PoolsExist
<1>2. ASSUME NEW c \in Clients, Step(c)
      PROVE  PoolsExist'
  <2>1. CASE pc[c] \notin {"remove", "leave", "add"}
    <3>1. pools \subseteq pools'
      BY <1>2, StepMoves DEF Post, Step, Begin, Exists, PutComment, Get, Remove, Add, Read, Leave
    <3>2. QED BY <1>2, <2>1, <3>1, StepMoves DEF PoolsExist
  <2>2. CASE pc[c] = "remove"
    <3>1. Remove(c)
      BY <1>2, <2>2 DEF Step, Begin, Exists, Post, PutComment, Get, Add, Read, Leave
    <3>2. QED BY <3>1, Puts DEF PutDone, PoolsExist
  <2>3. CASE pc[c] = "leave"
    <3>1. Leave(c)
      BY <1>2, <2>3 DEF Step, Begin, Exists, Post, PutComment, Get, Add, Read, Remove
    <3>2. QED BY <3>1, Puts DEF PutDone, PoolsExist
  <2>4. CASE pc[c] = "add"
    <3>1. Add(c)
      BY <1>2, <2>4 DEF Step, Begin, Exists, Post, PutComment, Get, Leave, Read, Remove
    <3>2. QED BY <3>1, Puts DEF PutDone, PoolsExist, Addable, ReadFails, server
  <2>5. QED BY <2>1, <2>2, <2>3, <2>4
<1>3. QED BY <1>1, <1>2 DEF Next

\* A guest that only c reaches is moved by no step of another, nor are c's own
\* variables.
LEMMA OthersStep ==
  ASSUME TypeOK, \A d \in Clients : Placed(d), Next,
         NEW c \in Clients, NEW i \in Guests, Unshared(c, i)', ~Step(c)
  PROVE  /\ pool'[i] = pool[i] /\ op' = op
         /\ pc'[c] = pc[c] /\ seen'[c] = seen[c] /\ began'[c] = began[c]
<1>1. CASE \E p \in Pools : DeletePool(p)
  BY <1>1 DEF DeletePool
<1>2. ASSUME NEW d \in Clients \ {c}, Step(d)
      PROVE  /\ pool'[i] = pool[i] /\ op' = op
             /\ pc'[c] = pc[c] /\ seen'[c] = seen[c] /\ began'[c] = began[c]
  <2>1. i \notin Reach(d)'
    BY DEF Unshared
  <2>2. QED BY <1>2, <2>1, StepShape, StepMoves DEF TypeOK
<1>3. QED BY <1>1, <1>2 DEF Next

\* The guests that only c reaches were reached by c alone all along.
LEMMA UnsharedBefore ==
  ASSUME TypeOK, \A d \in Clients : Placed(d), Next,
         NEW c \in Clients, NEW i \in Guests, Unshared(c, i)'
  PROVE  Unshared(c, i)
<1>1. ASSUME NEW d \in Clients \ {c}
      PROVE  i \notin Reach(d)
  <2>1. i \notin Reach(d)'
    BY DEF Unshared
  <2>2. CASE \E p \in Pools : DeletePool(p)
    BY <2>1, <2>2 DEF DeletePool, Reach, Target
  <2>3. CASE Step(d)
    BY <2>1, <2>3, StepMoves
  <2>4. ASSUME NEW e \in Clients \ {d}, Step(e)
        PROVE  i \notin Reach(d)
    <3>1. pc'[d] = pc[d] /\ op'[d] = op[d] /\ seen'[d] = seen[d]
      BY <2>4, StepShape DEF TypeOK
    <3>2. QED BY <2>1, <3>1 DEF Reach, Target
  <2>5. QED BY <2>2, <2>3, <2>4 DEF Next
<1>2. QED BY <1>1 DEF Unshared

\* A step of c brings each guest as far as the operation has come.
LEMMA OwnProgress ==
  ASSUME TypeOK, NEW c \in Clients, Placed(c), PoolsExist, Step(c),
         NEW i \in Guests, Progress(c, i)
  PROVE  Progress(c, i)'
<1> USE DEF Goto, server
<1>1. /\ op' = op /\ Target(c)' = Target(c)
      /\ op[c].kind \in AllKinds /\ (op[c].kind # "guest" => Target(c) # NoPool)
  BY StepShape, OpsDef, PoolMembershipAssumption DEF Target
<1>2. CASE Begin(c)
  <2>1. pc'[c] \in {"read", "exists"} /\ pool' = pool /\ began'[c] = pool
    BY <1>2 DEF Begin, TypeOK
  <2>2. QED BY <2>1 DEF Progress
<1>3. CASE pc'[c] \in {"error", "dropped"}
  BY <1>3 DEF Progress
<1>4. CASE Exists(c) /\ pc'[c] # "error"
  <2>1. /\ pc'[c] \in {"post", "put", "remove", "get"}
        /\ pc'[c] = "remove" => op[c].kind = "remove"
        /\ pc[c] = "exists" /\ pool' = pool /\ began' = began
    BY <1>4 DEF Exists, TypeOK, ReadFails
  <2>2. QED BY <1>1, <2>1 DEF Progress
<1>5. CASE Post(c) /\ pc'[c] # "error"
  <2>1. /\ pc'[c] = "add" /\ pc[c] = "post" /\ Target(c) \notin pools
        /\ pool' = pool /\ began' = began /\ seen' = seen
    BY <1>5 DEF Post, TypeOK
  <2>2. op[c].kind \in {"create", "set"} /\ seen[c][i] = NoPool
    BY <2>1 DEF Placed
  <2>3. pool[i] # Target(c) /\ seen[c][i] # Target(c) /\ pool[i] = began[c][i]
    BY <1>1, <2>1, <2>2 DEF PoolsExist, Progress
  <2>4. QED BY <1>1, <2>1, <2>2, <2>3 DEF Progress, SeenRight
<1>6. CASE PutComment(c) /\ pc'[c] # "error"
  <2>1. pc'[c] = "get" /\ pc[c] = "put" /\ pool' = pool /\ began' = began
    BY <1>6 DEF PutComment, ReadFails, TypeOK
  <2>2. QED BY <2>1 DEF Progress
<1>7. CASE Get(c) /\ pc'[c] # "error"
  <2>0. ~ReadFails(c)
    BY <1>7 DEF ReadFails, TypeOK
  <2>1. /\ pc[c] = "get" /\ pool' = pool /\ began' = began
        /\ seen'[c] = [j \in Guests |-> IF pool[j] = Target(c) THEN pool[j] ELSE NoPool]
    BY <1>7, <2>0 DEF Get, TypeOK
  <2>2. /\ pc'[c] \in {"remove", "add"}
        /\ pc'[c] = "add" => op[c].kind = "add" \/ seen'[c][i] = NoPool
    BY <1>7, <2>0, <2>1 DEF Get, TypeOK
  <2>3. op[c].kind \in {"add", "guests", "update", "set"} /\ pool[i] = began[c][i]
    BY <2>1 DEF Placed, Progress
  <2>4. seen'[c][i] = Target(c) <=> pool[i] = Target(c)
    BY <1>1, <2>1, <2>3
  <2>5. QED BY <1>1, <2>1, <2>2, <2>3, <2>4 DEF Progress, SeenRight
<1>8. CASE Remove(c) /\ pc'[c] # "error"
  <2>1. /\ pc[c] = "remove" /\ pool[i] = began[c][i]
        /\ op[c].kind # "remove" => SeenRight(c, i)
        /\ op[c].kind \in {"remove", "guests", "update", "set"}
    BY <1>8 DEF Remove, Progress, Placed
  <2>2. /\ pool'[i] = IF i \in ToRemove(c) THEN NoPool ELSE pool[i]
        /\ pc'[c] = IF op[c].kind = "remove" THEN "ok" ELSE "add"
        /\ began' = began /\ seen' = seen
    BY <1>8, Puts DEF PutDone, TypeOK
  <2>3. CASE op[c].kind = "remove"
    BY <1>1, <2>1, <2>2, <2>3 DEF Progress, ToRemove, Result
  <2>4. CASE op[c].kind # "remove"
    BY <1>1, <2>1, <2>2, <2>4 DEF Progress, SeenRight, ToRemove, Members
  <2>5. QED BY <2>3, <2>4
<1>9. CASE Add(c) /\ pc'[c] \notin {"error", "dropped"}
  <2>1. pc[c] = "add"
    BY <1>9 DEF Add
  <2>2. /\ pool'[i] = IF i \in ToAdd(c) THEN Target(c) ELSE pool[i]
        /\ pc'[c] = "ok" /\ began' = began
    BY <1>9, Puts DEF PutDone, ReadFails, TypeOK
  <2>3. pool'[i] = Result(op[c], began[c])[i]
    <3>1. CASE op[c].kind = "guest"
      BY <2>1, <2>2, <3>1 DEF Progress, Placed, Result, ToAdd, Members, Target
    <3>2. CASE op[c].kind = "add"
      BY <2>1, <2>2, <3>2 DEF Progress, SeenRight, Result, ToAdd, Members, Target
    <3>3. CASE op[c].kind \notin {"guest", "add"}
      BY <2>1, <2>2, <3>3 DEF Progress, SeenRight, Placed, Result, ToAdd, Members, Target
    <3>4. QED BY <3>1, <3>2, <3>3
  <2>4. QED BY <1>1, <2>2, <2>3 DEF Progress
<1>10. CASE Read(c) /\ ~ReadFails(c)
  <2>1. PICK g \in Guests : op[c].guests = {g}
    BY <1>10, OpsDef DEF Read, Placed
  <2>2. /\ pc[c] = "read" /\ op[c].kind = "guest" /\ pool' = pool /\ began' = began
        /\ pool[i] = began[c][i]
    BY <1>10 DEF Read, Placed, Progress
  <2>3. pc'[c] \in {"ok", "leave", "add"} /\ (pc'[c] = "ok" => pool[g] = Target(c))
    BY <1>10, <2>1 DEF Read, TypeOK
  <2>4. pc'[c] = "ok" => pool[i] = Result(op[c], began[c])[i]
    BY <2>1, <2>2, <2>3 DEF Result, Target
  <2>5. QED BY <1>1, <2>2, <2>3, <2>4 DEF Progress
<1>11. CASE Leave(c) /\ pc'[c] # "error"
  <2>1. pc[c] = "leave" /\ op[c].kind = "guest" /\ pool[i] = began[c][i]
    BY <1>11 DEF Leave, Progress, Placed
  <2>2. /\ pool'[i] = IF i \in op[c].guests THEN NoPool ELSE pool[i]
        /\ pc'[c] = IF Target(c) = NoPool THEN "ok" ELSE "add"
        /\ began' = began
    BY <1>11, Puts DEF PutDone, TypeOK
  <2>3. pc'[c] = "ok" => pool'[i] = Result(op[c], began[c])[i]
    BY <2>1, <2>2 DEF Result, Target
  <2>4. QED BY <1>1, <2>1, <2>2, <2>3 DEF Progress
<1>12. ReadFails(c) => pc'[c] = "error"
  BY DEF ReadFails, TypeOK
<1>13. QED
  BY <1>2, <1>3, <1>4, <1>5, <1>6, <1>7, <1>8, <1>9, <1>10, <1>11, <1>12 DEF Step

\* A quiet operation was quiet before, and the step was its own or a deletion.
LEMMA QuietBefore ==
  ASSUME TypeOK, \A d \in Clients : Placed(d), Next, NEW c \in Clients, Quiet(c)'
  PROVE  Quiet(c) /\ (Step(c) \/ \E p \in Pools : DeletePool(p))
<1>1. CASE \E p \in Pools : DeletePool(p)
  BY <1>1 DEF DeletePool, Quiet
<1>2. ASSUME NEW d \in Clients, Step(d)
      PROVE  Quiet(c) /\ Step(c)
  <2>1. pc'[d] # "idle" /\ \A e \in Clients \ {d} : pc'[e] = pc[e]
    BY <1>2, StepShape DEF TypeOK
  <2>2. d = c
    BY <2>1 DEF Quiet
  <2>3. op' = op /\ major' = major /\ (faults' = 0 => faults = 0)
    BY <1>2, StepShape
  <2>4. QED BY <1>2, <2>1, <2>2, <2>3 DEF Quiet
<1>3. QED BY <1>1, <1>2 DEF Next

\* A quiet operation knows what the server will say: it is refused only for a
\* pool that is gone.
LEMMA WelcomeStep ==
  ASSUME TypeOK, \A d \in Clients : Placed(d), PoolsExist, Next,
         NEW c \in Clients, Quiet(c) => Welcome(c), Quiet(c)'
  PROVE  Welcome(c)'
<1> USE DEF Goto, server
<1>1. /\ Quiet(c) /\ Welcome(c) /\ Placed(c)
      /\ major >= 8 /\ faults' = 0 /\ op[c].kind \notin {"remove", "create"}
  BY QuietBefore DEF Quiet
<1>2. CASE \E p \in Pools : DeletePool(p)
  BY <1>1, <1>2 DEF DeletePool, Welcome, Target
<1>3. ASSUME Step(c)
      PROVE  Welcome(c)'
  <2> USE <1>3
  <2>1. /\ op' = op /\ Target(c)' = Target(c) /\ ~ReadFails(c)
        /\ op[c].kind \in AllKinds /\ (op[c].kind # "guest" => Target(c) # NoPool)
    BY <1>1, StepShape, OpsDef, PoolMembershipAssumption DEF Target, ReadFails, TypeOK
  <2>2. CASE pc'[c] \in {"exists", "put", "get", "read", "ok"}
    BY <2>2 DEF Welcome
  <2>3. CASE Exists(c)
    <3>1. /\ pc'[c] \in {"post", "put", "remove", "get", "error"}
          /\ pc'[c] \in {"post", "error"} => Target(c) \notin pools
          /\ pc'[c] # "remove"
          /\ pc[c] = "exists" /\ pools' = pools
      BY <1>1, <2>1, <2>3 DEF Exists, TypeOK
    <3>2. Target(c) # NoPool
      BY <1>1, <2>1, <3>1 DEF Placed
    <3>3. QED BY <2>1, <3>1, <3>2 DEF Welcome
  <2>4. CASE Post(c)
    <3>1. pc[c] = "post" /\ Target(c) \notin pools /\ faults' # faults + 1
      BY <1>1, <2>4, StepShape DEF Post, Welcome, TypeOK
    <3>2. pc'[c] = "add" /\ pool' = pool
      BY <2>4, <3>1 DEF Post, TypeOK
    <3>3. \A i \in Guests : pool[i] # Target(c)
      BY <1>1, <2>1, <3>1 DEF PoolsExist, Placed
    <3>4. op[c].guests \subseteq Guests
      BY OpsDef
    <3>5. QED BY <2>1, <3>2, <3>3, <3>4 DEF Welcome
  <2>5. CASE PutComment(c)
    <3>1. pc[c] = "put" /\ (pc'[c] = "get" \/ (pc'[c] = "error" /\ Target(c) \notin pools))
          /\ pools' = pools
      BY <2>1, <2>5 DEF PutComment, TypeOK
    <3>2. Target(c) # NoPool
      BY <1>1, <2>1, <3>1 DEF Placed
    <3>3. QED BY <2>1, <2>2, <3>1, <3>2 DEF Welcome
  <2>6. CASE Get(c) /\ Target(c) \notin pools
    <3>1. pc[c] = "get" /\ pc'[c] = "error" /\ pools' = pools
      BY <2>1, <2>6 DEF Get, TypeOK
    <3>2. Target(c) # NoPool
      BY <1>1, <2>1, <3>1 DEF Placed
    <3>3. QED BY <2>1, <2>6, <3>1, <3>2 DEF Welcome
  <2>7. CASE Get(c) /\ Target(c) \in pools
    <3>1. /\ pc[c] = "get" /\ pool' = pool /\ pc'[c] \in {"remove", "add"}
          /\ seen'[c] = [j \in Guests |-> IF pool[j] = Target(c) THEN pool[j] ELSE NoPool]
      BY <2>1, <2>7 DEF Get, TypeOK
    <3>2. Target(c) # NoPool
      BY <1>1, <2>1, <3>1 DEF Placed
    <3>3. \A i \in Guests : seen'[c][i] = Target(c) <=> pool[i] = Target(c)
      BY <3>1, <3>2
    <3>4. op[c].guests \subseteq Guests
      BY OpsDef
    <3>5. QED BY <2>1, <3>1, <3>3, <3>4 DEF Welcome
  <2>8. CASE Remove(c)
    <3>1. /\ pc[c] = "remove" /\ op[c].kind # "remove" /\ Target(c) # NoPool
          /\ \A i \in Guests : seen[c][i] = Target(c) <=> pool[i] = Target(c)
      BY <1>1, <2>1, <2>8 DEF Remove, Welcome, Placed
    <3>2. \A i \in ToRemove(c) : pool[i] = Target(c)
      BY <3>1 DEF ToRemove, Members
    <3>3. /\ pools' = pools /\ seen' = seen
          /\ \/ /\ pc'[c] = "add"
                /\ pool' = [i \in Guests |-> IF i \in ToRemove(c) THEN NoPool ELSE pool[i]]
             \/ pc'[c] = "error" /\ Target(c) \notin pools
      BY <1>1, <2>8, <3>1, <3>2, Puts DEF PutDone, TypeOK
    <3>4. op[c].guests \subseteq Guests
      BY OpsDef
    <3>5. QED BY <2>1, <3>1, <3>3, <3>4 DEF Welcome
  <2>9. CASE Add(c)
    <3>1. /\ pc[c] = "add" /\ Target(c) # NoPool
          /\ \A i \in op[c].guests : seen[c][i] # Target(c) => pool[i] # Target(c)
      BY <1>1, <2>9 DEF Add, Welcome, Placed
    <3>2. \A i \in ToAdd(c) : pool[i] # Target(c)
      BY <3>1, OpsDef DEF ToAdd, Members
    <3>3. Addable(c, ToAdd(c)) <=> Target(c) \in pools
      BY <1>1, <3>2 DEF Addable
    <3>4. \/ pc'[c] = "ok"
          \/ pc'[c] \in {"dropped", "error"} /\ pools' = pools /\ Target(c) \notin pools
      BY <1>1, <2>1, <2>9, <3>3, Puts DEF PutDone, TypeOK
    <3>5. QED BY <2>1, <3>1, <3>4 DEF Welcome
  <2>10. CASE Read(c)
    <3>1. PICK g \in Guests : op[c].guests = {g}
      BY <1>1, <2>10, OpsDef DEF Read, Placed
    <3>2. /\ pc'[c] \in {"ok", "add", "leave"} /\ pool' = pool /\ seen'[c] = pool
          /\ pc'[c] = "leave" => pool[g] # NoPool
      BY <2>1, <2>10, <3>1 DEF Read, TypeOK
    <3>3. QED BY <2>1, <3>1, <3>2 DEF Welcome
  <2>11. CASE Leave(c)
    <3>1. /\ pc[c] = "leave" /\ Target(c) = NoPool
          /\ \A i \in op[c].guests : seen[c][i] = pool[i] /\ pool[i] # NoPool
      <4>1. ~(major < 8)
        BY <1>1, PoolMembershipAssumption DEF TypeOK
      <4>2. QED BY <1>1, <2>11, <4>1 DEF Leave, Welcome, Placed
    <3>2. \A i \in op[c].guests : seen[c][i] \in pools /\ pool[i] = seen[c][i]
      BY <3>1, OpsDef DEF PoolsExist
    <3>3. pc'[c] = "ok"
      BY <1>1, <2>11, <3>1, <3>2, Puts DEF PutDone, TypeOK
    <3>4. QED BY <2>2, <3>3
  <2>12. Begin(c) => pc'[c] \in {"read", "exists"}
    BY DEF Begin, TypeOK
  <2>13. QED
    BY <2>2, <2>3, <2>4, <2>5, <2>6, <2>7, <2>8, <2>9, <2>10, <2>11, <2>12 DEF Step
<1>4. QED BY <1>2, <1>3, QuietBefore

\* No operation has begun, and the server's guests are in pools that exist.
LEMMA Initial == Init => IInv
<1> SUFFICES ASSUME Init PROVE IInv
  OBVIOUS
<1>1. TypeOK
  BY PoolMembershipAssumption DEF Init, TypeOK, Where
<1>2. PoolsExist
  BY DEF Init, PoolsExist
<1>3. ASSUME NEW c \in Clients
      PROVE  Placed(c) /\ Welcome(c) /\ \A i \in Guests : Progress(c, i)
  BY DEF Init, Placed, Welcome, Progress
<1>4. QED BY <1>1, <1>2, <1>3 DEF IInv

\* Every step keeps the invariant.
LEMMA Inductive == IInv /\ [Next]_vars => IInv'
<1> SUFFICES ASSUME IInv, [Next]_vars PROVE IInv'
  OBVIOUS
<1>1. CASE UNCHANGED vars
  BY <1>1 DEF IInv, vars, server, TypeOK, PoolsExist, Placed, Unshared, Reach, Progress,
              SeenRight, Quiet, Welcome, Target
<1>2. CASE Next
  <2> USE <1>2
  <2>1. TypeOK /\ PoolsExist /\ \A c \in Clients : Placed(c)
    BY DEF IInv
  <2>2. TypeOK' /\ PoolsExist'
    BY <2>1, TypeStep, PoolsExistStep
  <2>3. ASSUME NEW c \in Clients
        PROVE  Placed(c)'
    BY <2>1, PlacedStep
  <2>4. ASSUME NEW c \in Clients, Quiet(c)'
        PROVE  Welcome(c)'
    BY <2>1, <2>4, WelcomeStep DEF IInv
  <2>5. ASSUME NEW c \in Clients, NEW i \in Guests, Unshared(c, i)'
        PROVE  Progress(c, i)'
    <3>1. Progress(c, i)
      BY <2>1, <2>5, UnsharedBefore DEF IInv
    <3>2. CASE Step(c)
      BY <2>1, <3>1, <3>2, OwnProgress
    <3>3. CASE ~Step(c)
      <4>1. /\ pool'[i] = pool[i] /\ op' = op
            /\ pc'[c] = pc[c] /\ seen'[c] = seen[c] /\ began'[c] = began[c]
        BY <2>1, <2>5, <3>3, OthersStep
      <4>2. QED BY <3>1, <4>1 DEF Progress, SeenRight, Target
    <3>4. QED BY <3>2, <3>3
  <2>6. QED BY <2>2, <2>3, <2>4, <2>5 DEF IInv
<1>3. QED BY <1>1, <1>2

\* So it holds in every state of every behaviour.
LEMMA Invariance == Spec => []IInv
BY Initial, Inductive, PTL DEF Spec

\* The server's pools and what the operations hold keep their types.
THEOREM TypeCorrect == Spec => []TypeOK
<1>1. IInv => TypeOK
  BY DEF IInv
<1>2. QED BY <1>1, Invariance, PTL

\* Whatever others do to other guests, an operation that returns without an
\* error has put every guest that it alone reaches where it was to be, and has
\* left the others where they were.
THEOREM ExactWhenUnshared == Spec => []UnsharedIsExact
<1>1. IInv => UnsharedIsExact
  BY DEF IInv, UnsharedIsExact, Unshared, Progress
<1>2. QED BY <1>1, Invariance, PTL

\* From version 8 on an operation that is alone and loses no request is refused
\* for a pool that does not exist, and for nothing else: where the guests are
\* when it begins never stops it.
THEOREM AcceptedWhenAlone == Spec => []AloneIsAccepted
<1>1. IInv => AloneIsAccepted
  BY DEF IInv, AloneIsAccepted, Quiet, Welcome
<1>2. QED BY <1>1, Invariance, PTL

\* No step of any operation leaves a guest without a pool that it was to add to
\* one, but the one that leaves on purpose on a server older than version 8.
THEOREM AddedOrLeftAlone == Spec => NeverDropped
<1> DEFINE Kept ==
       \A i \in Guests, c \in Clients :
          (/\ pc[c] # pc'[c]
           /\ pool[i] # NoPool /\ pool'[i] = NoPool
           /\ i \in op[c].guests /\ Target(c) # NoPool)
          => op[c].kind = "remove" \/ (op[c].kind = "guest" /\ major < 8)
<1>1. ASSUME IInv, [Next]_vars
      PROVE  [Kept]_vars
  <2>1. CASE UNCHANGED vars
    BY <2>1
  <2>2. CASE Next
    <3> SUFFICES ASSUME NEW i \in Guests, NEW c \in Clients, pc[c] # pc'[c],
                        pool[i] # NoPool, pool'[i] = NoPool,
                        i \in op[c].guests, Target(c) # NoPool
                 PROVE  op[c].kind = "remove" \/ (op[c].kind = "guest" /\ major < 8)
      OBVIOUS
    <3>1. TypeOK /\ \A d \in Clients : Placed(d)
      BY <1>1 DEF IInv
    <3>2. Step(c)
      <4>1. ASSUME NEW d \in Clients \ {c}, Step(d)
            PROVE  FALSE
        BY <3>1, <4>1, StepShape DEF TypeOK
      <4>2. QED BY <2>2, <4>1 DEF Next, DeletePool
    <3>3. CASE pc[c] = "remove"
      <4>1. Remove(c)
        BY <3>2, <3>3 DEF Step, Begin, Exists, Post, PutComment, Get, Add, Read, Leave
      <4>2. i \in ToRemove(c)
        BY <3>1, <4>1, Puts DEF PutDone
      <4>3. QED BY <4>2 DEF ToRemove
    <3>4. CASE pc[c] = "leave"
      BY <3>1, <3>4 DEF Placed
    <3>5. CASE pc[c] = "add"
      <4>1. Add(c)
        BY <3>2, <3>5 DEF Step, Begin, Exists, Post, PutComment, Get, Leave, Read, Remove
      <4>2. pool' = pool \/ pool' = [j \in Guests |-> IF j \in ToAdd(c) THEN Target(c) ELSE pool[j]]
        BY <3>1, <4>1, Puts DEF PutDone, ReadFails, server
      <4>3. QED BY <4>2
    <3>6. CASE pc[c] \notin {"remove", "leave", "add"}
      BY <3>1, <3>2, <3>6, StepMoves
    <3>7. QED BY <3>3, <3>4, <3>5, <3>6
  <2>3. QED BY <1>1, <2>1, <2>2
<1>2. QED BY <1>1, Invariance, PTL DEF Spec, NeverDropped
==============================================================================
