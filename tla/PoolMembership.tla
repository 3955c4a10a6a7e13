--------------------------- MODULE PoolMembership ---------------------------
(***************************************************************************)
(* The guests of a resource pool (proxmox/config_pool.go, and              *)
(* guestSetPool_Unsafe in config_guest.go).  A guest is in at most one     *)
(* pool.  An operation on a pool reads the pool's guests and then sends at *)
(* most one request that removes guests and one that adds them; each       *)
(* request is refused as a whole when one of its guests is not where the   *)
(* request takes it to be.  From version 8 on the server can move a guest  *)
(* that is still in another pool; before, it has to be taken out first.    *)
(***************************************************************************)
EXTENDS Integers

CONSTANTS Guests, Pools, Clients,
          NoPool,     \* the pool of a guest that is in none
          Kinds,      \* the operations the clients make, see AllKinds
          Versions,   \* the major versions the server may have
          MaxFaults,  \* requests that may fail without being rejected
          MayDelete   \* pools are deleted

\* AddGuests, RemoveGuests, SetGuests of a PoolName; Create, Update and Set of
\* a ConfigPool; guestSetPool_Unsafe, after the guest's configuration is read.
AllKinds == {"add", "remove", "guests", "create", "update", "set", "guest"}

ASSUME PoolMembershipAssumption ==
    /\ NoPool \notin Pools
    /\ Kinds \subseteq AllKinds
    /\ Versions \subseteq Nat
    /\ MaxFaults \in Nat
    /\ MayDelete \in BOOLEAN

VARIABLES
    major,    \* the server's major version
    pools,    \* the pools that exist
    pool,     \* pool[i]: the pool guest i is in
    pc,       \* pc[c]: the next request of client c, or how its call returned
    op,       \* op[c]: the operation and its arguments, chosen at the start
    seen,     \* seen[c]: pool, as c last read it (of its own pool only)
    began,    \* began[c]: pool when the call began
    faults    \* requests that failed without being rejected

server == <<major, pools, pool>>
vars == <<server, pc, op, seen, began, faults>>

Where == [Guests -> Pools \cup {NoPool}]

\* Only guestSetPool_Unsafe takes no pool for an answer: the guest leaves its
\* pool.  RemoveGuests refuses to remove nothing.
Ops == {o \in [kind : Kinds, pool : Pools \cup {NoPool}, guests : SUBSET Guests] :
            /\ o.pool = NoPool => o.kind = "guest"
            /\ o.kind = "guest" => \E i \in Guests : o.guests = {i}
            /\ o.kind = "remove" => o.guests # {}}

TypeOK ==
    /\ major \in Versions
    /\ pools \subseteq Pools
    /\ pool \in Where
    /\ pc \in [Clients -> {"idle", "exists", "post", "put", "get", "read",
                           "remove", "leave", "add", "ok", "dropped", "error"}]
    /\ op \in [Clients -> Ops]
    /\ seen \in [Clients -> Where] /\ began \in [Clients -> Where]
    /\ faults \in 0..MaxFaults

Init ==
    /\ major \in Versions
    /\ pools \in SUBSET Pools
    /\ pool \in [Guests -> pools \cup {NoPool}]
    /\ pc = [c \in Clients |-> "idle"]
    /\ op \in [Clients -> Ops]
    /\ seen = [c \in Clients |-> [i \in Guests |-> NoPool]]
    /\ began = [c \in Clients |-> pool]
    /\ faults = 0

-----------------------------------------------------------------------------
Goto(c, step) == pc' = [pc EXCEPT ![c] = step]

CanFail == faults < MaxFaults

Target(c) == op[c].pool

\* The guests config.Guests lists.
Members(c) == {i \in Guests : seen[c][i] = Target(c)}

\* A request that reads fails.
ReadFails(c) ==
    /\ CanFail
    /\ faults' = faults + 1
    /\ Goto(c, "error")
    /\ UNCHANGED <<server, op, seen, began>>

\* PUT /pools with the guests S: they end up in p (NoPool: "delete").  It is
\* refused, fails with or without having been carried out, or succeeds.
Put(c, accepted, S, p, next, onError) ==
    LET moved == [i \in Guests |-> IF i \in S THEN p ELSE pool[i]] IN
    /\ \/ accepted /\ pool' = moved /\ Goto(c, next) /\ UNCHANGED faults
       \/ ~accepted /\ Goto(c, onError) /\ UNCHANGED <<pool, faults>>
       \/ /\ CanFail
          /\ faults' = faults + 1
          /\ Goto(c, onError)
          /\ pool' \in {pool} \cup (IF accepted THEN {moved} ELSE {})
    /\ UNCHANGED <<major, pools, op, seen, began>>

\* The call begins; the version it fetches does not change.
Begin(c) ==
    /\ pc[c] = "idle"
    /\ Goto(c, IF op[c].kind = "guest" THEN "read" ELSE "exists")
    /\ began' = [began EXCEPT ![c] = pool]
    /\ seen' = [seen EXCEPT ![c] = [i \in Guests |-> NoPool]]
    /\ UNCHANGED <<server, op, faults>>

\* Exists_Unsafe: Create wants a pool that does not exist, Set takes both, the
\* rest want one that does.
Exists(c) ==
    /\ pc[c] = "exists"
    /\ LET exists == Target(c) \in pools
           kind == op[c].kind IN
       \/ /\ Goto(c, IF kind \in {"create", "set"} /\ ~exists THEN "post"
                     ELSE IF kind = "create" \/ ~exists THEN "error"
                     ELSE IF kind \in {"update", "set"} THEN "put"
                     ELSE IF kind = "remove" THEN "remove"
                     ELSE "get")
          /\ UNCHANGED <<server, op, seen, began, faults>>
       \/ ReadFails(c)

\* POST /pools of Create_Unsafe; the guests are added without reading any.
Post(c) ==
    /\ pc[c] = "post"
    /\ LET accepted == Target(c) \notin pools
           created == pools \cup {Target(c)} IN
       \/ accepted /\ pools' = created /\ Goto(c, "add") /\ UNCHANGED faults
       \/ ~accepted /\ Goto(c, "error") /\ UNCHANGED <<pools, faults>>
       \/ /\ CanFail
          /\ faults' = faults + 1
          /\ Goto(c, "error")
          /\ pools' \in {pools, created}
    /\ UNCHANGED <<major, pool, op, seen, began>>

\* Update_Unsafe reads the pool and writes its comment before it goes on like
\* SetGuests; with no guests given it would end there.
PutComment(c) ==
    /\ pc[c] = "put"
    /\ \/ /\ Goto(c, IF Target(c) \in pools THEN "get" ELSE "error")
          /\ UNCHANGED <<server, op, seen, began, faults>>
       \/ ReadFails(c)

\* Get_Unsafe: the guests of the pool, or an error when it has been deleted since.
\* SetGuests removes before it adds, and sends the removal even when there is nobody to
\* remove.
Get(c) ==
    /\ pc[c] = "get"
    /\ \/ /\ Target(c) \notin pools
          /\ Goto(c, "error")
          /\ UNCHANGED <<server, op, seen, began, faults>>
       \/ /\ Target(c) \in pools
          /\ LET now == [i \in Guests |-> IF pool[i] = Target(c) THEN pool[i] ELSE NoPool] IN
             /\ seen' = [seen EXCEPT ![c] = now]
             /\ Goto(c, IF op[c].kind # "add" /\ (\E i \in Guests : now[i] # NoPool)
                        THEN "remove" ELSE "add")
          /\ UNCHANGED <<server, op, began, faults>>
       \/ ReadFails(c)

\* Mutant: SetGuests removes the guests it is to keep.
ToRemove_mut(c) == IF op[c].kind = "remove" THEN op[c].guests ELSE Members(c)

\* RemoveGuests removes what it is given, SetGuests what it is not given.
ToRemove(c) ==
    IF op[c].kind = "remove" THEN op[c].guests ELSE Members(c) \ op[c].guests

\* removeGuests_Unsafe, refused unless every guest is in the pool.
Remove(c) ==
    /\ pc[c] = "remove"
    /\ Put(c, Target(c) \in pools /\ \A i \in ToRemove(c) : pool[i] = Target(c),
           ToRemove(c), NoPool, IF op[c].kind = "remove" THEN "ok" ELSE "add", "error")

\* Mutant: guests that are in the pool already are added again.
ToAdd_mut(c) == op[c].guests

\* subtractArray(guestIDs, currentGuests).
ToAdd(c) == op[c].guests \ Members(c)

\* The server takes new guests into the pool: any that are elsewhere from
\* version 8 on, before only those in no pool.
Addable(c, S) ==
    /\ Target(c) \in pools
    /\ \A i \in S : pool[i] = NoPool \/ (major >= 8 /\ pool[i] # Target(c))

\* addGuests_Unsafe.  Before version 8 it takes the guests out of the pools
\* that ListGuests reports for them; ListGuests never fills in the pool of a
\* guest, so that is none.  From version 8 on guestSetPool_Unsafe drops the error
\* of the request by which a guest joins its first pool.
Add(c) ==
    /\ pc[c] = "add"
    /\ \/ /\ ToAdd(c) = {}
          /\ Goto(c, "ok")
          /\ UNCHANGED <<server, op, seen, began, faults>>
       \/ /\ ToAdd(c) # {}
          /\ \/ Put(c, Addable(c, ToAdd(c)), ToAdd(c), Target(c), "ok",
                    IF op[c].kind = "guest" /\ major >= 8
                       /\ (\A i \in op[c].guests : seen[c][i] = NoPool)
                    THEN "dropped" ELSE "error")
             \/ op[c].kind # "guest" /\ major < 8 /\ ReadFails(c)

\* The guest's configuration with its pool, as ConfigQemu.Update reads it, and
\* what guestSetPool_Unsafe does for every pair of old and new pool.
Read(c) ==
    /\ pc[c] = "read"
    /\ \/ /\ seen' = [seen EXCEPT ![c] = pool]
          /\ \A i \in op[c].guests :
                Goto(c, IF pool[i] = Target(c) THEN "ok"
                        ELSE IF pool[i] = NoPool THEN "add"
                        ELSE IF Target(c) = NoPool \/ major < 8 THEN "leave"
                        ELSE "add")
          /\ UNCHANGED <<server, op, began, faults>>
       \/ ReadFails(c)

\* Mutant: a guest on its way to another pool stops when it has left its own.
Leave_mut(c) ==
    /\ pc[c] = "leave"
    /\ Put(c, \A i \in op[c].guests : seen[c][i] \in pools /\ pool[i] = seen[c][i],
           op[c].guests, NoPool, "ok", "error")

\* The guest leaves the pool it was seen in; before version 8 also on the way
\* to another one.
Leave(c) ==
    /\ pc[c] = "leave"
    /\ Put(c, \A i \in op[c].guests : seen[c][i] \in pools /\ pool[i] = seen[c][i],
           op[c].guests, NoPool, IF Target(c) = NoPool THEN "ok" ELSE "add", "error")

Step(c) ==
    \/ Begin(c) \/ Exists(c) \/ Post(c) \/ PutComment(c) \/ Get(c)
    \/ Remove(c) \/ Add(c) \/ Read(c) \/ Leave(c)

\* Delete: one request, refused while the pool has guests.
DeletePool(p) ==
    /\ MayDelete
    /\ p \in pools
    /\ \A i \in Guests : pool[i] # p
    /\ pools' = pools \ {p}
    /\ UNCHANGED <<major, pool, pc, op, seen, began, faults>>

Next == (\E c \in Clients : Step(c)) \/ (\E p \in Pools : DeletePool(p))

Spec == Init /\ [][Next]_vars

-----------------------------------------------------------------------------
(* Properties.                                                             *)

\* What the operation, on its own, makes of the pools the guests were in.
Result(o, before) ==
    [i \in Guests |->
        IF o.kind = "remove"
        THEN IF i \in o.guests THEN NoPool ELSE before[i]
        ELSE IF i \in o.guests THEN o.pool
        ELSE IF o.kind \in {"add", "guest"} \/ before[i] # o.pool THEN before[i]
        ELSE NoPool]

\* The guests an operation has written or may write: those it names, and those
\* it saw in its pool.
Reach(d) ==
    IF pc[d] = "idle" THEN {}
    ELSE op[d].guests \cup {i \in Guests : seen[d][i] = Target(d) /\ Target(d) # NoPool}

\* An operation that returns without an error has put every guest that no other
\* operation reaches where it was to be, and left it where it was if it was not
\* to move.  The one exception is the error that guestSetPool_Unsafe drops.
UnsharedIsExact ==
    \A c \in Clients :
        pc[c] = "ok" =>
           \A i \in Guests : (\A d \in Clients \ {c} : i \notin Reach(d)) =>
              pool[i] = Result(op[c], began[c])[i]

\* A guest is never left without a pool by an operation that was to add it,
\* unless the server is older than version 8 and the guest had to leave first.
NeverDropped ==
    [][\A i \in Guests, c \in Clients :
        (/\ pc[c] # pc'[c]
         /\ pool[i] # NoPool /\ pool'[i] = NoPool
         /\ i \in op[c].guests /\ Target(c) # NoPool)
        => op[c].kind = "remove" \/ (op[c].kind = "guest" /\ major < 8)]_vars

\* From version 8 on an operation that is alone and loses no request is never
\* refused while its pool exists, wherever the guests are when it begins: so one
\* that failed can be tried again until it succeeds, whatever part of it took
\* effect.  (RemoveGuests and Create are refused on purpose when repeated.)
AloneIsAccepted ==
    \A c \in Clients :
        (/\ major >= 8 /\ faults = 0
         /\ \A d \in Clients \ {c} : pc[d] = "idle"
         /\ op[c].kind \notin {"remove", "create"}
         /\ Target(c) \in pools \cup {NoPool})
        => pc[c] \notin {"error", "dropped"}

\* What the code for servers older than version 8 is there for ("from 8.0.0 on
\* proxmox can move the guests to the pool while they are still in another
\* pool"): AddGuests to a pool that exists succeeds when no request fails,
\* wherever the guests are.
AddNeverRefused ==
    \A c \in Clients :
        ~(op[c].kind = "add" /\ Target(c) \in pools /\ faults = 0 /\ pc[c] = "error")
=============================================================================
