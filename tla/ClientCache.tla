---------------------------- MODULE ClientCache ----------------------------
(***************************************************************************)
(* What a Client keeps of its server (proxmox/client.go, permission.go):   *)
(* the version, which decides the requests the other components make, and  *)
(* the permissions of its user, which are checked before some of them.     *)
(* Goroutines share the Client; a fetch and the store that follows it are  *)
(* two steps, and the server changes under both caches.                    *)
(*                                                                         *)
(* One category of permissions (guests, storages, ...) is modelled with    *)
(* the items in it; the user is not root@pam, who is never checked.        *)
(***************************************************************************)
EXTENDS Integers, FiniteSets, Functions

CONSTANTS Threads,
          Items,        \* the items of the category
          Category,     \* the path of the category; Category \notin Items
          Privs,        \* the privileges a check may ask for
          SysPowerMgmt, \* the privilege of that name
          MaxVersion,   \* the server is upgraded from 1 to MaxVersion
          MaxChanges,   \* changes of the user's permissions on the server
          MaxFaults     \* fetches that fail

ASSUME ClientCacheAssumption ==
    /\ Category \notin Items
    /\ MaxVersion \in Nat \ {0}
    /\ {MaxChanges, MaxFaults} \subseteq Nat

Zero == 0    \* Version{}
Nil == -1    \* no version is stored
Known == 1..MaxVersion

Paths == {Category} \cup Items

\* privilegeFalse, privilegeTrue, privilegePropagate.
Level == 0..2
Levels == [Privs -> Level]

\* A map from some paths to their privileges.
Maps == UNION {[S -> Levels] : S \in SUBSET Paths}
Empty == [p \in {} |-> 0]

\* GetVersion and Version; CheckPermissions of one Permission, on the category
\* alone or on an item in it; RefreshPermissions; insertCachedPermission of an
\* item that the Client has just created.
Calls ==
    [kind : {"GetVersion", "Version", "Refresh"}, path : {Category}, needed : {{}}]
    \cup [kind : {"Insert"}, path : Items, needed : {{}}]
    \cup [kind : {"Check"}, path : Paths, needed : SUBSET Privs \ {{}}]

VARIABLES
    running,      \* the version the server runs
    granted,      \* the permissions of the user, by path, as the server has them
    been,         \* the values granted has had
    version,      \* c.version
    permissions,  \* c.permissions
    at,           \* at[t]: the next step of t, or how its call returned
    call,         \* call[t]: the call t is in
    fetched,      \* fetched[t]: the version in t's hands
    extracted,    \* extracted[t]: the permissions in t's hands
    faults

server == <<running, granted, been>>
cache == <<version, permissions>>
cacheVars == <<server, cache, at, call, fetched, extracted, faults>>

CacheTypeOK ==
    /\ running \in Known /\ granted \in Maps /\ been \subseteq Maps
    /\ version \in Known \cup {Zero, Nil} /\ permissions \in Maps
    /\ at \in [Threads -> {"idle", "nil?", "version", "setVersion", "load",
                           "permissions", "setPermissions", "check",
                           "ok", "error", "refused"}]
    /\ call \in [Threads -> Calls]
    /\ fetched \in [Threads -> Known \cup {Zero, Nil}]
    /\ extracted \in [Threads -> Maps]
    /\ faults \in 0..MaxFaults

\* NewClient makes an empty map of permissions, not nil: so the fetch that
\* cachedPermissions makes for nil never happens.
CacheInit ==
    /\ running = 1
    /\ granted \in Maps /\ been = {granted}
    /\ version = Nil /\ permissions = Empty
    /\ at = [t \in Threads |-> "idle"]
    /\ call = [t \in Threads |-> [kind |-> "Version", path |-> Category, needed |-> {}]]
    /\ fetched = [t \in Threads |-> Zero]
    /\ extracted = [t \in Threads |-> Empty]
    /\ faults = 0

-----------------------------------------------------------------------------
(* The server.                                                             *)

Upgrade ==
    /\ running < MaxVersion
    /\ running' = running + 1
    /\ UNCHANGED <<granted, been, cache, at, call, fetched, extracted, faults>>

\* The user's permissions on a path change, or end.
Grant ==
    /\ Cardinality(been) <= MaxChanges
    /\ \E p \in Paths :
          \/ \E l \in Levels : granted' = [q \in DOMAIN granted \cup {p} |->
                                              IF q = p THEN l ELSE granted[q]]
          \/ granted' = Restrict(granted, DOMAIN granted \ {p})
    /\ been' = been \cup {granted'}
    /\ UNCHANGED <<running, cache, at, call, fetched, extracted, faults>>

-----------------------------------------------------------------------------
(* The client.                                                             *)

Goto(t, step) == at' = [at EXCEPT ![t] = step]

Fault ==
    /\ faults < MaxFaults
    /\ faults' = faults + 1

Call(t, c) ==
    /\ at[t] \in {"idle", "ok", "error", "refused"}
    /\ call' = [call EXCEPT ![t] = c]
    /\ Goto(t, CASE c.kind = "GetVersion" -> "version"
                 [] c.kind = "Version" -> "nil?"
                 [] c.kind = "Check" -> "check"
                 [] OTHER -> "permissions")
    /\ fetched' = [fetched EXCEPT ![t] = Zero]
    /\ extracted' = [extracted EXCEPT ![t] = Empty]
    /\ UNCHANGED <<server, cache, faults>>

\* "if c.version == nil", outside the mutex.
CheckNil(t) ==
    /\ at[t] = "nil?"
    /\ Goto(t, IF version = Nil THEN "version" ELSE "load")
    /\ UNCHANGED <<server, cache, call, fetched, extracted, faults>>

\* GET /version.  An error comes with 0.0.0, and both are kept.
FetchVersion(t) ==
    /\ at[t] = "version"
    /\ Goto(t, "setVersion")
    /\ \/ fetched' = [fetched EXCEPT ![t] = running] /\ UNCHANGED faults
       \/ fetched' = [fetched EXCEPT ![t] = Zero] /\ Fault
    /\ UNCHANGED <<server, cache, call, extracted>>

\* Mutant: a fetch that failed clears the cache.
StoreVersion_mut(t) ==
    /\ at[t] = "setVersion"
    /\ version' = IF fetched[t] = Zero THEN Nil ELSE fetched[t]
    /\ Goto(t, IF fetched[t] = Zero THEN "error" ELSE "ok")
    /\ UNCHANGED <<server, permissions, call, fetched, extracted, faults>>

\* The section of GetVersion under the mutex, run when the fetch failed too.
StoreVersion(t) ==
    /\ at[t] = "setVersion"
    /\ version' = fetched[t]
    /\ Goto(t, IF fetched[t] = Zero THEN "error" ELSE "ok")
    /\ UNCHANGED <<server, permissions, call, fetched, extracted, faults>>

\* The section of Version under the mutex.
LoadVersion(t) ==
    /\ at[t] = "load"
    /\ fetched' = [fetched EXCEPT ![t] = version]
    /\ Goto(t, "ok")
    /\ UNCHANGED <<server, cache, call, extracted, faults>>

\* mapToSDK: every privilege but SysPowerMgmt, whose value it drops.
MapToSDK(map) ==
    [p \in DOMAIN map |-> [n \in Privs |-> IF n = SysPowerMgmt THEN 0 ELSE map[p][n]]]

\* GET /access/permissions.  An error ends the call with the cache as it was.
FetchPermissions(t) ==
    /\ at[t] = "permissions"
    /\ \/ /\ Goto(t, "setPermissions")
          /\ extracted' = [extracted EXCEPT ![t] = MapToSDK(granted)]
          /\ UNCHANGED faults
       \/ Goto(t, "error") /\ Fault /\ UNCHANGED extracted
    /\ UNCHANGED <<server, cache, call, fetched>>

\* A refresh replaces the map, an insertion the entry of the new item; each is
\* one section under the mutex.
StorePermissions(t) ==
    /\ at[t] = "setPermissions"
    /\ Goto(t, "ok")
    /\ LET item == call[t].path IN
       permissions' =
          IF call[t].kind = "Refresh" THEN extracted[t]
          ELSE IF item \in DOMAIN extracted[t]
          THEN [p \in DOMAIN permissions \cup {item} |->
                   IF p = item THEN extracted[t][p] ELSE permissions[p]]
          ELSE permissions
    /\ UNCHANGED <<server, version, call, fetched, extracted, faults>>

\* privileges.includes
Includes(levels, needed, level) == \A n \in needed : levels[n] >= level

\* Mutant: privileges on the category count whether they propagate or not.
Passes_mut(map, item, needed) ==
    /\ item \in DOMAIN map => Includes(map[item], needed, 1)
    /\ Category \in DOMAIN map => Includes(map[Category], needed, 1)

\* Mutant: privileges on the item must propagate too.
Passes_item(map, item, needed) ==
    \A p \in {item, Category} \cap DOMAIN map : Includes(map[p], needed, 2)

\* Permission.check: the item, if it is in the map, has the privileges, and the
\* category, if it is in the map, propagates them.
Passes(map, item, needed) ==
    /\ item \in Items \cap DOMAIN map => Includes(map[item], needed, 1)
    /\ Category \in DOMAIN map => Includes(map[Category], needed, 2)

\* checkPermissions: extracts the paths it looks at under the mutex.
CheckPermissions(t) ==
    /\ at[t] = "check"
    /\ LET map == Restrict(permissions, {call[t].path, Category} \cap DOMAIN permissions) IN
       /\ extracted' = [extracted EXCEPT ![t] = map]
       /\ Goto(t, IF Passes(map, call[t].path, call[t].needed) THEN "ok" ELSE "refused")
    /\ UNCHANGED <<server, cache, call, fetched, faults>>

Step(t) ==
    \/ CheckNil(t) \/ FetchVersion(t) \/ StoreVersion(t) \/ LoadVersion(t)
    \/ FetchPermissions(t) \/ StorePermissions(t) \/ CheckPermissions(t)

CacheNext ==
    \/ Upgrade \/ Grant
    \/ \E t \in Threads : Step(t) \/ \E c \in Calls : Call(t, c)

CacheSpec == CacheInit /\ [][CacheNext]_cacheVars

-----------------------------------------------------------------------------
(* Properties.                                                             *)

\* Answered(t): t's call has returned a version and no error.
Answered(t) == at[t] = "ok" /\ call[t].kind \in {"GetVersion", "Version"}

\* The unlocked look at the pointer never lets Version dereference nil,
\* whatever the other goroutines do between it and the section under the
\* mutex; and as long as no fetch has failed, every answer is a version the
\* server has run, and no answer comes from the future of the server.
RealUnlessFailed ==
    \A t \in Threads :
        /\ at[t] = "load" => version # Nil
        /\ faults = 0 /\ Answered(t) => fetched[t] \in 1..running

\* Has(g, path, n): a user with the permissions g may do n on path: what is
\* said of an item overrides what the category propagates.
Has(g, path, n) ==
    IF path \in Items \cap DOMAIN g THEN g[path][n] >= 1
    ELSE Category \in DOMAIN g /\ g[Category][n] = 2

\* A check that found anything in the cache and passed is right about the
\* server, as it is or as it was at some time, although the entries of the
\* cache may come from fetches at different times, stored in any order.
PassIsTrue ==
    \A t \in Threads :
        (at[t] = "ok" /\ call[t].kind = "Check" /\ DOMAIN extracted[t] # {}) =>
            \E g \in been : \A n \in call[t].needed : Has(g, call[t].path, n)

\* Overruled(map, path, needed): the item is granted what is needed, and the
\* category does not propagate it.
Overruled(map, path, needed) ==
    /\ path \in Items \cap DOMAIN map /\ Includes(map[path], needed, 1)
    /\ Category \in DOMAIN map /\ ~Includes(map[Category], needed, 2)

\* A check is refused only if a privilege it asks for was missing on the server at
\* some time, or if the item's own entry in the cache grants it and the category's
\* overrules it (which makes the refusal wrong).  Of SysPowerMgmt it is not true: its
\* holder is refused once the cache has the category, as mapToSDK drops its value.
RefusalIsTrue ==
    \A t \in Threads :
        (at[t] = "refused" /\ SysPowerMgmt \notin call[t].needed) =>
            \/ \E g \in been : \E n \in call[t].needed : ~Has(g, call[t].path, n)
            \/ Overruled(extracted[t], call[t].path, call[t].needed)
=============================================================================
