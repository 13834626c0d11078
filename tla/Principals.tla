------------------------------ MODULE Principals ------------------------------
(***************************************************************************)
(* Who a request acts as.  The roles of a user are rows of user_roles; every *)
(* API instance keeps a cache of them, labelled with users.roles_version,  *)
(* which triggers raise with every change of the rows or of users.status.  *)
(* A request reads version and status, looks into the cache of its         *)
(* instance, reads the roles when the label does not match, and writes the *)
(* cache: two queries with awaits between them, and nothing locked.        *)
(*                                                                         *)
(* Composed modules change roles with GrantRoles and end a request with    *)
(* their own step.                                                         *)
(***************************************************************************)
EXTENDS Naturals, FiniteSets

CONSTANTS Users, Instances, Requests, Roles,
          InitialRoles,    \* of every user
          MaxVersion,      \* bound on the status changes made by operators
          NoEntry

UserStatuses == {"active", "suspended"}  \* banned and deleted act as suspended

ASSUME RolesAssumption == InitialRoles \subseteq Roles
ASSUME NoEntryAssumption ==
    NoEntry \notin [version : Nat, status : UserStatuses, roles : SUBSET Roles]

VARIABLES userStatus, version, roles,   \* users.status, users.roles_version, user_roles
          cache,                        \* the map of each instance
          request                       \* loadPrincipal calls: what each has read
                                        \* so far; "seen" is evidence, the sets of
                                        \* roles its user held while it was reading

principals == <<userStatus, version, roles>>
principalVars == <<principals, cache, request>>

Entries == [version : Nat, status : UserStatuses, roles : SUBSET Roles]
RequestSet ==
    [at : {"idle", "read", "missed", "fetched", "loaded"}, instance : Instances, user : Users,
     version : Nat, status : UserStatuses, roles : SUBSET Roles,
     seen : SUBSET SUBSET Roles]

IdleRequests ==
    [at : {"idle"}, instance : Instances, user : Users,
     version : {0}, status : {"active"}, roles : {{}}, seen : {{}}]

\* Ends a request; what it had read is dropped.
Ended(q) == [q EXCEPT !.at = "idle", !.version = 0, !.status = "active",
                      !.roles = {}, !.seen = {}]

-----------------------------------------------------------------------------
(* RolesService.loadPrincipal                                              *)

ReadMeta(r, i, u) ==
    /\ request[r].at = "idle"
    /\ request' = [request EXCEPT ![r] =
                      [at |-> "read", instance |-> i, user |-> u,
                       version |-> version[u], status |-> userStatus[u],
                       roles |-> {}, seen |-> {roles[u]}]]
    /\ UNCHANGED <<principals, cache>>

MatchesStatusOnly(entry, q) == entry # NoEntry /\ entry.status = q.status

\* An entry that is too old is one that is not there: Forget.
Matches(entry, q) ==
    entry # NoEntry /\ entry.version = q.version /\ entry.status = q.status

CheckCache(r) ==
    LET q == request[r]
        entry == cache[q.instance][q.user]
    IN /\ q.at = "read"
       /\ request' = [request EXCEPT ![r] =
                         IF Matches(entry, q)
                         THEN [q EXCEPT !.at = "loaded", !.roles = entry.roles]
                         ELSE [q EXCEPT !.at = "missed"]]
       /\ UNCHANGED <<principals, cache>>

ReadRoles(r) ==
    /\ request[r].at = "missed"
    /\ request' = [request EXCEPT ![r].at = "fetched", ![r].roles = roles[request[r].user]]
    /\ UNCHANGED <<principals, cache>>

EntryWithVersionNow(q) == [version |-> version[q.user], status |-> q.status, roles |-> q.roles]

\* The label is the version that was read before the roles were.
EntryOf(q) == [version |-> q.version, status |-> q.status, roles |-> q.roles]

FillCache(r) ==
    LET q == request[r] IN
    /\ q.at = "fetched"
    /\ cache' = [cache EXCEPT ![q.instance][q.user] = EntryOf(q)]
    /\ request' = [request EXCEPT ![r].at = "loaded"]
    /\ UNCHANGED principals

\* invalidate after a review, the time to live, a restart of the instance.
Forget(i, u) ==
    /\ cache[i][u] # NoEntry
    /\ cache' = [cache EXCEPT ![i][u] = NoEntry]
    /\ UNCHANGED <<principals, request>>

-----------------------------------------------------------------------------
(* What the guards make of the principal                                   *)

\* assertAccountAllowsApi, and one of the roles a route requires.  A token
\* that claims a role the principal lacks is refused: such a request ends.
Admits(r, required) ==
    /\ request[r].at = "loaded"
    /\ request[r].status = "active"
    /\ request[r].roles \cap required # {}

\* Refused, answered without a change of what is modelled, or lost in a crash.
EndRequest(r) ==
    /\ request[r].at # "idle"
    /\ request' = [request EXCEPT ![r] = Ended(@)]
    /\ UNCHANGED <<principals, cache>>

-----------------------------------------------------------------------------
(* Changes of the rows, with the triggers on them                          *)

Witnessed(requests, u, rs) ==
    [r \in Requests |->
        IF requests[r].user = u /\ requests[r].at \in {"read", "missed"}
        THEN [requests[r] EXCEPT !.seen = @ \cup {rs}] ELSE requests[r]]

BumpNothing(u, rs) == version

\* Every inserted and every deleted row of user_roles counts.
Bump(u, rs) ==
    [version EXCEPT ![u] = @ + Cardinality((rs \ roles[u]) \cup (roles[u] \ rs))]

\* From here on u holds rs; requests are the requests after this step.
GrantRoles(u, rs, requests) ==
    /\ roles' = [roles EXCEPT ![u] = rs]
    /\ version' = Bump(u, rs)
    /\ request' = Witnessed(requests, u, rs)
    /\ UNCHANGED <<userStatus, cache>>

\* Operators write users.status; the trigger raises the version.
SetUserStatus(u, s) ==
    /\ s # userStatus[u] /\ version[u] < MaxVersion
    /\ userStatus' = [userStatus EXCEPT ![u] = s]
    /\ version' = [version EXCEPT ![u] = @ + 1]
    /\ UNCHANGED <<roles, cache, request>>

-----------------------------------------------------------------------------
PrincipalsInit ==
    /\ userStatus = [u \in Users |-> "active"]
    /\ version = [u \in Users |-> 0]
    /\ roles = [u \in Users |-> InitialRoles]
    /\ cache = [i \in Instances |-> [u \in Users |-> NoEntry]]
    /\ request \in [Requests -> IdleRequests]

PrincipalsNext ==
    \/ \E r \in Requests :
          \/ \E i \in Instances, u \in Users : ReadMeta(r, i, u)
          \/ CheckCache(r) \/ ReadRoles(r) \/ FillCache(r) \/ EndRequest(r)
    \/ \E i \in Instances, u \in Users : Forget(i, u)
    \/ \E u \in Users, s \in UserStatuses : SetUserStatus(u, s)

-----------------------------------------------------------------------------
(* Properties                                                              *)

PrincipalsTypeOK ==
    /\ userStatus \in [Users -> UserStatuses]
    /\ version \in [Users -> Nat]
    /\ roles \in [Users -> SUBSET Roles]
    /\ cache \in [Instances -> [Users -> Entries \cup {NoEntry}]]
    /\ request \in [Requests -> RequestSet]

\* A cache entry that carries the current version holds exactly the roles of
\* user_roles, in every instance, though the version was read before the roles
\* and other instances are never told of a change (loadPrincipal).
CacheAgrees ==
    \A i \in Instances, u \in Users :
        (cache[i][u] # NoEntry /\ cache[i][u].version = version[u])
            => cache[i][u].roles = roles[u]

\* A request is let in with a set of roles its user really held at some moment
\* between the start and the end of loadPrincipal: never a mixture, and never
\* roles that had already been taken away when it began.
LoadedRolesWereHeld ==
    \A r \in Requests : request[r].at = "loaded" => request[r].roles \in request[r].seen
=============================================================================
