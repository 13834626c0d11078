------------------------- MODULE VendorOnboardingProofs -------------------------
(***************************************************************************)
(* What a request is let in with is what its user held, and vendors were   *)
(* approved, for any number of instances, requests, users and vendors.     *)
(***************************************************************************)
EXTENDS VendorOnboarding, FiniteSetTheorems, TLAPS

\* Versions only rise, and a version names one set of roles: an entry or a
\* fetched set labelled with the current version is current.  One that is
\* labelled with an older version may be newer than its label, and can only be
\* taken by a request that was reading at that time, and so has seen it.
Labels ==
    /\ \A i \in Instances, u \in Users :
          cache[i][u] # NoEntry
              => /\ cache[i][u].version <= version[u]
                 /\ cache[i][u].version = version[u] => cache[i][u].roles = roles[u]
    /\ \A r \in Requests :
          request[r].at = "fetched"
              => /\ request[r].version <= version[request[r].user]
                 /\ request[r].version = version[request[r].user]
                        => request[r].roles = roles[request[r].user]
                 /\ request[r].roles \in request[r].seen

Sightings ==
    /\ \A r \in Requests :
          request[r].at \in {"read", "missed"}
              => /\ request[r].version <= version[request[r].user]
                 /\ roles[request[r].user] \in request[r].seen
    /\ \A r \in Requests, i \in Instances :
          (/\ request[r].at = "read"
           /\ cache[i][request[r].user] # NoEntry
           /\ cache[i][request[r].user].version = request[r].version)
              => cache[i][request[r].user].roles \in request[r].seen
    /\ \A r, q \in Requests :
          (/\ request[r].at = "read" /\ request[q].at = "fetched"
           /\ request[q].user = request[r].user
           /\ request[q].version = request[r].version)
              => request[q].roles \in request[r].seen

PrincipalsInv == PrincipalsTypeOK /\ Labels /\ Sightings /\ LoadedRolesWereHeld

-----------------------------------------------------------------------------
(* The requests and the cache                                              *)

\* A request that ends has nothing left to say.
LEMMA EndedRequest ==
    ASSUME PrincipalsTypeOK, NEW r \in Requests
    PROVE  /\ Ended(request[r]) \in RequestSet
           /\ Ended(request[r]).at = "idle"
  BY DEF PrincipalsTypeOK, RequestSet, Ended, UserStatuses

\* Requests that end keep what is known of the others.
LEMMA RequestEnds ==
    ASSUME PrincipalsInv, NEW r \in Requests,
           request' = [request EXCEPT ![r] = Ended(@)], UNCHANGED <<principals, cache>>
    PROVE  PrincipalsInv'
  <1>1. PrincipalsTypeOK'
    BY EndedRequest DEF PrincipalsInv, PrincipalsTypeOK, principals
  <1>2. \A q \in Requests : request'[q] = request[q] \/ request'[q].at = "idle"
    BY EndedRequest DEF PrincipalsInv, PrincipalsTypeOK
  <1>3. Labels' /\ Sightings' /\ LoadedRolesWereHeld'
    BY <1>2 DEF PrincipalsInv, Labels, Sightings, LoadedRolesWereHeld, principals
  <1> QED BY <1>1, <1>3 DEF PrincipalsInv

LEMMA MetaIsRead ==
    ASSUME PrincipalsInv, NEW r \in Requests, NEW i \in Instances, NEW u \in Users,
           ReadMeta(r, i, u)
    PROVE  PrincipalsInv'
  <1> USE DEF PrincipalsInv
  <1> DEFINE new == [at |-> "read", instance |-> i, user |-> u,
                     version |-> version[u], status |-> userStatus[u],
                     roles |-> {}, seen |-> {roles[u]}]
  <1>0. new \in RequestSet /\ request' = [request EXCEPT ![r] = new]
    BY DEF ReadMeta, PrincipalsTypeOK, RequestSet
  <1>1. /\ request'[r] = new
        /\ \A q \in Requests : q # r => request'[q] = request[q]
    BY <1>0 DEF PrincipalsTypeOK
  <1>2. new.at = "read" /\ new.user = u /\ new.version = version[u] /\ new.seen = {roles[u]}
    OBVIOUS
  <1>3. version[u] \in Nat
    BY DEF PrincipalsTypeOK
  <1> HIDE DEF new
  <1>4. PrincipalsTypeOK'
    BY <1>0 DEF PrincipalsTypeOK, ReadMeta, principals
  <1>5. Labels'
    BY <1>1, <1>2 DEF Labels, ReadMeta, principals
  <1>6. Sightings'
    BY <1>1, <1>2, <1>3 DEF Sightings, Labels, ReadMeta, principals
  <1>7. LoadedRolesWereHeld'
    BY <1>1, <1>2 DEF LoadedRolesWereHeld
  <1> QED BY <1>4, <1>5, <1>6, <1>7

LEMMA CacheIsChecked ==
    ASSUME PrincipalsInv, NEW r \in Requests, CheckCache(r)
    PROVE  PrincipalsInv'
  <1> USE DEF PrincipalsInv
  <1> DEFINE q == request[r]
             entry == cache[q.instance][q.user]
  <1>0. q \in RequestSet /\ q.instance \in Instances /\ q.user \in Users
    BY DEF PrincipalsTypeOK, RequestSet
  <1>u. q.at = "read" /\ UNCHANGED <<principals, cache>>
    BY DEF CheckCache
  <1>1. CASE Matches(entry, q)
    <2>0. entry \in Entries
      BY <1>0, <1>1 DEF Matches, PrincipalsTypeOK
    <2>1. PICK new \in RequestSet : new = [q EXCEPT !.at = "loaded", !.roles = entry.roles]
      BY <1>0, <2>0 DEF RequestSet, Entries
    <2>2. new.at = "loaded" /\ new.roles = entry.roles /\ new.seen = q.seen
      BY <2>1, <1>0 DEF RequestSet
    <2>3. request' = [request EXCEPT ![r] = new]
      BY <1>1, <2>1 DEF CheckCache
    <2>4. entry.roles \in q.seen
      BY <1>0, <1>1, <1>u DEF Sightings, Matches
    <2>5. /\ request'[r] = new
          /\ \A o \in Requests : o # r => request'[o] = request[o]
      BY <2>3 DEF PrincipalsTypeOK
    <2>6. PrincipalsTypeOK'
      BY <2>3, <1>u DEF PrincipalsTypeOK, principals
    <2>7. Labels' /\ Sightings'
      <3>1. Labels'
        BY <2>2, <2>5, <1>u DEF Labels, principals
      <3>2. \A o \in Requests : request'[o].at \in {"read", "missed", "fetched"}
                                  => request'[o] = request[o]
        BY <2>2, <2>5
      <3>3. Sightings'
        BY <3>2, <1>u DEF Sightings, principals
      <3> QED BY <3>1, <3>3
    <2>8. LoadedRolesWereHeld'
      BY <2>2, <2>4, <2>5 DEF LoadedRolesWereHeld
    <2> QED BY <2>6, <2>7, <2>8
  <1>2. CASE ~Matches(entry, q)
    <2>1. PICK new \in RequestSet : new = [q EXCEPT !.at = "missed"]
      BY <1>0 DEF RequestSet
    <2>2. /\ new.at = "missed" /\ new.user = q.user
          /\ new.version = q.version /\ new.seen = q.seen
      BY <2>1, <1>0 DEF RequestSet
    <2>3. request' = [request EXCEPT ![r] = new]
      BY <1>2, <2>1 DEF CheckCache
    <2>4. /\ request'[r] = new
          /\ \A o \in Requests : o # r => request'[o] = request[o]
      BY <2>3 DEF PrincipalsTypeOK
    <2>5. PrincipalsTypeOK'
      BY <2>3, <1>u DEF PrincipalsTypeOK, principals
    <2>6. \A o \in Requests : request'[o].at \in {"read", "fetched", "loaded"}
                                => request'[o] = request[o]
      BY <2>2, <2>4
    <2>7. Labels' /\ LoadedRolesWereHeld'
      BY <2>6, <1>u DEF Labels, LoadedRolesWereHeld, principals
    <2>8. Sightings'
      <3>1. \A o \in Requests :
                request'[o].at = "missed"
                    => /\ request'[o].version <= version[request'[o].user]
                       /\ roles[request'[o].user] \in request'[o].seen
        BY <2>2, <2>4, <1>u DEF Sightings
      <3> QED BY <3>1, <2>6, <1>u DEF Sightings, principals
    <2> QED BY <2>5, <2>7, <2>8
  <1> QED BY <1>1, <1>2

LEMMA RolesAreRead ==
    ASSUME PrincipalsInv, NEW r \in Requests, ReadRoles(r)
    PROVE  PrincipalsInv'
  <1> USE DEF PrincipalsInv
  <1> DEFINE q == request[r]
  <1>0. q \in RequestSet /\ q.user \in Users /\ roles[q.user] \in SUBSET Roles
    BY DEF PrincipalsTypeOK, RequestSet
  <1>u. q.at = "missed" /\ UNCHANGED <<principals, cache>>
    BY DEF ReadRoles
  <1>1. PICK new \in RequestSet :
            new = [q EXCEPT !.at = "fetched", !.roles = roles[q.user]]
    BY <1>0 DEF RequestSet
  <1>2. /\ new.at = "fetched" /\ new.user = q.user /\ new.roles = roles[q.user]
        /\ new.version = q.version /\ new.seen = q.seen
    BY <1>1, <1>0 DEF RequestSet
  <1>3. request' = [request EXCEPT ![r] = new]
    BY <1>1, <1>0 DEF ReadRoles, PrincipalsTypeOK, RequestSet
  <1>4. /\ request'[r] = new
        /\ \A o \in Requests : o # r => request'[o] = request[o]
    BY <1>3 DEF PrincipalsTypeOK
  <1>5. PrincipalsTypeOK'
    BY <1>3, <1>u DEF PrincipalsTypeOK, principals
  <1>6. Labels'
    BY <1>2, <1>4, <1>u DEF Labels, Sightings, principals
  <1>7. \A o \in Requests : request'[o].at \in {"read", "missed", "loaded"}
                              => request'[o] = request[o]
    BY <1>2, <1>4
  <1>8. Sightings'
    <2>1. ASSUME NEW o \in Requests, NEW p \in Requests,
                 request'[o].at = "read", request'[p].at = "fetched",
                 request'[p].user = request'[o].user,
                 request'[p].version = request'[o].version
          PROVE  request'[p].roles \in request'[o].seen
      BY <1>2, <1>4, <1>7, <2>1 DEF Sightings
    <2> QED BY <1>7, <2>1, <1>u DEF Sightings, principals
  <1>9. LoadedRolesWereHeld'
    BY <1>7 DEF LoadedRolesWereHeld
  <1> QED BY <1>5, <1>6, <1>8, <1>9

LEMMA CacheIsFilled ==
    ASSUME PrincipalsInv, NEW r \in Requests, FillCache(r)
    PROVE  PrincipalsInv'
  <1> USE DEF PrincipalsInv
  <1> DEFINE q == request[r]
  <1>0. q \in RequestSet /\ q.user \in Users /\ q.instance \in Instances
    BY DEF PrincipalsTypeOK, RequestSet
  <1>1. EntryOf(q) \in Entries /\ EntryOf(q).version = q.version /\ EntryOf(q).roles = q.roles
    BY <1>0 DEF EntryOf, Entries, RequestSet
  <1>2. PICK new \in RequestSet : new = [q EXCEPT !.at = "loaded"]
    BY <1>0 DEF RequestSet
  <1>3. new.at = "loaded" /\ new.roles = q.roles /\ new.seen = q.seen
    BY <1>2, <1>0 DEF RequestSet
  <1>4. request' = [request EXCEPT ![r] = new]
    BY <1>2, <1>0 DEF FillCache, PrincipalsTypeOK, RequestSet
  <1>5. /\ request'[r] = new
        /\ \A o \in Requests : o # r => request'[o] = request[o]
    BY <1>4 DEF PrincipalsTypeOK
  <1>6. cache' = [cache EXCEPT ![q.instance][q.user] = EntryOf(q)]
    BY DEF FillCache
  <1>7. \A i \in Instances, u \in Users :
            \/ cache'[i][u] = cache[i][u]
            \/ u = q.user /\ cache'[i][u] = EntryOf(q)
    BY <1>0, <1>6 DEF PrincipalsTypeOK
  <1>8. PrincipalsTypeOK'
    <2>1. cache' \in [Instances -> [Users -> Entries \cup {NoEntry}]]
      BY <1>0, <1>1, <1>6 DEF PrincipalsTypeOK
    <2> QED BY <1>4, <2>1 DEF PrincipalsTypeOK, FillCache, principals
  <1>9. Labels'
    BY <1>0, <1>1, <1>3, <1>5, <1>7 DEF Labels, FillCache, principals
  <1>10. Sightings'
    <2>1. ASSUME NEW o \in Requests, request'[o].at = "read"
          PROVE  /\ o # r /\ request'[o] = request[o] /\ request[o].user \in Users
      BY <1>3, <1>5, <2>1 DEF PrincipalsTypeOK, RequestSet
    <2>2. ASSUME NEW o \in Requests, NEW i \in Instances, request'[o].at = "read",
                 cache'[i][request'[o].user] # NoEntry,
                 cache'[i][request'[o].user].version = request'[o].version
          PROVE  cache'[i][request'[o].user].roles \in request'[o].seen
      BY <1>1, <1>7, <2>1, <2>2 DEF Sightings, FillCache
    <2>3. \A o \in Requests : request'[o].at \in {"missed", "fetched"} => request'[o] = request[o]
      BY <1>3, <1>5
    <2> QED BY <2>1, <2>2, <2>3 DEF Sightings, FillCache, principals
  <1>11. LoadedRolesWereHeld'
    BY <1>3, <1>5 DEF LoadedRolesWereHeld, Labels, FillCache
  <1> QED BY <1>8, <1>9, <1>10, <1>11

LEMMA EntryIsForgotten ==
    ASSUME PrincipalsInv, NEW i \in Instances, NEW u \in Users, Forget(i, u)
    PROVE  PrincipalsInv'
  <1> USE DEF PrincipalsInv
  <1>1. \A j \in Instances, w \in Users :
            cache'[j][w] = cache[j][w] \/ cache'[j][w] = NoEntry
    BY DEF Forget, PrincipalsTypeOK
  <1>2. PrincipalsTypeOK'
    <2>1. cache' \in [Instances -> [Users -> Entries \cup {NoEntry}]]
      BY DEF Forget, PrincipalsTypeOK
    <2> QED BY <2>1 DEF PrincipalsTypeOK, Forget, principals
  <1>3. \A r \in Requests : request[r].user \in Users
    BY DEF PrincipalsTypeOK, RequestSet
  <1>4. Labels' /\ Sightings' /\ LoadedRolesWereHeld'
    BY <1>1, <1>3 DEF Labels, Sightings, LoadedRolesWereHeld, Forget, principals
  <1> QED BY <1>2, <1>4

-----------------------------------------------------------------------------
(* Changes of roles and status                                             *)

LEMMA BumpRises ==
    ASSUME PrincipalsTypeOK, NEW u \in Users, NEW rs \in SUBSET Roles
    PROVE  /\ Bump(u, rs) \in [Users -> Nat]
           /\ version[u] <= Bump(u, rs)[u]
           /\ version[u] = Bump(u, rs)[u] => rs = roles[u]
           /\ \A w \in Users : w # u => Bump(u, rs)[w] = version[w]
  <1> DEFINE D == (rs \ roles[u]) \cup (roles[u] \ rs)
  <1>1. IsFiniteSet(Roles)
    <2>1. IsFiniteSet({"client", "vendor_pending"})
      <3>1. IsFiniteSet({"client"})
        BY FS_Singleton
      <3>2. {"client", "vendor_pending"} = {"client"} \cup {"vendor_pending"}
        OBVIOUS
      <3> QED BY <3>1, <3>2, FS_AddElement
    <2>2. OnboardingRoles = {"client", "vendor_pending"} \cup {"vendor"}
      BY DEF OnboardingRoles
    <2> QED BY <2>1, <2>2, FS_AddElement, OnboardingRolesAssumption
  <1>2. roles[u] \in SUBSET Roles /\ version \in [Users -> Nat]
    BY DEF PrincipalsTypeOK
  <1>3. IsFiniteSet(D)
    BY <1>1, <1>2, FS_Subset, D \subseteq Roles
  <1>4. Cardinality(D) \in Nat /\ (Cardinality(D) = 0 => D = {})
    BY <1>3, FS_CardinalityType, FS_EmptySet
  <1>5. D = {} => rs = roles[u]
    OBVIOUS
  <1>6. Bump(u, rs) = [version EXCEPT ![u] = @ + Cardinality(D)]
    BY DEF Bump
  <1> HIDE DEF D
  <1> QED BY <1>2, <1>4, <1>5, <1>6

\* A change of roles under requests some of which may have ended.
LEMMA RolesChange ==
    ASSUME PrincipalsInv, NEW u \in Users, NEW rs \in SUBSET Roles,
           NEW requests \in [Requests -> RequestSet],
           \A r \in Requests : requests[r] = request[r] \/ requests[r].at = "idle",
           GrantRoles(u, rs, requests)
    PROVE  PrincipalsInv'
  <1> USE DEF PrincipalsInv
  <1>1. /\ roles' = [roles EXCEPT ![u] = rs] /\ version' = Bump(u, rs)
        /\ UNCHANGED <<userStatus, cache>>
    BY DEF GrantRoles
  <1>2. /\ roles'[u] = rs /\ \A w \in Users : w # u => roles'[w] = roles[w]
        /\ \A w \in Users :
              /\ version'[w] \in Nat /\ version[w] \in Nat /\ version[w] <= version'[w]
              /\ version[w] = version'[w] => roles'[w] = roles[w]
    <2>1. /\ roles'[u] = rs /\ \A w \in Users : w # u => roles'[w] = roles[w]
      BY <1>1 DEF PrincipalsTypeOK
    <2>2. version' \in [Users -> Nat] /\ version \in [Users -> Nat]
      BY <1>1, BumpRises DEF PrincipalsTypeOK
    <2>3. /\ version[u] <= version'[u]
          /\ version[u] = version'[u] => rs = roles[u]
          /\ \A w \in Users : w # u => version'[w] = version[w]
      BY <1>1, BumpRises
    <2> QED BY <2>1, <2>2, <2>3
  <1>3. \A r \in Requests :
           /\ request'[r] \in RequestSet
           /\ \/ request'[r].at = "idle"
              \/ /\ request'[r].at = request[r].at
                 /\ request'[r].user = request[r].user
                 /\ request'[r].version = request[r].version
                 /\ request'[r].roles = request[r].roles
                 /\ request[r].seen \subseteq request'[r].seen
                 /\ (request[r].user = u /\ request[r].at \in {"read", "missed"})
                        => rs \in request'[r].seen
    <2> SUFFICES ASSUME NEW r \in Requests
                 PROVE  /\ request'[r] \in RequestSet
                        /\ \/ request'[r].at = "idle"
                           \/ /\ request'[r].at = request[r].at
                              /\ request'[r].user = request[r].user
                              /\ request'[r].version = request[r].version
                              /\ request'[r].roles = request[r].roles
                              /\ request[r].seen \subseteq request'[r].seen
                              /\ (request[r].user = u /\ request[r].at \in {"read", "missed"})
                                     => rs \in request'[r].seen
      OBVIOUS
    <2>1. request'[r] = IF requests[r].user = u /\ requests[r].at \in {"read", "missed"}
                        THEN [requests[r] EXCEPT !.seen = @ \cup {rs}] ELSE requests[r]
      BY DEF GrantRoles, Witnessed
    <2>2. requests[r] \in RequestSet
      OBVIOUS
    <2>3. CASE requests[r].user = u /\ requests[r].at \in {"read", "missed"}
      <3>1. /\ request'[r] \in RequestSet
            /\ request'[r].at = requests[r].at /\ request'[r].user = requests[r].user
            /\ request'[r].version = requests[r].version
            /\ request'[r].roles = requests[r].roles
            /\ request'[r].seen = requests[r].seen \cup {rs}
        BY <2>1, <2>2, <2>3 DEF RequestSet
      <3> QED BY <3>1, <2>3
    <2>4. CASE ~(requests[r].user = u /\ requests[r].at \in {"read", "missed"})
      BY <2>1, <2>2, <2>4
    <2> QED BY <2>3, <2>4
  <1>4. PrincipalsTypeOK'
    <2>1. request' \in [Requests -> RequestSet]
      <3>1. request' = [r \in Requests |-> request'[r]]
        BY DEF GrantRoles, Witnessed
      <3> QED BY <3>1, <1>3
    <2>2. version' \in [Users -> Nat]
      BY <1>1, BumpRises
    <2> QED BY <2>1, <2>2, <1>1 DEF PrincipalsTypeOK
  <1>5. \A r \in Requests : request[r].user \in Users /\ request[r].version \in Nat
    BY DEF PrincipalsTypeOK, RequestSet
  <1>6. \A i \in Instances, w \in Users :
            cache[i][w] # NoEntry => cache[i][w].version \in Nat
    BY DEF PrincipalsTypeOK, Entries
  <1>7. Labels'
    BY <1>1, <1>2, <1>3, <1>5, <1>6 DEF Labels
  <1>8. Sightings'
    <2>1. ASSUME NEW r \in Requests, request'[r].at \in {"read", "missed"}
          PROVE  /\ request'[r].version <= version'[request'[r].user]
                 /\ roles'[request'[r].user] \in request'[r].seen
      BY <1>2, <1>3, <1>5, <2>1 DEF Sightings
    <2>2. ASSUME NEW r \in Requests, NEW i \in Instances, request'[r].at = "read",
                 cache'[i][request'[r].user] # NoEntry,
                 cache'[i][request'[r].user].version = request'[r].version
          PROVE  cache'[i][request'[r].user].roles \in request'[r].seen
      BY <1>1, <1>3, <2>2 DEF Sightings
    <2>3. ASSUME NEW r \in Requests, NEW q \in Requests,
                 request'[r].at = "read", request'[q].at = "fetched",
                 request'[q].user = request'[r].user,
                 request'[q].version = request'[r].version
          PROVE  request'[q].roles \in request'[r].seen
      BY <1>3, <2>3 DEF Sightings
    <2> QED BY <2>1, <2>2, <2>3 DEF Sightings
  <1>9. LoadedRolesWereHeld'
    BY <1>3 DEF LoadedRolesWereHeld
  <1> QED BY <1>4, <1>7, <1>8, <1>9

LEMMA StatusChanges ==
    ASSUME PrincipalsInv, NEW u \in Users, NEW s \in UserStatuses, SetUserStatus(u, s)
    PROVE  PrincipalsInv'
  <1> USE DEF PrincipalsInv
  <1>1. version \in [Users -> Nat] /\ version' \in [Users -> Nat]
    BY DEF SetUserStatus, PrincipalsTypeOK
  <1>2. /\ UNCHANGED <<roles, cache, request>>
        /\ version'[u] = version[u] + 1
        /\ \A w \in Users : w # u => version'[w] = version[w]
    BY <1>1 DEF SetUserStatus
  <1>3. PrincipalsTypeOK'
    BY <1>1 DEF SetUserStatus, PrincipalsTypeOK
  <1>4. \A r \in Requests : request[r].user \in Users /\ request[r].version \in Nat
    BY DEF PrincipalsTypeOK, RequestSet
  <1>5. \A i \in Instances, w \in Users :
            cache[i][w] # NoEntry => cache[i][w].version \in Nat
    BY DEF PrincipalsTypeOK, Entries
  <1>6. \A w \in Users : version[w] <= version'[w] /\ (version'[w] = version[w] \/ version'[w] = version[w] + 1)
    BY <1>1, <1>2
  <1>7. Labels'
    BY <1>1, <1>2, <1>4, <1>5, <1>6 DEF Labels
  <1>8. Sightings' /\ LoadedRolesWereHeld'
    BY <1>1, <1>2, <1>4, <1>6 DEF Sightings, LoadedRolesWereHeld
  <1> QED BY <1>3, <1>7, <1>8

LEMMA PrincipalsStep ==
    ASSUME PrincipalsInv, PrincipalsNext
    PROVE  PrincipalsInv'
  <1>1. ASSUME NEW r \in Requests, EndRequest(r) PROVE PrincipalsInv'
    BY <1>1, RequestEnds DEF EndRequest
  <1> QED
    BY <1>1, MetaIsRead, CacheIsChecked, RolesAreRead, CacheIsFilled, EntryIsForgotten,
       StatusChanges DEF PrincipalsNext

-----------------------------------------------------------------------------
(* The invariant of the composition                                        *)

Approved(u) ==
    \E a \in Applications : application[a] = "approved" /\ OwnerOf[VendorOf[a]] = u

\* The role of a vendor, held now or seen by a request, was earned.
Earned ==
    /\ \A u \in Users : "vendor" \in roles[u] => Approved(u)
    /\ \A r \in Requests, u \in Users :
          (request[r].at # "idle" /\ request[r].user = u)
              => \A s \in request[r].seen : "vendor" \in s => Approved(u)

\* What is under review or approved has a business profile, though profiles are
\* saved by requests that looked at the application earlier (submit).
ReviewedHasBusiness ==
    \A a \in Applications : application[a] \in {"under_review", "approved"} => a \in business

OnboardingTypeOK ==
    /\ vendor \in [Vendors -> VendorStatuses]
    /\ application \in [Applications -> ApplicationStatuses]
    /\ business \subseteq Applications
    /\ acting \in [Requests -> Vendors \cup {NoVendor}]
    /\ editing \subseteq Applications /\ rejecting \subseteq Applications

Inv ==
    /\ OnboardingTypeOK
    /\ PrincipalsInv
    /\ Earned
    /\ PendingIsUnderReview
    /\ ReviewedHasBusiness

LEMMA InvImplies == Inv => TypeOK /\ CacheAgrees /\ LoadedRolesWereHeld /\ VendorsWereApproved
  <1> SUFFICES ASSUME Inv
               PROVE  TypeOK /\ CacheAgrees /\ LoadedRolesWereHeld /\ VendorsWereApproved
    OBVIOUS
  <1>1. TypeOK /\ LoadedRolesWereHeld
    BY DEF Inv, OnboardingTypeOK, PrincipalsInv, TypeOK
  <1>2. CacheAgrees
    BY DEF Inv, PrincipalsInv, Labels, CacheAgrees
  <1>3. VendorsWereApproved
    <2>1. \A r \in Requests : request[r].user \in Users
      BY DEF Inv, PrincipalsInv, PrincipalsTypeOK, RequestSet
    <2> QED
      BY <2>1 DEF Inv, PrincipalsInv, LoadedRolesWereHeld, Earned, Approved, VendorsWereApproved
  <1> QED BY <1>1, <1>2, <1>3

LEMMA InvInit == Init => Inv
  <1> SUFFICES ASSUME Init PROVE Inv
    OBVIOUS
  <1>1. \A r \in Requests : request[r] \in IdleRequests /\ request[r].at = "idle"
    BY DEF Init, PrincipalsInit, IdleRequests
  <1>2. OnboardingTypeOK
    BY DEF Init, OnboardingTypeOK, VendorStatuses, ApplicationStatuses
  <1>3. PrincipalsTypeOK
    <2>1. IdleRequests \subseteq RequestSet
      BY DEF IdleRequests, RequestSet, UserStatuses
    <2>2. request \in [Requests -> RequestSet]
      BY <2>1 DEF Init, PrincipalsInit
    <2> QED BY <2>2, RolesAssumption DEF Init, PrincipalsInit, PrincipalsTypeOK, UserStatuses
  <1>4. \A i \in Instances, u \in Users : cache[i][u] = NoEntry
    BY DEF Init, PrincipalsInit
  <1>5. \A r \in Requests : request[r].user \in Users
    BY <1>1 DEF IdleRequests
  <1>6. Labels /\ Sightings /\ LoadedRolesWereHeld
    BY <1>1, <1>4, <1>5 DEF Labels, Sightings, LoadedRolesWereHeld
  <1>7. Earned
    BY <1>1, OnboardingRolesAssumption DEF Init, PrincipalsInit, Earned
  <1>8. PendingIsUnderReview /\ ReviewedHasBusiness
    BY DEF Init, PendingIsUnderReview, ReviewedHasBusiness
  <1> QED BY <1>2, <1>3, <1>6, <1>7, <1>8 DEF Inv, PrincipalsInv

\* What a step of loadPrincipal lets a request see, and that it changes no roles.
LEMMA Seeing ==
    ASSUME PrincipalsInv, PrincipalsNext
    PROVE  /\ UNCHANGED roles
           /\ \A r \in Requests :
                 \/ request'[r].at = "idle"
                 \/ /\ request[r].at # "idle" /\ request'[r].user = request[r].user
                    /\ request'[r].seen = request[r].seen
                 \/ request'[r].user \in Users /\ request'[r].seen = {roles[request'[r].user]}
  <1> DEFINE Sees ==
        \A r \in Requests :
           \/ request'[r].at = "idle"
           \/ /\ request[r].at # "idle" /\ request'[r].user = request[r].user
              /\ request'[r].seen = request[r].seen
           \/ request'[r].user \in Users /\ request'[r].seen = {roles[request'[r].user]}
  <1>0. request \in [Requests -> RequestSet]
    BY DEF PrincipalsInv, PrincipalsTypeOK
  <1>1. UNCHANGED roles
    BY DEF PrincipalsNext, ReadMeta, CheckCache, ReadRoles, FillCache, EndRequest, Forget,
           SetUserStatus, principals
  <1>2. ASSUME NEW r \in Requests, NEW i \in Instances, NEW u \in Users, ReadMeta(r, i, u)
        PROVE  Sees
    BY <1>0, <1>2 DEF ReadMeta
  <1>3. ASSUME NEW r \in Requests, CheckCache(r) \/ ReadRoles(r) \/ FillCache(r)
        PROVE  Sees
    <2>1. request[r].at # "idle" /\ request[r] \in RequestSet
      BY <1>0, <1>3 DEF CheckCache, ReadRoles, FillCache
    <2>2. \A q \in Requests : q # r => request'[q] = request[q]
      BY <1>0, <1>3 DEF CheckCache, ReadRoles, FillCache
    <2>3. request'[r].user = request[r].user /\ request'[r].seen = request[r].seen
      <3>1. CASE CheckCache(r)
        BY <1>0, <2>1, <3>1 DEF CheckCache, RequestSet
      <3>2. CASE ReadRoles(r)
        BY <1>0, <2>1, <3>2 DEF ReadRoles, RequestSet
      <3>3. CASE FillCache(r)
        BY <1>0, <2>1, <3>3 DEF FillCache, RequestSet
      <3> QED BY <1>3, <3>1, <3>2, <3>3
    <2> QED BY <2>1, <2>2, <2>3
  <1>4. ASSUME NEW r \in Requests, EndRequest(r)
        PROVE  Sees
    <2>1. request' = [request EXCEPT ![r] = Ended(@)] /\ Ended(request[r]).at = "idle"
      BY <1>4, EndedRequest DEF EndRequest, PrincipalsInv
    <2> QED BY <1>0, <2>1
  <1>5. ASSUME UNCHANGED request
        PROVE  Sees
    BY <1>5
  <1>6. Sees
    BY <1>2, <1>3, <1>4, <1>5 DEF PrincipalsNext, Forget, SetUserStatus
  <1> QED BY <1>1, <1>6

\* Earned survives every step that gives the role only with an approval.
LEMMA EarnedGranted ==
    ASSUME Inv, NEW u \in Users, NEW rs \in SUBSET Roles,
           NEW requests \in [Requests -> RequestSet],
           \A r \in Requests : requests[r] = request[r] \/ requests[r].at = "idle",
           GrantRoles(u, rs, requests),
           "vendor" \in rs => Approved(u)',
           \A a \in Applications : application[a] = "approved" => application'[a] = "approved"
    PROVE  Earned'
  <1>1. \A w \in Users : Approved(w) => Approved(w)'
    BY DEF Approved
  <1>2. roles' = [roles EXCEPT ![u] = rs] /\ roles \in [Users -> SUBSET Roles]
    BY DEF GrantRoles, Inv, PrincipalsInv, PrincipalsTypeOK
  <1>3. \A w \in Users : "vendor" \in roles'[w] => Approved(w)'
    BY <1>1, <1>2 DEF Inv, Earned
  <1>4. ASSUME NEW r \in Requests, NEW w \in Users, request'[r].at # "idle",
               request'[r].user = w, NEW s \in request'[r].seen, "vendor" \in s
        PROVE  Approved(w)'
    <2>0. requests[r] \in RequestSet /\ request[r].user \in Users
      BY DEF Inv, PrincipalsInv, PrincipalsTypeOK, RequestSet
    <2>1. request'[r] = IF requests[r].user = u /\ requests[r].at \in {"read", "missed"}
                        THEN [requests[r] EXCEPT !.seen = @ \cup {rs}] ELSE requests[r]
      BY DEF GrantRoles, Witnessed
    <2>2. /\ request'[r].at = requests[r].at /\ request'[r].user = requests[r].user
          /\ \/ request'[r].seen = requests[r].seen
             \/ requests[r].user = u /\ request'[r].seen = requests[r].seen \cup {rs}
      BY <2>0, <2>1 DEF RequestSet
    <2>3. requests[r] = request[r]
      BY <1>4, <2>2
    <2> QED BY <1>1, <1>4, <2>0, <2>2, <2>3 DEF Inv, Earned
  <1> QED BY <1>3, <1>4 DEF Earned

\* ... and every step that changes no roles.
LEMMA EarnedKept ==
    ASSUME Inv, UNCHANGED roles,
           \A a \in Applications : application[a] = "approved" => application'[a] = "approved",
           \A r \in Requests :
              \/ request'[r].at = "idle"
              \/ /\ request[r].at # "idle" /\ request'[r].user = request[r].user
                 /\ request'[r].seen = request[r].seen
              \/ request'[r].user \in Users /\ request'[r].seen = {roles[request'[r].user]}
    PROVE  Earned'
  <1>1. \A w : Approved(w) => Approved(w)'
    BY DEF Approved
  <1>2. \A w \in Users : "vendor" \in roles'[w] => Approved(w)'
    BY <1>1 DEF Inv, Earned
  <1>3. ASSUME NEW r \in Requests, NEW w \in Users, request'[r].at # "idle",
               request'[r].user = w, NEW s \in request'[r].seen, "vendor" \in s
        PROVE  Approved(w)'
    BY <1>1, <1>3 DEF Inv, Earned
  <1> QED BY <1>2, <1>3 DEF Earned

LEMMA ActsStep ==
    ASSUME Inv, NEW r \in Requests, NEW v \in Vendors, Acts(r, v)
    PROVE  /\ PrincipalsInv' /\ UNCHANGED roles
           /\ acting' \in [Requests -> Vendors \cup {NoVendor}]
           /\ \A q \in Requests :
                 \/ request'[q].at = "idle"
                 \/ request'[q] = request[q] /\ request[q].at # "idle"
  <1>1. request' = [request EXCEPT ![r] = Ended(@)] /\ UNCHANGED <<principals, cache>>
    BY DEF Acts
  <1>2. PrincipalsInv'
    BY <1>1, RequestEnds DEF Inv
  <1>3. Ended(request[r]).at = "idle"
    BY EndedRequest DEF Inv, PrincipalsInv
  <1>4. request \in [Requests -> RequestSet]
    BY DEF Inv, PrincipalsInv, PrincipalsTypeOK
  <1> QED
    BY <1>1, <1>2, <1>3, <1>4 DEF Acts, principals, Inv, OnboardingTypeOK

-----------------------------------------------------------------------------
(* The steps                                                               *)

LEMMA StutterStep ==
    ASSUME Inv, UNCHANGED vars
    PROVE  Inv'
  <1>1. UNCHANGED <<userStatus, version, roles, cache, request, vendor, application, business,
                    acting, editing, rejecting>>
    BY DEF vars, principalVars, principals, onboarding
  <1>2. OnboardingTypeOK' /\ PendingIsUnderReview' /\ ReviewedHasBusiness'
    BY <1>1 DEF Inv, OnboardingTypeOK, PendingIsUnderReview, ReviewedHasBusiness
  <1>3. PrincipalsInv'
    BY <1>1 DEF Inv, PrincipalsInv, PrincipalsTypeOK, Labels, Sightings, LoadedRolesWereHeld
  <1>4. Earned'
    BY <1>1 DEF Inv, Earned, Approved
  <1> QED BY <1>2, <1>3, <1>4 DEF Inv

LEMMA AuthenticateStep ==
    ASSUME Inv, Authenticate
    PROVE  Inv'
  <1>1. PrincipalsNext /\ UNCHANGED <<vendor, application, business, editing, rejecting>>
    BY DEF Authenticate
  <1>2. PrincipalsInv'
    BY <1>1, PrincipalsStep DEF Inv
  <1>3. Earned'
    BY <1>1, Seeing, EarnedKept DEF Inv
  <1>4. OnboardingTypeOK'
    BY <1>1 DEF Inv, OnboardingTypeOK, Authenticate
  <1>5. PendingIsUnderReview' /\ ReviewedHasBusiness'
    BY <1>1 DEF Inv, PendingIsUnderReview, ReviewedHasBusiness
  <1> QED BY <1>2, <1>3, <1>4, <1>5 DEF Inv

LEMMA CreateVendorStep ==
    ASSUME Inv, NEW r \in Requests, NEW v \in Vendors, CreateVendor(r, v)
    PROVE  Inv'
  <1> DEFINE u == OwnerOf[v]
             rs == roles[u] \cup {"vendor_pending"}
             requests == [request EXCEPT ![r] = Ended(@)]
  <1>1. /\ vendor[v] = "none" /\ vendor' = [vendor EXCEPT ![v] = "draft"]
        /\ UNCHANGED <<application, business, acting, editing, rejecting>>
        /\ GrantRoles(u, rs, requests)
    BY DEF CreateVendor
  <1>2. u \in Users /\ rs \in SUBSET Roles
    BY OwnerAssumption, OnboardingRolesAssumption
       DEF Inv, PrincipalsInv, PrincipalsTypeOK, OnboardingRoles
  <1>3. /\ requests \in [Requests -> RequestSet]
        /\ \A q \in Requests : requests[q] = request[q] \/ requests[q].at = "idle"
    BY EndedRequest DEF Inv, PrincipalsInv, PrincipalsTypeOK
  <1>4. "vendor" \in rs => Approved(u)'
    BY <1>1, <1>2 DEF Inv, Earned, Approved
  <1> HIDE DEF u, rs, requests
  <1>5. PrincipalsInv'
    BY <1>1, <1>2, <1>3, RolesChange DEF Inv
  <1>6. Earned'
    BY <1>1, <1>2, <1>3, <1>4, EarnedGranted
  <1>7. OnboardingTypeOK' /\ PendingIsUnderReview' /\ ReviewedHasBusiness'
    BY <1>1 DEF Inv, OnboardingTypeOK, VendorStatuses, PendingIsUnderReview, ReviewedHasBusiness
  <1> QED BY <1>5, <1>6, <1>7 DEF Inv

\* Steps that leave principals and requests alone and take no approval back.
LEMMA QuietStep ==
    ASSUME Inv, UNCHANGED principalVars,
           \A a \in Applications : application[a] = "approved" => application'[a] = "approved"
    PROVE  PrincipalsInv' /\ Earned'
  <1>1. UNCHANGED <<userStatus, version, roles, cache, request>>
    BY DEF principalVars, principals
  <1>2. PrincipalsInv'
    BY <1>1 DEF Inv, PrincipalsInv, PrincipalsTypeOK, Labels, Sightings, LoadedRolesWereHeld
  <1>3. Earned'
    BY <1>1, EarnedKept
  <1> QED BY <1>2, <1>3

LEMMA OwnerStep ==
    ASSUME Inv, OwnerActs
    PROVE  Inv'
  <1>1. ASSUME NEW r \in Requests, NEW v \in Vendors, AssertVendorOwner(r, v)
        PROVE  Inv'
    <2>1. UNCHANGED <<principalVars, vendor, application, business, editing, rejecting>>
      BY <1>1 DEF AssertVendorOwner
    <2>2. OnboardingTypeOK' /\ PendingIsUnderReview' /\ ReviewedHasBusiness'
      BY <1>1, <2>1 DEF AssertVendorOwner, Inv, OnboardingTypeOK, PendingIsUnderReview,
                        ReviewedHasBusiness
    <2> QED BY <2>1, <2>2, QuietStep DEF Inv
  <1>2. ASSUME NEW r \in Requests, NEW a \in Applications, CreateApplication(r, a)
        PROVE  Inv'
    <2>1. /\ Acts(r, VendorOf[a]) /\ VendorOf[a] \in Vendors
          /\ application[a] = "none" /\ application' = [application EXCEPT ![a] = "applied"]
          /\ UNCHANGED <<vendor, business, editing, rejecting>>
      BY <1>2, VendorAssumption DEF CreateApplication
    <2>2. OnboardingTypeOK' /\ PendingIsUnderReview' /\ ReviewedHasBusiness'
      BY <2>1, ActsStep DEF Inv, OnboardingTypeOK, ApplicationStatuses, PendingIsUnderReview,
                            ApplicationsOf, ReviewedHasBusiness
    <2>3. \A b \in Applications : application[b] = "approved" => application'[b] = "approved"
      BY <2>1 DEF Inv, OnboardingTypeOK
    <2> QED BY <2>1, <2>2, <2>3, ActsStep, EarnedKept DEF Inv
  <1>3. ASSUME NEW r \in Requests, NEW a \in Applications, FindEditable(r, a)
        PROVE  Inv'
    <2>1. /\ Acts(r, VendorOf[a]) /\ VendorOf[a] \in Vendors
          /\ UNCHANGED <<vendor, application, business, rejecting>>
          /\ editing' = editing \cup {a}
      BY <1>3, VendorAssumption DEF FindEditable
    <2>2. OnboardingTypeOK' /\ PendingIsUnderReview' /\ ReviewedHasBusiness'
      BY <2>1, ActsStep DEF Inv, OnboardingTypeOK, PendingIsUnderReview, ApplicationsOf,
                            ReviewedHasBusiness
    <2> QED BY <2>1, <2>2, ActsStep, EarnedKept DEF Inv
  <1>4. ASSUME NEW r \in Requests, NEW a \in Applications, Submit(r, a)
        PROVE  Inv'
    <2>1. /\ Acts(r, VendorOf[a]) /\ VendorOf[a] \in Vendors
          /\ a \in business /\ application[a] = "applied"
          /\ application' = [application EXCEPT ![a] = "under_review"]
          /\ vendor' = [vendor EXCEPT ![VendorOf[a]] = "pending_review"]
          /\ UNCHANGED <<business, editing, rejecting>>
      BY <1>4, VendorAssumption DEF Submit, Submittable
    <2>2. OnboardingTypeOK' /\ ReviewedHasBusiness'
      BY <2>1, ActsStep DEF Inv, OnboardingTypeOK, ApplicationStatuses, VendorStatuses,
                            ReviewedHasBusiness
    <2>3. PendingIsUnderReview'
      BY <2>1 DEF Inv, OnboardingTypeOK, PendingIsUnderReview, ApplicationsOf
    <2>4. \A b \in Applications : application[b] = "approved" => application'[b] = "approved"
      BY <2>1 DEF Inv, OnboardingTypeOK
    <2> QED BY <2>1, <2>2, <2>3, <2>4, ActsStep, EarnedKept DEF Inv
  <1>5. ASSUME NEW a \in Applications, SaveBusiness(a)
        PROVE  Inv'
    <2>1. /\ UNCHANGED <<principalVars, vendor, application, acting, editing, rejecting>>
          /\ business' = business \cup {a}
      BY <1>5 DEF SaveBusiness
    <2>2. OnboardingTypeOK' /\ PendingIsUnderReview' /\ ReviewedHasBusiness'
      BY <2>1 DEF Inv, OnboardingTypeOK, PendingIsUnderReview, ApplicationsOf,
                  ReviewedHasBusiness
    <2> QED BY <2>1, <2>2, QuietStep DEF Inv
  <1> QED BY <1>1, <1>2, <1>3, <1>4, <1>5, CreateVendorStep DEF OwnerActs

LEMMA StaffStep ==
    ASSUME Inv, StaffActs
    PROVE  Inv'
  <1>1. ASSUME NEW a \in Applications, Approve(a)
        PROVE  Inv'
    <2> DEFINE u == OwnerOf[VendorOf[a]]
               rs == Promoted(roles[u])
    <2>1. /\ application[a] = "under_review"
          /\ application' = [application EXCEPT ![a] = "approved"]
          /\ vendor' = [vendor EXCEPT ![VendorOf[a]] = "active"]
          /\ GrantRoles(u, rs, request)
          /\ UNCHANGED <<business, acting, editing, rejecting>>
      BY <1>1 DEF Approve
    <2>2. u \in Users /\ rs \in SUBSET Roles /\ VendorOf[a] \in Vendors
      BY OwnerAssumption, VendorAssumption, OnboardingRolesAssumption
         DEF Inv, PrincipalsInv, PrincipalsTypeOK, OnboardingRoles, Promoted
    <2>3. request \in [Requests -> RequestSet] /\ application'[a] = "approved"
      BY <2>1 DEF Inv, PrincipalsInv, PrincipalsTypeOK, OnboardingTypeOK
    <2>4. Approved(u)'
      BY <2>3 DEF Approved
    <2>5. \A b \in Applications : application[b] = "approved" => application'[b] = "approved"
      BY <2>1 DEF Inv, OnboardingTypeOK
    <2>6. OnboardingTypeOK' /\ ReviewedHasBusiness'
      BY <2>1 DEF Inv, OnboardingTypeOK, ApplicationStatuses, VendorStatuses,
                  ReviewedHasBusiness
    <2>7. PendingIsUnderReview'
      BY <2>1, <2>2 DEF Inv, OnboardingTypeOK, PendingIsUnderReview, ApplicationsOf
    <2> HIDE DEF u, rs
    <2>8. PrincipalsInv'
      BY <2>1, <2>2, <2>3, RolesChange DEF Inv
    <2>9. Earned'
      BY <2>1, <2>2, <2>3, <2>4, <2>5, EarnedGranted
    <2> QED BY <2>6, <2>7, <2>8, <2>9 DEF Inv
  <1>2. ASSUME NEW a \in Applications, FindRejectable(a)
        PROVE  Inv'
    <2>1. /\ UNCHANGED <<principalVars, vendor, application, business, acting, editing>>
          /\ rejecting' = rejecting \cup {a}
      BY <1>2 DEF FindRejectable
    <2>2. OnboardingTypeOK' /\ PendingIsUnderReview' /\ ReviewedHasBusiness'
      BY <2>1 DEF Inv, OnboardingTypeOK, PendingIsUnderReview, ApplicationsOf,
                  ReviewedHasBusiness
    <2> QED BY <2>1, <2>2, QuietStep DEF Inv
  <1>3. ASSUME NEW a \in Applications, Reject(a)
        PROVE  Inv'
    <2>1. /\ application[a] # "approved" /\ VendorOf[a] \in Vendors
          /\ application' = [application EXCEPT ![a] = "rejected"]
          /\ vendor' = [vendor EXCEPT ![VendorOf[a]] = "rejected"]
          /\ UNCHANGED <<principalVars, business, acting, editing, rejecting>>
      BY <1>3, VendorAssumption DEF Reject, TriggerLetsReject, RejectedVendor
    <2>2. OnboardingTypeOK' /\ ReviewedHasBusiness'
      BY <2>1 DEF Inv, OnboardingTypeOK, ApplicationStatuses, VendorStatuses,
                  ReviewedHasBusiness
    <2>3. PendingIsUnderReview'
      BY <2>1 DEF Inv, OnboardingTypeOK, PendingIsUnderReview, ApplicationsOf
    <2>4. \A b \in Applications : application[b] = "approved" => application'[b] = "approved"
      BY <2>1 DEF Inv, OnboardingTypeOK
    <2> QED BY <2>1, <2>2, <2>3, <2>4, QuietStep DEF Inv
  <1>4. ASSUME NEW v \in Vendors, NEW s \in {"active", "suspended"}, SetStatus(v, s)
        PROVE  Inv'
    <2>1. /\ vendor' = [vendor EXCEPT ![v] = s]
          /\ UNCHANGED <<principalVars, application, business, acting, editing, rejecting>>
      BY <1>4 DEF SetStatus
    <2>2. OnboardingTypeOK' /\ ReviewedHasBusiness'
      BY <2>1 DEF Inv, OnboardingTypeOK, VendorStatuses, ReviewedHasBusiness
    <2>3. PendingIsUnderReview'
      BY <2>1 DEF Inv, OnboardingTypeOK, PendingIsUnderReview, ApplicationsOf
    <2> QED BY <2>1, <2>2, <2>3, QuietStep DEF Inv
  <1> QED BY <1>1, <1>2, <1>3, <1>4 DEF StaffActs

LEMMA InvStep == Inv /\ [Next]_vars => Inv'
  BY StutterStep, AuthenticateStep, OwnerStep, StaffStep DEF Next

-----------------------------------------------------------------------------
LEMMA InvHolds == Spec => []Inv
  <1> QED BY InvInit, InvStep, PTL DEF Spec

\* The state of Principals and of the review keeps its types.
THEOREM TypeCorrect == Spec => []TypeOK
  <1>1. Inv => TypeOK
    BY InvImplies
  <1> QED BY <1>1, InvHolds, PTL

\* A cache entry with the current version holds the current roles, in every
\* instance, for any number of requests that read and fill it at once.
THEOREM CachesAgree == Spec => []CacheAgrees
  <1>1. Inv => CacheAgrees
    BY InvImplies
  <1> QED BY <1>1, InvHolds, PTL

\* A request is let in with roles its user held while it was being let in.
THEOREM RolesWereHeld == Spec => []LoadedRolesWereHeld
  <1>1. Inv => LoadedRolesWereHeld
    BY InvImplies
  <1> QED BY <1>1, InvHolds, PTL

\* Whoever is let in as a vendor owns a vendor with an approved application.
THEOREM OnlyApprovedVendorsAct == Spec => []VendorsWereApproved
  <1>1. Inv => VendorsWereApproved
    BY InvImplies
  <1> QED BY <1>1, InvHolds, PTL

\* A vendor in pending_review has an application that staff can decide on.
THEOREM PendingCanBeReviewed == Spec => []PendingIsUnderReview
  <1>1. Inv => PendingIsUnderReview
    BY DEF Inv
  <1> QED BY <1>1, InvHolds, PTL

\* No application is reviewed or approved without a business profile.
THEOREM ReviewsSeeABusiness == Spec => []ReviewedHasBusiness
  <1>1. Inv => ReviewedHasBusiness
    BY DEF Inv
  <1> QED BY <1>1, InvHolds, PTL

=============================================================================
