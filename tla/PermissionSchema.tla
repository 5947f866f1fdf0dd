-------------------------- MODULE PermissionSchema --------------------------
(***************************************************************************)
(* get_user_permission_schema (app/graphs/permission_schema): requests on  *)
(* the worker threads of one process resolve what their users may read, or *)
(* take it from the process's cache.  The directory is what the identity   *)
(* adapter answers from; it is the company's, and changes and fails as it  *)
(* pleases (the demo's adapter answers from a fixed table).                *)
(***************************************************************************)
EXTENDS Integers, FiniteSets

CONSTANTS
  Workers, Users, Scopes,
  Ttl,           \* ttl_seconds of the cache
  ResolveTime,   \* assumed: what resolving takes, from the groups to the store
  MaxClock,      \* bound
  MaxChanges,    \* bound: changes of the directory
  None

ASSUME TimesAssumption == Ttl \in Nat \ {0} /\ ResolveTime \in Nat

VARIABLES
  node, user,
  access,        \* access_status
  found,         \* cached_permission_schema with the entry's expires_at
  groups,        \* resolved_groups: whether there is one
  schema,        \* user_permission_schema: [user, scopes]
  cache,         \* _CACHE: [schema, expires]
  directory, clock, changes,
  readAt,        \* history: when the groups were read
  decidedAt,     \* history: when access became ok
  groupsUntil,   \* history: when a user was last in a group, if not now
  scopeUntil     \* history: when a scope was last a user's, if it is not now

permissionVars == <<node, user, access, found, groups, schema, cache,
                    directory, clock, changes, readAt, decidedAt,
                    groupsUntil, scopeUntil>>

Never == 0 - Ttl - ResolveTime

\* user_permission_schema, by its user and what it allows.
Schemas == [user : Users, scopes : SUBSET Scopes]

PermissionInit ==
  /\ node = [w \in Workers |-> "idle"]
  /\ user = [w \in Workers |-> None] /\ access = [w \in Workers |-> "in_progress"]
  /\ found = [w \in Workers |-> None] /\ groups = [w \in Workers |-> FALSE]
  /\ schema = [w \in Workers |-> None]
  /\ cache = [u \in Users |-> None]
  /\ directory = [u \in Users |-> [groups |-> TRUE, scopes |-> Scopes]]
  /\ clock = 0 /\ changes = 0
  /\ readAt = [w \in Workers |-> 0] /\ decidedAt = [w \in Workers |-> 0]
  /\ groupsUntil = [u \in Users |-> Never]
  /\ scopeUntil = [u \in Users |-> [s \in Scopes |-> Never]]

-----------------------------------------------------------------------------
(* The directory and the clock *)

ChangeDirectory == \E u \in Users, g \in BOOLEAN, allowed \in SUBSET Scopes :
  /\ changes < MaxChanges /\ changes' = changes + 1
  /\ directory' = [directory EXCEPT ![u] = [groups |-> g, scopes |-> allowed]]
  /\ directory' # directory
  /\ groupsUntil' = [groupsUntil EXCEPT ![u] = IF directory[u].groups THEN clock ELSE @]
  /\ scopeUntil' = [scopeUntil EXCEPT ![u] =
       [s \in Scopes |-> IF s \in directory[u].scopes THEN clock ELSE @[s]]]
  /\ UNCHANGED <<node, user, access, found, groups, schema, cache, clock, readAt, decidedAt>>

Resolving == {"resolve_share_drive_permissions", "build_user_permission_schema",
              "cache_permission_schema"}

Tick ==
  /\ clock < MaxClock
  /\ \A w \in Workers : node[w] \in Resolving => clock < readAt[w] + ResolveTime
  /\ clock' = clock + 1
  /\ UNCHANGED <<node, user, access, found, groups, schema, cache, directory,
                 changes, readAt, decidedAt, groupsUntil, scopeUntil>>

-----------------------------------------------------------------------------
(* The nodes.  Once access_status is set the rest pass through to emit. *)

Goes(w, n) == node' = [node EXCEPT ![w] = n]

At(w, n) == node[w] = n /\ UNCHANGED <<user, directory, clock, changes, groupsUntil, scopeUntil>>

FailClosed(w, status) ==
  /\ access' = [access EXCEPT ![w] = status]
  /\ Goes(w, "emit_permission_schema")

\* request_intake and resolve_trusted_identity: the identity is unknown, or
\* the adapter fails, or it is confirmed.
ResolveTrustedIdentity(w) ==
  /\ At(w, "request_intake")
  /\ \/ FailClosed(w, "access_failed")
     \/ Goes(w, "permission_cache_lookup") /\ UNCHANGED access
  /\ UNCHANGED <<found, groups, schema, cache, readAt, decidedAt>>

MutantCacheKey(u) == CHOOSE k \in Users : TRUE

\* build_cache_key: dataset and catalog version are absent from the main graph's
\* state, and the schema version is one constant.
CacheKey(u) == u

PermissionCacheLookup(w) ==
  /\ At(w, "permission_cache_lookup")
  /\ found' = [found EXCEPT ![w] = cache[CacheKey(user[w])]]
  /\ Goes(w, IF found'[w] = None THEN "resolve_user_groups" ELSE "cache_validation")
  /\ UNCHANGED <<access, groups, schema, cache, readAt, decidedAt>>

MutantExpired(entry) == FALSE

Expired(entry) == entry.expires <= clock

\* validate_permission_schema: its other conditions hold of what is built here.
IsSchemaOf(s, u) == s.user = u

CacheValidation(w) ==
  /\ At(w, "cache_validation")
  /\ \/ /\ Expired(found[w])
        /\ Goes(w, "resolve_user_groups")
        /\ UNCHANGED <<access, schema, decidedAt>>
     \/ /\ ~Expired(found[w])
        /\ IF IsSchemaOf(found[w].schema, user[w])
           THEN /\ access' = [access EXCEPT ![w] = "ok"]
                /\ schema' = [schema EXCEPT ![w] = found[w].schema]
                /\ decidedAt' = [decidedAt EXCEPT ![w] = clock]
                /\ Goes(w, "emit_permission_schema")
           ELSE FailClosed(w, "permission_schema_failed") /\ UNCHANGED <<schema, decidedAt>>
  /\ found' = [found EXCEPT ![w] = None]
  /\ UNCHANGED <<groups, cache, readAt>>

ResolveUserGroups(w) ==
  /\ At(w, "resolve_user_groups")
  /\ \/ FailClosed(w, "access_failed") /\ UNCHANGED <<groups, readAt>>
     \/ /\ groups' = [groups EXCEPT ![w] = directory[user[w]].groups]
        /\ readAt' = [readAt EXCEPT ![w] = clock]
        /\ Goes(w, "resolve_share_drive_permissions")
        /\ UNCHANGED access
  /\ UNCHANGED <<found, schema, cache, decidedAt>>

\* Without groups there are no permissions, without permissions no access.  The
\* schema is not yet built: it is what build_user_permission_schema makes of them.
ResolveShareDrivePermissions(w) ==
  LET allowed == IF groups[w] THEN directory[user[w]].scopes ELSE {} IN
  /\ At(w, "resolve_share_drive_permissions")
  /\ \/ FailClosed(w, "access_failed") /\ UNCHANGED schema
     \/ allowed = {} /\ FailClosed(w, "denied") /\ UNCHANGED schema
     \/ /\ allowed # {}
        /\ schema' = [schema EXCEPT ![w] = [user |-> user[w], scopes |-> allowed]]
        /\ Goes(w, "build_user_permission_schema")
        /\ UNCHANGED access
  /\ UNCHANGED <<found, groups, cache, readAt, decidedAt>>

\* build_allowed_resource_map, build_user_permission_schema, validate_permission_schema
BuildUserPermissionSchema(w) ==
  /\ At(w, "build_user_permission_schema")
  /\ IF IsSchemaOf(schema[w], user[w])
     THEN /\ access' = [access EXCEPT ![w] = "ok"]
          /\ decidedAt' = [decidedAt EXCEPT ![w] = clock]
          /\ Goes(w, "cache_permission_schema")
     ELSE FailClosed(w, "permission_schema_failed") /\ UNCHANGED decidedAt
  /\ UNCHANGED <<found, groups, schema, cache, readAt>>

\* Only schemas of access ok are stored, from the time of storing on.
CachePermissionSchema(w) ==
  /\ At(w, "cache_permission_schema")
  /\ cache' = [cache EXCEPT ![CacheKey(user[w])] =
                 [schema |-> schema[w], expires |-> clock + Ttl]]
  /\ Goes(w, "emit_permission_schema")
  /\ UNCHANGED <<access, found, groups, schema, readAt, decidedAt>>

PermissionStep(w) ==
  \/ ResolveTrustedIdentity(w) \/ PermissionCacheLookup(w) \/ CacheValidation(w)
  \/ ResolveUserGroups(w) \/ ResolveShareDrivePermissions(w)
  \/ BuildUserPermissionSchema(w) \/ CachePermissionSchema(w)

-----------------------------------------------------------------------------
(* Properties *)

LastGrouped(u) == IF directory[u].groups THEN clock ELSE groupsUntil[u]

LastGranted(u, s) == IF s \in directory[u].scopes THEN clock ELSE scopeUntil[u][s]

\* A user out of the groups, or without a scope, is decided to have it for less
\* than Ttl + ResolveTime.  Not for less than Ttl: an entry expires counting from
\* when it was stored, and a slow resolution may be stored over a later one.  And
\* group and scope need never have been granted together: they are two reads.
RevocationTakesEffect ==
  \A w \in Workers : access[w] = "ok" =>
    /\ decidedAt[w] < LastGrouped(user[w]) + Ttl + ResolveTime
    /\ \A s \in schema[w].scopes :
         decidedAt[w] < LastGranted(user[w], s) + Ttl + ResolveTime

\* Whatever order requests of several users look up, resolve and store in, what a
\* request finds is its own user's: "wrong_identity_cache" is never reported.
CacheKeepsOwners ==
  \A w \in Workers :
    /\ access[w] # "permission_schema_failed"
    /\ found[w] # None => found[w].schema.user = user[w]

=============================================================================
