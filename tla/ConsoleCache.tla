---------------------------- MODULE ConsoleCache ----------------------------
(***************************************************************************)
(* The query cache of one browser tab of the console (TanStack Query),    *)
(* the session store beside it and the tenant they are about.             *)
(*                                                                         *)
(* Query keys carry neither the user nor the tenant (memberKeys, roleKeys, *)
(* settingsKeys), so a cached list says nothing of whose it is: the code   *)
(* relies on emptying the cache whenever the user or the tenant changes.   *)
(* One query stands for all of them: the members list, which a page        *)
(* ("list") shows and every other page ("other") does not.  Data is        *)
(* abstracted to the user and the tenant it was fetched for and to the     *)
(* version of the tenant's rows it holds.  The current tenant of a user,   *)
(* which the backend stores, is anything whenever the tab reads it: other  *)
(* browsers and the worker that deletes tenants change it at any time.     *)
(*                                                                         *)
(* Pages that the browser restores from its history, and other tabs that   *)
(* log in as somebody else, are not modelled.                              *)
(***************************************************************************)
EXTENDS Naturals, FiniteSets

CONSTANTS
  Users,        \* people who log in on this browser, members of every tenant
  Tenants,      \* tenants the switcher offers
  None,         \* no user, no tenant
  MaxVersion,   \* bound on the writes to the rows of a tenant
  MaxSwitches   \* bound on the tenant switches in flight at one time

ASSUME ConsoleCacheAssumption ==
  /\ None \notin Users \cup Tenants
  /\ MaxVersion \in Nat
  /\ MaxSwitches \in Nat

VARIABLES
  version,      \* the version of the rows of each tenant
  store,        \* user and tenant of the session store (zustand)
  page,         \* the page the tab shows
  entry,        \* what the cache holds under the key of the list
  fetch,        \* the request in flight for that key
  write,        \* a mutation of the rows in flight
  switches,     \* tenant switches whose PUT is in flight
  deleting,     \* the deletion of the tenant is in flight
  rolledBack,   \* since the cache was emptied, a switch has failed and been undone
  resynced,     \* since then, the layout has put another tenant in the store
  acked         \* the last version of each tenant this tab was told it wrote

cacheVars == <<entry, fetch>>
consoleVars == <<version, store, page, entry, fetch, write, switches,
                 deleting, rolledBack, resynced, acked>>

Pages == {"login", "entering", "unassigned", "list", "other"}
Unread == MaxVersion + 1     \* the backend has not read the rows yet

\* "overtaken" is history: an invalidation has found the request on its way and
\* left it alone.
NoEntry == [user |-> None, tenant |-> None, version |-> 0, stale |-> TRUE,
            overtaken |-> FALSE]
NoFetch == [user |-> None, tenant |-> None, version |-> Unread, overtaken |-> FALSE]
NoWrite == [tenant |-> None, version |-> Unread]

\* The tab at the login page, its document just loaded.
ConsoleInit ==
  /\ version = [t \in Tenants |-> 0]
  /\ store = [user |-> None, tenant |-> None]
  /\ page = "login"
  /\ entry = NoEntry
  /\ fetch = NoFetch
  /\ write = NoWrite
  /\ switches = {}
  /\ deleting = FALSE
  /\ rolledBack = FALSE
  /\ resynced = FALSE
  /\ acked = [t \in Tenants |-> 0]

InConsole == page \in {"list", "other"}

-----------------------------------------------------------------------------
(* What the document and the cache do by themselves.                       *)

\* A request for the list as the store stands: its tenant is the X-Tenant
\* header, read when the request leaves.
ListRequest == [user |-> store.user, tenant |-> store.tenant, version |-> Unread,
                overtaken |-> FALSE]

\* Error: invalidating where the code clears.
ClearByInvalidating ==
  /\ entry' = [entry EXCEPT !.stale = TRUE]
  /\ fetch' = NoFetch
  /\ rolledBack' = FALSE /\ resynced' = FALSE

\* queryClient.clear(): every entry goes, and the answers of the requests in
\* flight with them.
ClearCache ==
  /\ entry' = NoEntry
  /\ fetch' = NoFetch
  /\ rolledBack' = FALSE /\ resynced' = FALSE

\* A new document: empty cache, no callbacks left of the old one.
NewDocument ==
  /\ entry' = NoEntry
  /\ fetch' = NoFetch
  /\ write' = NoWrite
  /\ switches' = {}
  /\ deleting' = FALSE
  /\ rolledBack' = FALSE /\ resynced' = FALSE

\* Where an invalidation asks for the list at once: a page shows it, and it is
\* not being loaded for the first time.
AsksAgain == page = "list" /\ (entry # NoEntry \/ fetch = NoFetch)

\* invalidateQueries: the entry is stale, and a list on the page is asked for
\* again, in the place of a refetch under way.  A request for a list that nobody
\* shows, or that has nothing to show yet, goes on, as the query function does
\* not take the signal to abort; its answer will count as fresh.
Invalidate ==
  /\ entry' = [entry EXCEPT !.stale = TRUE]
  /\ \/ AsksAgain /\ fetch' = ListRequest
     \/ ~AsksAgain /\ fetch = NoFetch /\ UNCHANGED fetch
     \/ ~AsksAgain /\ fetch # NoFetch /\ fetch' = [fetch EXCEPT !.overtaken = TRUE]

\* staleTime has passed.
Age ==
  /\ ~entry.stale
  /\ entry' = [entry EXCEPT !.stale = TRUE]
  /\ UNCHANGED <<version, store, page, fetch, write, switches, deleting,
                 rolledBack, resynced, acked>>

\* A page with the query is mounted, or its window gets the focus.
StartFetch ==
  /\ page = "list"
  /\ entry.stale
  /\ fetch = NoFetch
  /\ fetch' = ListRequest
  /\ UNCHANGED <<version, store, page, entry, write, switches, deleting,
                 rolledBack, resynced, acked>>

BackendReads ==
  /\ fetch # NoFetch
  /\ fetch.version = Unread
  /\ fetch' = [fetch EXCEPT !.version = version[fetch.tenant]]
  /\ UNCHANGED <<version, store, page, entry, write, switches, deleting,
                 rolledBack, resynced, acked>>

FetchArrives ==
  /\ fetch.version # Unread
  /\ entry' = [user |-> fetch.user, tenant |-> fetch.tenant,
               version |-> fetch.version, stale |-> FALSE,
               overtaken |-> fetch.overtaken]
  /\ fetch' = NoFetch
  /\ UNCHANGED <<version, store, page, write, switches, deleting,
                 rolledBack, resynced, acked>>

\* The request and its retry have failed: what the cache holds is kept.
FetchFails ==
  /\ fetch # NoFetch
  /\ fetch' = NoFetch
  /\ UNCHANGED <<version, store, page, entry, write, switches, deleting,
                 rolledBack, resynced, acked>>

-----------------------------------------------------------------------------
(* Coming and going.                                                       *)

\* The login form has its answer: the cache is emptied, the session stored.
Login(u, t) ==
  /\ page = "login"
  /\ ClearCache
  /\ store' = [user |-> u, tenant |-> t]
  /\ page' = IF t = None THEN "unassigned" ELSE "entering"
  /\ UNCHANGED <<version, write, switches, deleting, acked>>

\* The protected layout reads the session from the backend, and SessionSync
\* puts it in the store before the page fetches anything.
Sync(t, shown) ==
  \/ t = None /\ page' = "unassigned" /\ UNCHANGED store
  \/ t # None /\ page' = shown /\ store' = [store EXCEPT !.tenant = t]

Enter(t) ==
  /\ page = "entering"
  /\ Sync(t, "list")
  /\ UNCHANGED <<version, cacheVars, write, switches, deleting, rolledBack,
                 resynced, acked>>

\* The header changes the language, which renders the layout once more in the
\* same document: the tenant is again the one that the backend has, and the cache
\* stays.
RenderAgain(t) ==
  /\ InConsole
  /\ Sync(t, page)
  /\ resynced' = (resynced \/ store'.tenant # store.tenant)
  /\ UNCHANGED <<version, cacheVars, write, switches, deleting, rolledBack, acked>>

\* The layout finds that the session was closed elsewhere: a redirect to the
\* login page in the same document.
RenderRefused ==
  /\ page = "entering" \/ InConsole
  /\ page' = "login"
  /\ UNCHANGED <<version, store, cacheVars, write, switches, deleting, rolledBack,
                 resynced, acked>>

\* Links of the console replace the page below the layout and keep the layout.
Navigate ==
  /\ InConsole
  /\ page' = IF page = "list" THEN "other" ELSE "list"
  /\ UNCHANGED <<version, store, cacheVars, write, switches, deleting,
                 rolledBack, resynced, acked>>

\* A document load of a console page: a reload, an address typed, the link of
\* an e-mail.
Reload ==
  /\ page # "login"
  /\ NewDocument
  /\ page' = "entering"
  /\ UNCHANGED <<version, store, acked>>

\* Logout, whether or not the backend answered: clearSession empties the
\* store and the cache; the document stays.
Logout ==
  /\ page # "login"
  /\ ClearCache
  /\ store' = [user |-> None, tenant |-> None]
  /\ page' = "login"
  /\ UNCHANGED <<version, write, switches, deleting, acked>>

\* A refresh was rejected: the store is emptied and "/" loaded as a document.
LoseSession ==
  /\ page # "login"
  /\ NewDocument
  /\ store' = [user |-> None, tenant |-> None]
  /\ page' = "login"
  /\ UNCHANGED <<version, acked>>

-----------------------------------------------------------------------------
(* Mutations of the rows.                                                  *)

Write ==
  /\ page = "list"
  /\ write = NoWrite
  /\ write' = [tenant |-> store.tenant, version |-> Unread]
  /\ UNCHANGED <<version, store, page, cacheVars, switches, deleting,
                 rolledBack, resynced, acked>>

BackendWrites ==
  /\ write.tenant # None
  /\ write.version = Unread
  /\ version[write.tenant] < MaxVersion
  /\ version' = [version EXCEPT ![write.tenant] = @ + 1]
  /\ write' = [write EXCEPT !.version = version'[write.tenant]]
  /\ UNCHANGED <<store, page, cacheVars, switches, deleting,
                 rolledBack, resynced, acked>>

\* onSuccess of the mutation.
WriteArrives ==
  /\ write.version # Unread
  /\ acked' = [acked EXCEPT ![write.tenant] = write.version]
  /\ Invalidate
  /\ write' = NoWrite
  /\ UNCHANGED <<version, store, page, switches, deleting, rolledBack, resynced>>

\* The mutation fails, or its answer is lost: nothing is invalidated.
WriteFails ==
  /\ write # NoWrite
  /\ write' = NoWrite
  /\ UNCHANGED <<version, store, page, cacheVars, switches, deleting,
                 rolledBack, resynced, acked>>

-----------------------------------------------------------------------------
(* Changing the tenant.                                                    *)

\* The switcher: the store has the new tenant before the PUT leaves, and the
\* old one is kept to be put back.
Switch(t) ==
  /\ InConsole
  /\ store.tenant # None
  /\ t # store.tenant
  /\ Cardinality(switches) < MaxSwitches
  /\ switches' = switches \cup {[target |-> t, previous |-> store.tenant]}
  /\ store' = [store EXCEPT !.tenant = t]
  /\ UNCHANGED <<version, page, cacheVars, write, deleting, rolledBack, resynced, acked>>

\* The PUT succeeded: window.location.assign.
SwitchArrives(s) ==
  /\ s \in switches
  /\ NewDocument
  /\ page' = IF page = "login" THEN "login" ELSE "entering"
  /\ UNCHANGED <<version, store, acked>>

\* The PUT failed: the store gets the old tenant back, and the cache keeps
\* what it holds.
SwitchFails(s) ==
  /\ s \in switches
  /\ switches' = switches \ {s}
  /\ store' = [store EXCEPT !.tenant = s.previous]
  /\ rolledBack' = TRUE
  /\ UNCHANGED <<version, page, cacheVars, write, deleting, resynced, acked>>

\* The settings page deletes the tenant ...
Delete ==
  /\ page = "other"
  /\ ~deleting
  /\ deleting' = TRUE
  /\ UNCHANGED <<version, store, page, cacheVars, write, switches,
                 rolledBack, resynced, acked>>

\* ... and is told that the backend took the request: clearTenant, then
\* "/unassigned", a page outside the layout, in the same document (the proxy
\* sends it on to the login page if the session has gone meanwhile).
DeleteArrives ==
  /\ deleting
  /\ deleting' = FALSE
  /\ store' = [store EXCEPT !.tenant = None]
  /\ page' = IF page = "login" THEN "login" ELSE "unassigned"
  /\ UNCHANGED <<version, cacheVars, write, switches, rolledBack, resynced, acked>>

DeleteFails ==
  /\ deleting
  /\ deleting' = FALSE
  /\ UNCHANGED <<version, store, page, cacheVars, write, switches,
                 rolledBack, resynced, acked>>

-----------------------------------------------------------------------------
(* Other browsers.                                                         *)

OthersWrite(t) ==
  /\ version[t] < MaxVersion
  /\ version' = [version EXCEPT ![t] = @ + 1]
  /\ UNCHANGED <<store, page, cacheVars, write, switches, deleting,
                 rolledBack, resynced, acked>>

ConsoleNext ==
  \/ Age \/ StartFetch \/ BackendReads \/ FetchArrives \/ FetchFails
  \/ \E t \in Tenants \cup {None} :
       Enter(t) \/ RenderAgain(t) \/ \E u \in Users : Login(u, t)
  \/ RenderRefused \/ Navigate \/ Reload \/ Logout \/ LoseSession
  \/ Write \/ BackendWrites \/ WriteArrives \/ WriteFails
  \/ \E t \in Tenants : Switch(t)
  \/ \E s \in switches : SwitchArrives(s) \/ SwitchFails(s)
  \/ Delete \/ DeleteArrives \/ DeleteFails
  \/ \E t \in Tenants : OthersWrite(t)

ConsoleSpec == ConsoleInit /\ [][ConsoleNext]_consoleVars

-----------------------------------------------------------------------------
MaybeUser == Users \cup {None}
MaybeTenant == Tenants \cup {None}

\* Type correctness of the tab and of the part of the backend it uses.
ConsoleTypeOK ==
  /\ version \in [Tenants -> 0..MaxVersion]
  /\ store \in [user : MaybeUser, tenant : MaybeTenant]
  /\ page \in Pages
  /\ entry \in [user : MaybeUser, tenant : MaybeTenant,
                version : 0..MaxVersion, stale : BOOLEAN, overtaken : BOOLEAN]
  /\ fetch \in [user : MaybeUser, tenant : MaybeTenant, version : 0..Unread,
                overtaken : BOOLEAN]
  /\ write \in [tenant : MaybeTenant, version : 0..Unread]
  /\ switches \subseteq [target : Tenants, previous : Tenants]
  /\ deleting \in BOOLEAN
  /\ rolledBack \in BOOLEAN
  /\ resynced \in BOOLEAN
  /\ acked \in [Tenants -> 0..MaxVersion]

Shown == page = "list" /\ entry # NoEntry

\* What a page shows, or is about to be given, was fetched for the user of
\* the session: a login in a document that somebody else has used shows
\* nothing of theirs, whatever was in flight when they left
\* (session-context.tsx, login-view.tsx: the cache-scope rule).
UserScope ==
  InConsole =>
    /\ entry # NoEntry => entry.user = store.user
    /\ fetch # NoFetch => fetch.user = store.user

\* A list that counts as fresh holds every write this tab was told of: the
\* answer of a request that the backend had read before the write cannot
\* replace it (the onSuccess of the mutations).  Except where the invalidation
\* found that request on its way and left it alone, as it does with a list that no
\* page shows or that is being loaded for the first time: then the answer makes
\* what it replaces count as fresh, for as long as the staleTime.
FreshHoldsOwnWrites ==
  (entry # NoEntry /\ ~entry.stale /\ ~entry.overtaken)
    => entry.version >= acked[entry.tenant]

\* With no switch under way, the list shown is that of the tenant in the
\* store: the document loaded after a switch knows nothing of the tenant before
\* it (tenant-head.tsx).  Except after a switch that failed, or after the layout was
\* rendered again for a tenant that was changed elsewhere: both set the tenant
\* over a cache that stays.
SwitchLeavesNothing ==
  (Shown /\ switches = {} /\ ~rolledBack /\ ~resynced) => entry.tenant = store.tenant

\* Nothing is shown outside the scope it was fetched in, whatever was in flight when
\* the user or the tenant changed, nor as fresh what an own write has overtaken (the
\* three rules above together).
CacheInScope == UserScope /\ SwitchLeavesNothing /\ FreshHoldsOwnWrites

\* What the scope rule rests on: a page is entered with an empty cache, the console
\* always has a tenant, and with no switch under way what the cache holds and what it
\* waits for are of that tenant.
ScopeKept ==
  /\ page = "entering" => entry = NoEntry /\ fetch = NoFetch
  /\ InConsole => store.tenant # None
  /\ InConsole /\ switches = {} /\ ~rolledBack /\ ~resynced =>
       /\ entry # NoEntry => entry.tenant = store.tenant
       /\ fetch # NoFetch => fetch.tenant = store.tenant

\* What the rule on own writes rests on: rows that were read after them hold them.
ReadsHoldWrites ==
  /\ \A t \in Tenants : acked[t] <= version[t]
  /\ fetch # NoFetch => fetch.tenant # None
  /\ fetch.version # Unread /\ ~fetch.overtaken => acked[fetch.tenant] <= fetch.version
  /\ ~entry.stale => entry.tenant # None
  /\ write # NoWrite => write.tenant # None
  /\ write.version # Unread => write.version <= version[write.tenant]

\* Inductive.
CacheInv == ConsoleTypeOK /\ ScopeKept /\ UserScope /\ ReadsHoldWrites /\ FreshHoldsOwnWrites

\* The second without the exception of a failed switch, as arquitectura-frontend.md
\* has it: every change of scope destroys the cache, as no key is scoped.  (Of the
\* two ways around the rule, the run shows this one.)
ShownBelongsToTenant ==
  (Shown /\ switches = {} /\ ~resynced) => entry.tenant = store.tenant

=============================================================================
