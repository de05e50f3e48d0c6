---------------------------- MODULE ConsoleProofs ----------------------------
(***************************************************************************)
(* Proofs about the console: its query cache, its member dialog and its    *)
(* forms, for any users, tenants, members and fields and any bounds, and   *)
(* the check of the imports of its source, for any files and paths.        *)
(***************************************************************************)
EXTENDS ConsoleCache, MemberDialog, ConsoleForms, ImportBoundaries, FiniteSetTheorems,
        SequenceTheorems, TLAPS

-----------------------------------------------------------------------------
(* The query cache.                                                        *)

LEMMA CacheTypes ==
  /\ NoEntry \in [user : MaybeUser, tenant : MaybeTenant, version : 0..MaxVersion,
                  stale : BOOLEAN, overtaken : BOOLEAN]
  /\ NoFetch \in [user : MaybeUser, tenant : MaybeTenant, version : 0..Unread,
                  overtaken : BOOLEAN]
  /\ NoWrite \in [tenant : MaybeTenant, version : 0..Unread]
BY ConsoleCacheAssumption DEF NoEntry, NoFetch, NoWrite, Unread, MaybeUser, MaybeTenant

LEMMA ListRequestType ==
  ASSUME ConsoleTypeOK
  PROVE  /\ ListRequest \in [user : MaybeUser, tenant : MaybeTenant, version : 0..Unread,
                            overtaken : BOOLEAN]
         /\ ListRequest.user = store.user /\ ListRequest.tenant = store.tenant
         /\ ListRequest.version = Unread
<1>1. store.user \in MaybeUser /\ store.tenant \in MaybeTenant
  BY DEF ConsoleTypeOK
<1> QED
  BY <1>1, ConsoleCacheAssumption DEF ListRequest, Unread

LEMMA CacheStarts == ConsoleInit => CacheInv
<1> SUFFICES ASSUME ConsoleInit PROVE CacheInv
  OBVIOUS
<1> USE ConsoleCacheAssumption DEF ConsoleInit
<1>1. ConsoleTypeOK
  <2>1. version \in [Tenants -> 0..MaxVersion] /\ acked \in [Tenants -> 0..MaxVersion]
    OBVIOUS
  <2>2. store \in [user : MaybeUser, tenant : MaybeTenant]
    BY DEF MaybeUser, MaybeTenant
  <2> QED
    BY <2>1, <2>2, CacheTypes DEF ConsoleTypeOK, Pages
<1>2. ScopeKept /\ UserScope
  BY DEF ScopeKept, UserScope, InConsole
<1>3. ReadsHoldWrites /\ FreshHoldsOwnWrites
  BY DEF ReadsHoldWrites, FreshHoldsOwnWrites, NoEntry, NoFetch, NoWrite, Unread
<1> QED
  BY <1>1, <1>2, <1>3 DEF CacheInv

LEMMA CacheTypeStep == CacheInv /\ [ConsoleNext]_consoleVars => ConsoleTypeOK'
<1> SUFFICES ASSUME CacheInv, [ConsoleNext]_consoleVars PROVE ConsoleTypeOK'
  OBVIOUS
<1> USE ConsoleCacheAssumption, CacheTypes, ListRequestType DEF CacheInv, ConsoleTypeOK
<1>1. CASE UNCHANGED consoleVars
  BY <1>1 DEF consoleVars
<1>2. CASE Age \/ StartFetch \/ FetchFails
  BY <1>2 DEF Age, StartFetch, FetchFails
<1>3. CASE BackendReads
  BY <1>3 DEF BackendReads, ReadsHoldWrites, MaybeTenant, Unread
<1>4. CASE FetchArrives
  BY <1>4 DEF FetchArrives, Unread
<1>5. ASSUME NEW t \in Tenants \cup {None}, Enter(t) PROVE ConsoleTypeOK'
  BY <1>5 DEF Enter, Sync, cacheVars, MaybeTenant, MaybeUser, Pages
<1>6. ASSUME NEW u \in Users, NEW t \in Tenants \cup {None}, Login(u, t) PROVE ConsoleTypeOK'
  BY <1>6 DEF Login, ClearCache, MaybeTenant, MaybeUser, Pages
<1>7. CASE Navigate \/ Reload \/ Logout \/ LoseSession
  <2>1. CASE Navigate
    BY <2>1 DEF Navigate, cacheVars, Pages
  <2>2. CASE Reload
    BY <2>2 DEF Reload, NewDocument, Pages
  <2>3. CASE Logout
    BY <2>3 DEF Logout, ClearCache, MaybeTenant, MaybeUser, Pages
  <2>4. CASE LoseSession
    BY <2>4 DEF LoseSession, NewDocument, MaybeTenant, MaybeUser, Pages
  <2> QED
    BY <1>7, <2>1, <2>2, <2>3, <2>4
<1>8. CASE Write
  BY <1>8 DEF Write, cacheVars, Unread
<1>9. CASE BackendWrites
  BY <1>9 DEF BackendWrites, cacheVars, Unread, MaybeTenant
<1>10. CASE WriteArrives
  <2>1. entry' \in [user : MaybeUser, tenant : MaybeTenant, version : 0..MaxVersion,
                    stale : BOOLEAN, overtaken : BOOLEAN]
    BY <1>10 DEF WriteArrives, Invalidate
  <2>2. fetch' \in [user : MaybeUser, tenant : MaybeTenant, version : 0..Unread,
                    overtaken : BOOLEAN]
    BY <1>10 DEF WriteArrives, Invalidate
  <2>3. acked' \in [Tenants -> 0..MaxVersion]
    <3>1. write.version \in 0..MaxVersion
      BY <1>10 DEF WriteArrives, Unread
    <3> QED
      BY <1>10, <3>1 DEF WriteArrives
  <2> QED
    BY <1>10, <2>1, <2>2, <2>3 DEF WriteArrives
<1>11. CASE WriteFails \/ Delete \/ DeleteFails
  BY <1>11 DEF WriteFails, Delete, DeleteFails, cacheVars
<1>12. ASSUME NEW t \in Tenants, Switch(t) PROVE ConsoleTypeOK'
  BY <1>12 DEF Switch, cacheVars, MaybeTenant
<1>13. ASSUME NEW s \in switches, SwitchArrives(s) PROVE ConsoleTypeOK'
  BY <1>13 DEF SwitchArrives, NewDocument, Pages
<1>14. ASSUME NEW s \in switches, SwitchFails(s) PROVE ConsoleTypeOK'
  BY <1>14 DEF SwitchFails, cacheVars, MaybeTenant
<1>15. CASE DeleteArrives
  <2>1. page' \in Pages
    BY <1>15 DEF DeleteArrives, Pages
  <2>2. store' \in [user : MaybeUser, tenant : MaybeTenant]
    BY <1>15 DEF DeleteArrives, MaybeTenant
  <2> QED
    BY <1>15, <2>1, <2>2 DEF DeleteArrives, cacheVars
<1>16. ASSUME NEW t \in Tenants, OthersWrite(t) PROVE ConsoleTypeOK'
  BY <1>16 DEF OthersWrite, cacheVars
<1>17. ASSUME NEW t \in Tenants \cup {None}, RenderAgain(t) PROVE ConsoleTypeOK'
  <2>1. store' \in [user : MaybeUser, tenant : MaybeTenant] /\ page' \in Pages
    BY <1>17 DEF RenderAgain, Sync, MaybeTenant, Pages
  <2>2. resynced' \in BOOLEAN
    BY <1>17, Zenon DEF RenderAgain
  <2> QED
    BY <1>17, <2>1, <2>2 DEF RenderAgain, cacheVars
<1>18. CASE RenderRefused
  BY <1>18 DEF RenderRefused, cacheVars, Pages
<1> QED
  BY <1>1, <1>2, <1>3, <1>4, <1>5, <1>6, <1>7, <1>8, <1>9, <1>10, <1>11, <1>12, <1>13, <1>14,
     <1>15, <1>16, <1>17, <1>18 DEF ConsoleNext

\* The rule of scope.
LEMMA ScopeStep ==
  CacheInv /\ [ConsoleNext]_consoleVars => ScopeKept' /\ UserScope'
<1> SUFFICES ASSUME CacheInv, [ConsoleNext]_consoleVars PROVE ScopeKept' /\ UserScope'
  OBVIOUS
<1> USE ConsoleCacheAssumption, ListRequestType DEF CacheInv, ScopeKept, UserScope, InConsole
<1>1. CASE UNCHANGED consoleVars
  BY <1>1 DEF consoleVars
<1>2. CASE Age
  BY <1>2 DEF Age, ConsoleTypeOK, NoEntry
<1>3. CASE StartFetch
  BY <1>3 DEF StartFetch
<1>4. CASE BackendReads
  BY <1>4 DEF BackendReads, ConsoleTypeOK
<1>5. CASE FetchArrives
  BY <1>5 DEF FetchArrives, NoFetch
<1>6. CASE FetchFails
  BY <1>6 DEF FetchFails
<1>7. ASSUME NEW t \in Tenants \cup {None}, Enter(t) PROVE ScopeKept' /\ UserScope'
  BY <1>7 DEF Enter, Sync, cacheVars, ConsoleTypeOK
<1>8. ASSUME NEW u \in Users, NEW t \in Tenants \cup {None}, Login(u, t)
      PROVE  ScopeKept' /\ UserScope'
  BY <1>8 DEF Login, ClearCache
<1>9. CASE Navigate \/ Reload \/ Logout \/ LoseSession
  BY <1>9 DEF Navigate, Reload, Logout, LoseSession, NewDocument, ClearCache, cacheVars
<1>10. CASE Write \/ BackendWrites \/ WriteFails \/ Delete \/ DeleteFails
  BY <1>10 DEF Write, BackendWrites, WriteFails, Delete, DeleteFails, cacheVars
<1>11. CASE WriteArrives
  <2>1. /\ entry' # NoEntry => entry # NoEntry
        /\ entry'.user = entry.user /\ entry'.tenant = entry.tenant
    <3>1. [NoEntry EXCEPT !.stale = TRUE] = NoEntry
      <4>1. [NoEntry EXCEPT !.stale = TRUE] =
              [f \in {"user", "tenant", "version", "stale", "overtaken"} |->
                 IF f = "stale" THEN TRUE ELSE NoEntry[f]]
        BY DEF NoEntry
      <4>2. NoEntry = [f \in {"user", "tenant", "version", "stale", "overtaken"} |-> NoEntry[f]]
        BY DEF NoEntry
      <4>3. NoEntry["stale"] = TRUE
        BY DEF NoEntry
      <4> QED
        BY <4>1, <4>2, <4>3
    <3>2. entry' = [entry EXCEPT !.stale = TRUE]
      BY <1>11 DEF WriteArrives, Invalidate
    <3>3. entry'.user = entry.user /\ entry'.tenant = entry.tenant
      BY <3>2 DEF ConsoleTypeOK
    <3> QED
      BY <3>1, <3>2, <3>3
  <2>2. UNCHANGED <<page, store, switches, rolledBack, resynced>>
    BY <1>11 DEF WriteArrives
  <2>3. \/ fetch' = ListRequest /\ page = "list"
        \/ fetch' = fetch
        \/ /\ fetch # NoFetch
           /\ fetch'.user = fetch.user /\ fetch'.tenant = fetch.tenant
    BY <1>11 DEF WriteArrives, Invalidate, AsksAgain, ConsoleTypeOK
  <2> QED
    BY <2>1, <2>2, <2>3
<1>12. ASSUME NEW t \in Tenants, Switch(t) PROVE ScopeKept' /\ UserScope'
  BY <1>12 DEF Switch, cacheVars, ConsoleTypeOK
<1>13. ASSUME NEW s \in switches, SwitchArrives(s) PROVE ScopeKept' /\ UserScope'
  BY <1>13 DEF SwitchArrives, NewDocument
<1>14. ASSUME NEW s \in switches, SwitchFails(s) PROVE ScopeKept' /\ UserScope'
  BY <1>14 DEF SwitchFails, cacheVars, ConsoleTypeOK
<1>15. CASE DeleteArrives
  BY <1>15 DEF DeleteArrives, cacheVars
<1>16. ASSUME NEW t \in Tenants, OthersWrite(t) PROVE ScopeKept' /\ UserScope'
  BY <1>16 DEF OthersWrite, cacheVars
<1>17. ASSUME NEW t \in Tenants \cup {None}, RenderAgain(t) PROVE ScopeKept' /\ UserScope'
  <2>1. store'.user = store.user /\ (InConsole' => page' = page)
    BY <1>17 DEF RenderAgain, Sync, ConsoleTypeOK
  <2>2. CASE t = None
    BY <1>17, <2>2 DEF RenderAgain, Sync, cacheVars
  <2>3. CASE t # None
    <3>1. store'.tenant = t /\ (store'.tenant # store.tenant => resynced')
      BY <1>17, <2>3 DEF RenderAgain, Sync, ConsoleTypeOK
    <3>2. ~resynced' => ~resynced /\ store'.tenant = store.tenant
      BY <1>17 DEF RenderAgain
    <3> QED
      BY <1>17, <2>1, <2>3, <3>1, <3>2 DEF RenderAgain, Sync, cacheVars
  <2> QED
    BY <2>2, <2>3
<1>18. CASE RenderRefused
  BY <1>18 DEF RenderRefused, cacheVars
<1> QED
  BY <1>1, <1>2, <1>3, <1>4, <1>5, <1>6, <1>7, <1>8, <1>9, <1>10, <1>11, <1>12, <1>13, <1>14,
     <1>15, <1>16, <1>17, <1>18 DEF ConsoleNext

\* The rule on own writes.
LEMMA OwnWritesStep ==
  CacheInv /\ [ConsoleNext]_consoleVars => ReadsHoldWrites' /\ FreshHoldsOwnWrites'
<1> SUFFICES ASSUME CacheInv, [ConsoleNext]_consoleVars
             PROVE  ReadsHoldWrites' /\ FreshHoldsOwnWrites'
  OBVIOUS
<1> USE ConsoleCacheAssumption, CacheTypes, ListRequestType
    DEF CacheInv, ConsoleTypeOK, ReadsHoldWrites, FreshHoldsOwnWrites
<1>1. CASE UNCHANGED consoleVars
  BY <1>1 DEF consoleVars
<1>2. CASE Age
  BY <1>2 DEF Age
<1>3. CASE StartFetch
  BY <1>3 DEF StartFetch, ScopeKept, InConsole
<1>4. CASE BackendReads
  BY <1>4 DEF BackendReads, MaybeTenant
<1>5. CASE FetchArrives
  <2>1. /\ fetch.tenant \in Tenants
        /\ ~fetch.overtaken => acked[fetch.tenant] <= fetch.version
    BY <1>5 DEF FetchArrives, NoFetch, MaybeTenant
  <2> QED
    BY <1>5, <2>1 DEF FetchArrives, NoFetch
<1>6. CASE FetchFails
  BY <1>6 DEF FetchFails, NoFetch
<1>7. ASSUME NEW t \in Tenants \cup {None}, Enter(t) PROVE ReadsHoldWrites' /\ FreshHoldsOwnWrites'
  BY <1>7 DEF Enter, cacheVars
<1>8. ASSUME NEW u \in Users, NEW t \in Tenants \cup {None}, Login(u, t)
      PROVE  ReadsHoldWrites' /\ FreshHoldsOwnWrites'
  BY <1>8 DEF Login, ClearCache, NoEntry, NoFetch
<1>9. CASE Navigate
  BY <1>9 DEF Navigate, cacheVars
<1>10. CASE Reload \/ LoseSession
  BY <1>10 DEF Reload, LoseSession, NewDocument, NoEntry, NoFetch, NoWrite
<1>11. CASE Logout
  BY <1>11 DEF Logout, ClearCache, NoEntry, NoFetch
<1>12. CASE Write
  BY <1>12 DEF Write, cacheVars, ScopeKept, InConsole
<1>13. CASE BackendWrites
  BY <1>13 DEF BackendWrites, cacheVars, MaybeTenant
<1>14. CASE WriteArrives
  BY <1>14 DEF WriteArrives, Invalidate, AsksAgain, NoWrite, NoFetch, MaybeTenant, ScopeKept,
               InConsole
<1>15. CASE WriteFails
  BY <1>15 DEF WriteFails, NoWrite, cacheVars
<1>16. CASE Delete \/ DeleteArrives \/ DeleteFails
  BY <1>16 DEF Delete, DeleteArrives, DeleteFails, cacheVars
<1>17. ASSUME NEW t \in Tenants, Switch(t) PROVE ReadsHoldWrites' /\ FreshHoldsOwnWrites'
  BY <1>17 DEF Switch, cacheVars
<1>18. ASSUME NEW s \in switches, SwitchArrives(s) PROVE ReadsHoldWrites' /\ FreshHoldsOwnWrites'
  BY <1>18 DEF SwitchArrives, NewDocument, NoEntry, NoFetch, NoWrite
<1>19. ASSUME NEW s \in switches, SwitchFails(s) PROVE ReadsHoldWrites' /\ FreshHoldsOwnWrites'
  BY <1>19 DEF SwitchFails, cacheVars
<1>20. ASSUME NEW t \in Tenants, OthersWrite(t) PROVE ReadsHoldWrites' /\ FreshHoldsOwnWrites'
  BY <1>20 DEF OthersWrite, cacheVars, MaybeTenant
<1>21. ASSUME NEW t \in Tenants \cup {None}, RenderAgain(t)
       PROVE  ReadsHoldWrites' /\ FreshHoldsOwnWrites'
  BY <1>21 DEF RenderAgain, cacheVars
<1>22. CASE RenderRefused
  BY <1>22 DEF RenderRefused, cacheVars
<1> QED
  BY <1>1, <1>2, <1>3, <1>4, <1>5, <1>6, <1>7, <1>8, <1>9, <1>10, <1>11, <1>12, <1>13, <1>14,
     <1>15, <1>16, <1>17, <1>18, <1>19, <1>20, <1>21, <1>22 DEF ConsoleNext

\* Nothing is shown outside the scope it was fetched in, nor as fresh what an own write has
\* overtaken, whatever was in flight when the user or the tenant changed: but for a tenant
\* that a failed switch or a new rendering of the layout put over a cache that stays, and
\* for the answer of a request that the invalidation found on its way and left alone.
THEOREM CacheStaysInScope == ConsoleSpec => []CacheInScope
<1>1. CacheInv /\ [ConsoleNext]_consoleVars => CacheInv'
  BY CacheTypeStep, ScopeStep, OwnWritesStep DEF CacheInv
<1>2. CacheInv => CacheInScope
  BY DEF CacheInv, CacheInScope, ScopeKept, SwitchLeavesNothing, Shown, InConsole
<1> QED
  BY <1>1, <1>2, CacheStarts, PTL DEF ConsoleSpec

-----------------------------------------------------------------------------
(* The member dialog.                                                      *)

\* Rows are functions of the members they are of.
LEMMA RowsOfDomain ==
  ASSUME NEW l \in RowsOf
  PROVE  /\ DOMAIN l \in SUBSET Members /\ l \in [DOMAIN l -> [Columns -> Values]]
         /\ \A m \in DOMAIN l : l[m] \in [Columns -> Values]
BY DEF RowsOf

LEMMA RowsOfSome ==
  ASSUME NEW S \in SUBSET Members, NEW l \in [S -> [Columns -> Values]]
  PROVE  l \in RowsOf
BY DEF RowsOf

LEMMA NoRowTypes == NoRow \in RowsOf /\ NoRow \in Payloads /\ NoRow \in [{} -> Values]
<1>1. NoRow \in [{} -> Values] /\ NoRow \in [{} -> [Columns -> Values]]
  BY DEF NoRow
<1> QED
  BY <1>1 DEF RowsOf, Payloads

LEMMA RefetchTypes ==
  LET Sent(w) == [phase |-> "sent", rows |-> NoRow, waited |-> w]
      Refetches == [phase : {"none", "sent", "read"}, rows : RowsOf, waited : BOOLEAN] IN
  /\ Sent(TRUE) \in Refetches /\ Sent(TRUE).waited
  /\ Sent(FALSE) \in Refetches /\ ~Sent(FALSE).waited
  /\ NoRefetch \in Refetches /\ ~NoRefetch.waited
BY NoRowTypes DEF NoRefetch

\* The dialog is given a row of the list, or nobody.
LEMMA GivenRow ==
  ASSUME NEW who \in Anyone, NEW l \in RowsOf
  PROVE  \/ Given(who, l) = NoMember /\ DOMAIN DraftOf(Given(who, l)) = {}
         \/ /\ Given(who, l) # NoMember
            /\ DraftOf(Given(who, l)) \in [Fields -> Values]
            /\ \A f \in Fields : DraftOf(Given(who, l))[f] = Given(who, l).row[f]
<1>1. CASE who \in DOMAIN l
  <2>1. who \in Members /\ l[who] \in [Columns -> Values]
    BY <1>1, RowsOfDomain
  <2>2. Given(who, l).who = who /\ Given(who, l).row = l[who] /\ NoMember.who = NoOne
    BY <1>1 DEF Given, NoMember
  <2>3. DOMAIN Given(who, l).row \ {Photo} = Fields
    BY <2>1, <2>2, MemberDialogAssumption DEF Columns
  <2>4. \A f \in Fields : f \in Columns
    BY DEF Columns
  <2>5. /\ DraftOf(Given(who, l)) \in [Fields -> Values]
        /\ \A f \in Fields : DraftOf(Given(who, l))[f] = Given(who, l).row[f]
    BY <2>1, <2>2, <2>3, <2>4 DEF DraftOf
  <2> QED
    BY <2>1, <2>2, <2>5, MemberDialogAssumption
<1>2. CASE who \notin DOMAIN l
  BY <1>2 DEF Given, NoMember, NoRow, DraftOf
<1> QED
  BY <1>1, <1>2

\* Whatever it is given, the draft is filled when that changes.
LEMMA FillKeeps ==
  ASSUME MemberTypeOK, DraftInv, NEW who \in Anyone, NEW l \in RowsOf, Fill(who, l)
  PROVE  /\ given' = Given(who, l) /\ touched' \subseteq Fields /\ DraftInv'
         /\ draft' \in [IF Displayed' THEN Fields ELSE {} -> Values]
<1>1. CASE Given(who, l) = given
  BY <1>1 DEF Fill, MemberTypeOK, DraftInv, Displayed
<1>2. CASE Given(who, l) # given
  <2>1. given' = Given(who, l) /\ draft' = DraftOf(Given(who, l)) /\ touched' = {}
    BY <1>2 DEF Fill
  <2>2. CASE Given(who, l) = NoMember
    BY <2>1, <2>2, GivenRow DEF DraftInv, Displayed, DraftOf
  <2>3. CASE Given(who, l) # NoMember
    BY <2>1, <2>3, GivenRow DEF DraftInv, Displayed
  <2> QED
    BY <2>1, <2>2, <2>3
<1> QED
  BY <1>1, <1>2

\* Each step that fills the dialog.
LEMMA FillStep ==
  ASSUME MemberInv, NEW who \in Anyone, NEW l \in RowsOf, Fill(who, l), list' = l,
         editing' = who
  PROVE  /\ list' \in RowsOf /\ editing' \in Anyone /\ given' = Given(editing', list')
         /\ touched' \subseteq Fields /\ DraftInv'
         /\ draft' \in [IF Displayed' THEN Fields ELSE {} -> Values]
BY FillKeeps DEF MemberInv

\* The writes of the backend.
LEMMA RowsStep ==
  ASSUME MemberTypeOK,
         \/ BackendSaves \/ BackendAnswers
         \/ \E m \in Members, f \in Fields, v \in Values : OtherWrites(m, f, v)
         \/ \E m \in Members : OtherRemoves(m)
  PROVE  rows' \in RowsOf
<1>0. DOMAIN rows \in SUBSET Members /\ rows \in [DOMAIN rows -> [Columns -> Values]]
  BY RowsOfDomain DEF MemberTypeOK
<1>1. ASSUME NEW m, NEW row \in [Columns -> Values], rows' = [rows EXCEPT ![m] = row]
      PROVE  rows' \in RowsOf
  <2>1. rows' \in [DOMAIN rows -> [Columns -> Values]]
    BY <1>0, <1>1
  <2> QED
    BY <1>0, <2>1, RowsOfSome
<1>2. ASSUME NEW m, rows' = RowsWithout(m) PROVE rows' \in RowsOf
  <2>1. rows' \in [DOMAIN rows \ {m} -> [Columns -> Values]]
    BY <1>0, <1>2 DEF RowsWithout
  <2> QED
    BY <1>0, <2>1, RowsOfSome
<1>3. ASSUME NEW m \in DOMAIN rows, NEW f, NEW v \in Values, rows' = [rows EXCEPT ![m][f] = v]
      PROVE  rows' \in RowsOf
  <2>1. [rows[m] EXCEPT ![f] = v] \in [Columns -> Values]
    BY RowsOfDomain DEF MemberTypeOK
  <2> QED
    BY <1>1, <1>3, <2>1
<1>4. CASE BackendSaves
  <2> DEFINE row == [f \in Columns |-> IF f \in DOMAIN saving.payload
                                      THEN saving.payload[f] ELSE rows[saving.who][f]]
  <2>1. rows[saving.who] \in [Columns -> Values]
    BY <1>4, RowsOfDomain DEF BackendSaves, MemberTypeOK
  <2>2. \A f \in DOMAIN saving.payload : saving.payload[f] \in Values
    BY DEF MemberTypeOK, Payloads
  <2>3. row \in [Columns -> Values]
    BY <2>1, <2>2
  <2>4. rows' = [rows EXCEPT ![saving.who] = row]
    BY <1>4 DEF BackendSaves
  <2> QED
    BY <1>1, <2>3, <2>4
<1>5. CASE BackendAnswers
  BY <1>2, <1>3, <1>5 DEF BackendAnswers
<1>6. ASSUME NEW m \in Members, NEW f \in Fields, NEW v \in Values, OtherWrites(m, f, v)
      PROVE  rows' \in RowsOf
  BY <1>3, <1>6 DEF OtherWrites
<1>7. ASSUME NEW m \in Members, OtherRemoves(m) PROVE rows' \in RowsOf
  BY <1>2, <1>7 DEF OtherRemoves
<1> QED
  BY <1>4, <1>5, <1>6, <1>7

LEMMA MemberStarts == MemberInit => MemberInv
<1> SUFFICES ASSUME MemberInit PROVE MemberInv
  OBVIOUS
<1> USE MemberDialogAssumption DEF MemberInit
<1>1. rows \in RowsOf /\ list \in RowsOf
  <2>1. rows \in [Members -> [Columns -> Values]] /\ list = rows
    OBVIOUS
  <2> QED
    BY <2>1, RowsOfSome
<1>2. given = Given(editing, list) /\ ~Displayed
  BY DEF Given, Displayed
<1>3. refetch \in [phase : {"none", "sent", "read"}, rows : RowsOf, waited : BOOLEAN]
  BY NoRowTypes DEF NoRefetch
<1>4. saving \in [phase : {"none", "sent", "done", "settling"}, who : Anyone, payload : Payloads]
  BY NoRowTypes DEF NoSave, Anyone
<1>5. call \in [phase : {"none", "sent", "done"}, who : Anyone,
                kind : {"none", "photo", "role", "remove"}]
  BY DEF NoCall, Anyone
<1>6. MemberTypeOK
  BY <1>1, <1>2, <1>3, <1>4, <1>5, NoRowTypes DEF MemberTypeOK, Anyone
<1>7. DraftInv /\ (refetch.waited <=> saving.phase = "settling")
  BY <1>2 DEF DraftInv, NoRefetch, NoSave
<1> QED
  BY <1>6, <1>7 DEF MemberInv

LEMMA MemberStep == MemberInv /\ [MemberNext]_memberVars => MemberInv'
<1> SUFFICES ASSUME MemberInv, [MemberNext]_memberVars PROVE MemberInv'
  OBVIOUS
<1> USE MemberDialogAssumption
<1>0. /\ NoOne \in Anyone /\ editing \in Anyone /\ list \in RowsOf
      /\ refetch.rows \in RowsOf /\ refetch.waited \in BOOLEAN
  BY DEF MemberInv, MemberTypeOK, Anyone
<1>1. CASE UNCHANGED memberVars
  BY <1>1 DEF memberVars, MemberInv, MemberTypeOK, DraftInv, Displayed
\* The steps that do not touch the dialog.
<1>2. ASSUME UNCHANGED <<list, editing, given, draft, touched>>, rows' \in RowsOf,
             refetch' \in [phase : {"none", "sent", "read"}, rows : RowsOf, waited : BOOLEAN],
             saving' \in [phase : {"none", "sent", "done", "settling"}, who : Anyone,
                          payload : Payloads],
             call' \in [phase : {"none", "sent", "done"}, who : Anyone,
                        kind : {"none", "photo", "role", "remove"}],
             writes' \in 0..MaxWrites, refetch'.waited <=> saving'.phase = "settling"
      PROVE  MemberInv'
  BY <1>2 DEF MemberInv, MemberTypeOK, DraftInv, Displayed
\* Those that fill it.
<1>3. ASSUME NEW who \in Anyone, NEW l \in RowsOf, Fill(who, l), list' = l, editing' = who,
             UNCHANGED <<rows, writes>>,
             refetch' \in [phase : {"none", "sent", "read"}, rows : RowsOf, waited : BOOLEAN],
             saving' \in [phase : {"none", "sent", "done", "settling"}, who : Anyone,
                          payload : Payloads],
             call' \in [phase : {"none", "sent", "done"}, who : Anyone,
                        kind : {"none", "photo", "role", "remove"}],
             refetch'.waited <=> saving'.phase = "settling"
      PROVE  MemberInv'
  BY <1>3, FillStep DEF MemberInv, MemberTypeOK
<1>4. ASSUME NEW m \in Members, OpenDialog(m) PROVE MemberInv'
  BY <1>0, <1>3, <1>4 DEF OpenDialog, EditWho, MemberInv, MemberTypeOK, Anyone
<1>5. CASE CloseDialog
  BY <1>0, <1>3, <1>5 DEF CloseDialog, EditWho, MemberInv, MemberTypeOK
<1>6. CASE Save
  <2> DEFINE changed == {f \in Fields : draft[f] # given.row[f]}
             payload == [f \in changed |-> draft[f]]
  <2>1. CASE changed = {}
    BY <1>0, <1>3, <1>6, <2>1 DEF Save, EditWho, MemberInv, MemberTypeOK
  <2>2. CASE changed # {}
    <3>1. payload \in Payloads
      <4>1. payload \in [changed -> Values] /\ changed \in SUBSET Fields
        BY <1>6 DEF Save, MemberInv, MemberTypeOK
      <4> QED
        BY <4>1 DEF Payloads
    <3>2. given.who \in Anyone
      BY <1>6 DEF Save, Displayed, MemberInv, MemberTypeOK, Given
    <3>3. saving' = [phase |-> "sent", who |-> given.who, payload |-> payload]
      BY <1>6, <2>2 DEF Save
    <3>4. UNCHANGED <<rows, list, refetch, call, writes, editing, given, draft, touched>>
      BY <1>6, <2>2 DEF Save, dialogVars
    <3>5. ~refetch.waited
      BY <1>6 DEF Save, NoSave, MemberInv
    <3> HIDE DEF payload
    <3> QED
      BY <1>2, <3>1, <3>2, <3>3, <3>4, <3>5 DEF MemberInv, MemberTypeOK
  <2> QED
    BY <2>1, <2>2
<1>7. ASSUME NEW f \in Fields, NEW v \in Values, Type(f, v) PROVE MemberInv'
  <2>1. draft' \in [IF Displayed THEN Fields ELSE {} -> Values] /\ touched' \subseteq Fields
    BY <1>7 DEF Type, MemberInv, MemberTypeOK
  <2>2. DraftInv'
    BY <1>7 DEF Type, MemberInv, MemberTypeOK, DraftInv, Displayed
  <2> QED
    BY <1>7, <2>1, <2>2 DEF Type, MemberInv, MemberTypeOK, Displayed
<1>8. ASSUME NEW kind \in {"photo", "role", "remove"}, NEW m \in Members, StartCall(kind, m)
      PROVE  MemberInv'
  BY <1>2, <1>8 DEF StartCall, dialogVars, MemberInv, MemberTypeOK, Anyone
<1>9. CASE \/ BackendSaves \/ BackendAnswers
           \/ \E m \in Members, f \in Fields, v \in Values : OtherWrites(m, f, v)
           \/ \E m \in Members : OtherRemoves(m)
  <2>1. rows' \in RowsOf
    BY <1>9, RowsStep DEF MemberInv
  <2>2. writes' \in 0..MaxWrites /\ UNCHANGED <<list, refetch, editing, given, draft, touched>>
    BY <1>9 DEF BackendSaves, BackendAnswers, OtherWrites, OtherRemoves, dialogVars, MemberInv,
                MemberTypeOK
  <2>3. /\ saving' \in [phase : {"none", "sent", "done", "settling"}, who : Anyone,
                         payload : Payloads]
        /\ refetch'.waited <=> saving'.phase = "settling"
    BY <1>9, <2>2 DEF BackendSaves, BackendAnswers, OtherWrites, OtherRemoves, MemberInv,
                      MemberTypeOK
  <2>4. call' \in [phase : {"none", "sent", "done"}, who : Anyone,
                   kind : {"none", "photo", "role", "remove"}]
    BY <1>9 DEF BackendSaves, BackendAnswers, OtherWrites, OtherRemoves, MemberInv, MemberTypeOK
  <2> QED
    BY <1>2, <2>1, <2>2, <2>3, <2>4 DEF MemberInv, MemberTypeOK
<1>10. CASE BackendLists \/ SaveArrives \/ Refocus
  <2>1. /\ UNCHANGED <<rows, list, editing, given, draft, touched, call, writes>>
        /\ refetch' \in [phase : {"none", "sent", "read"}, rows : RowsOf, waited : BOOLEAN]
    <3>1. CASE BackendLists
      BY <3>1 DEF BackendLists, dialogVars, MemberInv, MemberTypeOK
    <3>2. CASE SaveArrives \/ Refocus
      BY <3>2, RefetchTypes DEF SaveArrives, Refocus, dialogVars
    <3> QED
      BY <1>10, <3>1, <3>2
  <2>2. /\ saving' \in [phase : {"none", "sent", "done", "settling"}, who : Anyone,
                         payload : Payloads]
        /\ refetch'.waited <=> saving'.phase = "settling"
    <3>1. CASE BackendLists
      BY <3>1 DEF BackendLists, MemberInv, MemberTypeOK
    <3>2. CASE SaveArrives
      BY <3>2 DEF SaveArrives, MemberInv, MemberTypeOK
    <3>3. CASE Refocus
      BY <3>3 DEF Refocus, MemberInv, MemberTypeOK, NoRefetch
    <3> QED
      BY <1>10, <3>1, <3>2, <3>3
  <2> QED
    BY <1>2, <2>1, <2>2 DEF MemberInv, MemberTypeOK
<1>11. CASE SaveFails \/ CallFails
  <2>1. /\ saving' \in [phase : {"none", "sent", "done", "settling"}, who : Anyone,
                         payload : Payloads]
        /\ call' \in [phase : {"none", "sent", "done"}, who : Anyone,
                      kind : {"none", "photo", "role", "remove"}]
        /\ refetch.waited <=> saving'.phase = "settling"
    BY <1>11, NoRowTypes DEF SaveFails, CallFails, NoSave, NoCall, Anyone, MemberInv, MemberTypeOK
  <2> QED
    BY <1>2, <1>11, <2>1 DEF SaveFails, CallFails, dialogVars, MemberInv, MemberTypeOK
<1>12. ASSUME NEW l \in RowsOf, Settle(l), UNCHANGED <<rows, writes>>,
              call' = NoCall \/ UNCHANGED call,
              refetch' = NoRefetch
                \/ refetch' = [phase |-> "sent", rows |-> NoRow, waited |-> FALSE]
       PROVE  MemberInv'
  <2>1. /\ refetch' \in [phase : {"none", "sent", "read"}, rows : RowsOf, waited : BOOLEAN]
        /\ ~refetch'.waited
    BY <1>12, RefetchTypes
  <2>2. call' \in [phase : {"none", "sent", "done"}, who : Anyone,
                   kind : {"none", "photo", "role", "remove"}]
    BY <1>12 DEF NoCall, Anyone, MemberInv, MemberTypeOK
  <2>3. /\ saving' \in [phase : {"none", "sent", "done", "settling"}, who : Anyone,
                         payload : Payloads]
        /\ saving'.phase # "settling"
    BY <1>0, <1>12, NoRowTypes DEF Settle, NoSave, MemberInv, MemberTypeOK
  <2>4. CASE refetch.waited
    BY <1>0, <1>3, <1>12, <2>1, <2>2, <2>3, <2>4 DEF Settle
  <2>5. CASE ~refetch.waited
    BY <1>0, <1>3, <1>12, <2>1, <2>2, <2>3, <2>5 DEF Settle
  <2> QED
    BY <2>4, <2>5
<1>13. CASE CallArrives \/ ListArrives \/ ListFails
  BY <1>0, <1>12, <1>13 DEF CallArrives, ListArrives, ListFails
<1> QED
  BY <1>1, <1>4, <1>5, <1>6, <1>7, <1>8, <1>9, <1>10, <1>11, <1>13 DEF MemberNext

\* Every field of a save was typed in since the dialog last showed what it was given.
THEOREM SavesOnlyTouched == MemberSpec => EditWritesOnlyTouched
<1>1. MemberInv /\ [MemberNext]_memberVars =>
        [(saving.phase = "none" /\ saving'.phase = "sent") =>
           DOMAIN saving'.payload \subseteq touched]_memberVars
  <2> SUFFICES ASSUME MemberInv, MemberNext, saving.phase = "none", saving'.phase = "sent"
               PROVE  DOMAIN saving'.payload \subseteq touched
    OBVIOUS
  <2>1. CASE Save
    <3> DEFINE changed == {f \in Fields : draft[f] # given.row[f]}
    <3>1. changed # {} /\ saving'.payload = [f \in changed |-> draft[f]]
      BY <2>1 DEF Save, EditWho
    <3>2. changed \subseteq touched
      BY <2>1 DEF Save, MemberInv, DraftInv
    <3> QED
      BY <3>1, <3>2
  <2>2. CASE ~Save
    BY <2>2 DEF MemberNext, OpenDialog, CloseDialog, Type, StartCall, BackendSaves, BackendAnswers,
                BackendLists, OtherWrites, OtherRemoves, SaveArrives, SaveFails, CallArrives,
                CallFails, Refocus, ListArrives, ListFails, Settle, NoSave, MemberInv, MemberTypeOK
  <2> QED
    BY <2>1, <2>2
<1> QED
  BY <1>1, MemberStarts, MemberStep, PTL DEF MemberSpec, EditWritesOnlyTouched

-----------------------------------------------------------------------------
(* The forms.                                                              *)

\* The edits of a form, and what each leaves as it was.
LEMMA ShownEdit ==
  ASSUME NEW f \in Faces, NEW b \in BOOLEAN
  PROVE  LET g == [f EXCEPT !.shown = b] IN
         /\ g \in Faces /\ g.shown = b /\ g.words = f.words /\ g.perms = f.perms
         /\ g.busy = f.busy /\ g.picking = f.picking
BY DEF Faces

LEMMA BusyEdit ==
  ASSUME NEW f \in Faces
  PROVE  LET g == [f EXCEPT !.busy = FALSE] IN
         /\ g \in Faces /\ g.shown = f.shown /\ g.words = f.words /\ g.perms = f.perms
         /\ ~g.busy /\ g.picking = f.picking
BY DEF Faces

LEMMA NoteEdit ==
  ASSUME NEW f \in Faces, NEW p \in Posts, NEW kind \in {"none", "result", "success", "error"}
  PROVE  LET g == Says(f, kind, p) IN
         /\ g \in Faces /\ g.shown = f.shown /\ g.words = f.words /\ g.perms = f.perms
         /\ g.busy = f.busy /\ g.picking = f.picking
<1>1. [kind |-> kind, attempt |-> p.attempt] \in Notices
  BY DEF Notices, Posts
<1> QED
  BY <1>1 DEF Says, Faces

\* What is said of an answer, and the button freed.
LEMMA SaidEdit ==
  ASSUME NEW f \in Faces, NEW p \in Posts, NEW kind \in {"none", "result", "success", "error"}
  PROVE  LET g == [Says(f, kind, p) EXCEPT !.busy = FALSE] IN
         /\ g \in Faces /\ g.shown = f.shown /\ g.words = f.words /\ g.perms = f.perms
         /\ ~g.busy /\ g.picking = f.picking
<1> DEFINE h == Says(f, kind, p)
<1>1. /\ h \in Faces /\ h.shown = f.shown /\ h.words = f.words /\ h.perms = f.perms
      /\ h.picking = f.picking
  BY NoteEdit
<1> HIDE DEF h
<1>2. LET g == [h EXCEPT !.busy = FALSE] IN
      /\ g \in Faces /\ g.shown = h.shown /\ g.words = h.words /\ g.perms = h.perms
      /\ ~g.busy /\ g.picking = h.picking
  BY <1>1, BusyEdit
<1> QED
  BY <1>1, <1>2 DEF h

LEMMA BlankedType ==
  ASSUME FormsTypeOK
  PROVE  /\ Blanked \in Faces /\ Blanked.shown = face.shown /\ Blanked.words = 0
         /\ Blanked.perms = {} /\ Blanked.busy = face.busy /\ Blanked.picking = face.picking
<1>1. 0 \in Attempts /\ {} \in SUBSET Attempts /\ face \in Faces
  BY ConsoleFormsAssumption DEF Attempts, FormsTypeOK
<1> QED
  BY <1>1 DEF Blanked, Faces

LEMMA EmptyType ==
  ASSUME NEW b \in BOOLEAN
  PROVE  /\ Empty(b) \in Faces /\ Empty(b).shown = b /\ Empty(b).words = 0
         /\ Empty(b).perms = {} /\ ~Empty(b).busy /\ ~Empty(b).picking
<1>1. NoNote \in Notices /\ 0 \in Attempts
  BY ConsoleFormsAssumption DEF NoNote, Notices, Attempts
<1> QED
  BY <1>1 DEF Empty, Faces

\* What an answer does to a form.
AnswerDoes(p) ==
  /\ face' \in Faces /\ (face'.shown => face.shown) /\ face'.picking = face.picking
  /\ \/ face'.words = face.words /\ face'.perms = face.perms
     \/ face'.words = 0 /\ face'.perms = {}
  /\ form \in Unguarded => face'.busy = face.busy
  /\ form = "wizard" => ~face'.busy
  /\ form \notin Unguarded \cup {"wizard"} =>
       IF Mine(p) /\ p.watched THEN ~face'.busy ELSE face'.busy = face.busy
  /\ form \in {"invite", "createRole"} /\ face.shown /\ ~face'.shown =>
       LeavesDraft(p) \/ (face'.words = 0 /\ face'.perms = {})

LEMMA FailureDoes ==
  ASSUME FormsTypeOK, MountsInv, NEW p \in sends, face' = Failed(p)
  PROVE  AnswerDoes(p) /\ face'.shown = face.shown
<1>0. face \in Faces /\ p \in Posts /\ form \in Forms /\ (form \notin AccountForms => p.watched)
  BY DEF FormsTypeOK, MountsInv
<1>1. LET g == [Says(face, "error", p) EXCEPT !.busy = FALSE] IN
      /\ g \in Faces /\ g.shown = face.shown /\ g.words = face.words /\ g.perms = face.perms
      /\ ~g.busy /\ g.picking = face.picking
  BY <1>0, SaidEdit
<1>2. LET g == [face EXCEPT !.busy = FALSE] IN
      /\ g \in Faces /\ g.shown = face.shown /\ g.words = face.words /\ g.perms = face.perms
      /\ ~g.busy /\ g.picking = face.picking
  BY <1>0, BusyEdit
<1> USE DEF AnswerDoes, Unguarded, AccountForms, AuthForms
<1>3. CASE form = "wizard"
  BY <1>1, <1>3 DEF Failed, OnboardingFailed
<1>4. CASE form \in AccountForms \cup AuthForms
  BY <1>0, <1>1, <1>4 DEF Failed
<1>5. CASE form \in Unguarded
  BY <1>0, <1>5 DEF Failed
<1>6. CASE form \in RoleDialogs \cup {"invite"}
  BY <1>0, <1>2, <1>6 DEF Failed, Freed, RoleDialogs
<1> QED
  BY <1>0, <1>3, <1>4, <1>5, <1>6
     DEF Forms, Dialogs, ListDialogs, RoleDialogs, PageForms

LEMMA SuccessDoes ==
  ASSUME FormsTypeOK, MountsInv, NEW p \in sends, face' = Succeeded(p)
  PROVE  AnswerDoes(p)
<1>0. face \in Faces /\ p \in Posts /\ form \in Forms /\ (form \notin AccountForms => p.watched)
  BY DEF FormsTypeOK, MountsInv
<1>1. ASSUME NEW f \in Faces, NEW kind \in {"none", "result", "success", "error"}
      PROVE  LET g == [Says(f, kind, p) EXCEPT !.busy = FALSE] IN
             /\ g \in Faces /\ g.shown = f.shown /\ g.words = f.words /\ g.perms = f.perms
             /\ ~g.busy /\ g.picking = f.picking
  BY ZenonT(60), <1>0, <1>1, SaidEdit
<1>2. ASSUME NEW f \in Faces
      PROVE  /\ Freed(f, p) \in Faces /\ Freed(f, p).shown = f.shown
             /\ Freed(f, p).words = f.words /\ Freed(f, p).perms = f.perms
             /\ Freed(f, p).busy = (IF Mine(p) THEN FALSE ELSE f.busy)
             /\ Freed(f, p).picking = f.picking
  BY <1>2, BusyEdit DEF Freed
<1>3. /\ Blanked \in Faces /\ Blanked.shown = face.shown /\ Blanked.words = 0
      /\ Blanked.perms = {} /\ Blanked.busy = face.busy /\ Blanked.picking = face.picking
  BY BlankedType
<1>4. ASSUME NEW f \in Faces
      PROVE  LET g == [f EXCEPT !.shown = FALSE] IN
             /\ g \in Faces /\ ~g.shown /\ g.words = f.words /\ g.perms = f.perms
             /\ g.busy = f.busy /\ g.picking = f.picking
  BY <1>4, ShownEdit
<1> USE DEF AnswerDoes, Unguarded, AccountForms
<1>5. CASE form \in {"invite", "createRole"}
  <2> DEFINE forgotten == IF Mine(p) THEN Blanked ELSE face
             closed == IF ViewIsSame(p) THEN [forgotten EXCEPT !.shown = FALSE] ELSE forgotten
  <2>1. face' = Freed(closed, p)
    BY <1>5 DEF Succeeded, Invited, RoleCreated
  <2>2. /\ forgotten \in Faces /\ forgotten.shown = face.shown /\ forgotten.busy = face.busy
        /\ forgotten.picking = face.picking
        /\ forgotten.words = (IF Mine(p) THEN 0 ELSE face.words)
        /\ forgotten.perms = (IF Mine(p) THEN {} ELSE face.perms)
    BY <1>0, <1>3
  <2> HIDE DEF forgotten
  <2>3. /\ closed \in Faces /\ closed.shown = (IF ViewIsSame(p) THEN FALSE ELSE forgotten.shown)
        /\ closed.words = forgotten.words /\ closed.perms = forgotten.perms
        /\ closed.busy = forgotten.busy /\ closed.picking = forgotten.picking
    <3>1. LET g == [forgotten EXCEPT !.shown = FALSE] IN
          /\ g \in Faces /\ ~g.shown /\ g.words = forgotten.words /\ g.perms = forgotten.perms
          /\ g.busy = forgotten.busy /\ g.picking = forgotten.picking
      BY <1>4, <2>2
    <3>2. forgotten.shown \in BOOLEAN
      BY <2>2 DEF Faces
    <3>3. CASE ViewIsSame(p)
      BY <2>2, <3>1, <3>2, <3>3
    <3>4. CASE ~ViewIsSame(p)
      BY <2>2, <3>2, <3>4
    <3> QED
      BY <3>3, <3>4
  <2> HIDE DEF closed
  <2> QED
    BY <1>0, <1>2, <1>5, <2>1, <2>2, <2>3 DEF LeavesDraft
<1>6. CASE form = "editRole"
  <2> DEFINE closed == IF ViewIsSame(p) THEN [face EXCEPT !.shown = FALSE] ELSE face
  <2>1. face' = Freed(closed, p)
    BY <1>6 DEF Succeeded, RoleEdited
  <2>2. /\ closed \in Faces /\ (closed.shown => face.shown) /\ closed.words = face.words
        /\ closed.perms = face.perms /\ closed.busy = face.busy /\ closed.picking = face.picking
    BY <1>0, <1>4
  <2> HIDE DEF closed
  <2> QED
    BY <1>0, <1>2, <1>6, <2>1, <2>2
<1>7. CASE form \in Unguarded
  BY <1>0, <1>4, <1>7 DEF Succeeded, Confirmed
<1>8. CASE form = "wizard"
  BY <1>0, <1>1, <1>8 DEF Succeeded, TenantOnboarded
<1>9. CASE form = "profile"
  <2> DEFINE refilled == IF p.words # 0 THEN Blanked ELSE face
  <2>1. face' = IF Mine(p) /\ p.watched
                THEN [Says(refilled, "success", p) EXCEPT !.busy = FALSE] ELSE refilled
    BY <1>9 DEF Succeeded, ProfileSaved
  <2>2. /\ refilled \in Faces /\ refilled.shown = face.shown /\ refilled.busy = face.busy
        /\ refilled.picking = face.picking
        /\ \/ refilled.words = face.words /\ refilled.perms = face.perms
           \/ refilled.words = 0 /\ refilled.perms = {}
    BY <1>0, <1>3
  <2> HIDE DEF refilled
  <2>3. LET g == [Says(refilled, "success", p) EXCEPT !.busy = FALSE] IN
        /\ g \in Faces /\ g.shown = refilled.shown /\ g.words = refilled.words
        /\ g.perms = refilled.perms /\ ~g.busy /\ g.picking = refilled.picking
    BY <1>1, <2>2
  <2>4. CASE Mine(p) /\ p.watched
    BY <1>9, <2>1, <2>2, <2>3, <2>4
  <2>5. CASE ~(Mine(p) /\ p.watched)
    BY <1>9, <2>1, <2>2, <2>5
  <2> QED
    BY <2>4, <2>5
<1>10. CASE form = "password"
  BY <1>0, <1>1, <1>3, <1>10 DEF Succeeded, PasswordChanged
<1>11. CASE form \in {"login", "accept"}
  BY <1>0, <1>2, <1>11 DEF Succeeded, SignedIn, InvitationTaken
<1>12. CASE form \in {"resetRequest", "resetConfirm"}
  BY <1>0, <1>1, <1>12 DEF Succeeded, ResetRequested, PasswordReset
<1> QED
  BY <1>0, <1>5, <1>6, <1>7, <1>8, <1>9, <1>10, <1>11, <1>12
     DEF Forms, Dialogs, ListDialogs, RoleDialogs, PageForms, AuthForms

\* A step of the form alone.
LEMMA FaceStep ==
  ASSUME FormsInv, UNCHANGED <<form, mount, visit, hidden, sends, sentSoFar>>,
         attempt' \in Attempts, face' \in Faces, strayed' \in BOOLEAN, strayed => strayed',
         face'.picking => form \in RoleDialogs, DraftsInv',
         \/ face'.busy = face.busy /\ (attempt' = attempt \/ form # "wizard")
         \/ form = "wizard" /\ ~face'.busy
  PROVE  FormsInv'
<1> USE DEF FormsInv
<1>1. FormsTypeOK'
  BY DEF FormsTypeOK
<1>2. DraftsDoNotLeak'
  BY DEF DraftsDoNotLeak, FormsTypeOK
<1>3. MountsInv'
  BY DEF MountsInv
<1>4. BusyInv'
  BY DEF BusyInv, Awaited, Unguarded
<1> QED
  BY <1>1, <1>2, <1>3, <1>4

LEMMA FormsStart == FormsInit => FormsInv
<1> SUFFICES ASSUME FormsInit PROVE FormsInv
  OBVIOUS
<1> USE ConsoleFormsAssumption DEF FormsInit
<1>1. /\ face \in Faces /\ face.words = 0 /\ face.perms = {} /\ ~face.busy /\ ~face.picking
  <2> DEFINE b == form \in PageForms
  <2>1. b \in BOOLEAN /\ face = Empty(b)
    OBVIOUS
  <2> HIDE DEF b
  <2> QED
    BY <2>1, EmptyType
<1>2. FormsTypeOK
  <2>1. MaxAttempts \in Nat \ {0} /\ MaxPosts \in Nat \ {0} /\ MaxMounts \in Nat \ {0}
    OBVIOUS
  <2>2. /\ attempt \in Attempts /\ mount \in 1..MaxMounts /\ visit \in 1..MaxMounts
        /\ sentSoFar \in 0..MaxPosts
    BY <2>1 DEF Attempts
  <2> QED
    BY <1>1, <2>2 DEF FormsTypeOK
<1>3. DraftsDoNotLeak /\ DraftsInv /\ MountsInv /\ BusyInv
  BY <1>1 DEF DraftsDoNotLeak, DraftsInv, MountsInv, BusyInv, Awaited
<1> QED
  BY <1>2, <1>3 DEF FormsInv

LEMMA FormsStep == FormsInv /\ [FormsNext]_formVars => FormsInv'
<1> SUFFICES ASSUME FormsInv, [FormsNext]_formVars PROVE FormsInv'
  OBVIOUS
<1> USE ConsoleFormsAssumption
<1>0. /\ face \in Faces /\ attempt \in Attempts /\ strayed \in BOOLEAN /\ form \in Forms
      /\ face.words \in Attempts /\ face.perms \in SUBSET Attempts /\ DraftsInv
      /\ face.picking => form \in RoleDialogs
  BY DEF FormsInv, FormsTypeOK, MountsInv, Faces
<1>1. CASE UNCHANGED formVars
  BY <1>1 DEF formVars, FormsInv, FormsTypeOK, DraftsDoNotLeak, DraftsInv, MountsInv, BusyInv,
              Awaited
<1>2. CASE OpenForm
  <2> DEFINE next == attempt + 1
  <2>1. attempt' = next /\ next \in Attempts /\ ~face.shown /\ face' = Opened
        /\ UNCHANGED <<form, mount, visit, hidden, sends, sentSoFar, strayed>>
    BY <1>0, <1>2 DEF OpenForm, Attempts
  <2>2. face'.shown /\ face' \in Faces /\ face'.picking \in {face.picking, FALSE}
    BY <1>0, <2>1, EmptyType DEF Opened, Faces
  <2>3. IF form = "wizard" THEN ~face'.busy ELSE face'.busy = face.busy
    BY <1>0, <2>1, EmptyType DEF Opened, Faces
  <2>4. DraftsInv'
    <3>1. CASE form = "editRole"
      BY <1>0, <2>1, <2>2, <3>1 DEF Opened, Faces, DraftsInv
    <3>2. CASE form = "confirm"
      BY <1>0, <2>1, <2>2, <3>2 DEF Opened, Faces, DraftsInv
    <3>3. CASE form = "wizard"
      BY <2>1, <3>3, EmptyType DEF Opened, DraftsInv
    <3>4. CASE form \in {"invite", "createRole"}
      BY <1>0, <2>1, <3>4 DEF Opened, Faces, DraftsInv
    <3> QED
      BY <1>2, <3>1, <3>2, <3>3, <3>4 DEF OpenForm, Dialogs, ListDialogs, RoleDialogs
  <2> QED
    BY <1>0, <2>1, <2>2, <2>3, <2>4, FaceStep
<1>3. CASE EnterWords
  <2>1. face' \in Faces /\ face'.words = attempt /\ face'.perms = face.perms
        /\ face'.shown = face.shown /\ face'.busy = face.busy /\ face'.picking = face.picking
    BY <1>0, <1>3 DEF EnterWords, Faces
  <2>2. DraftsInv'
    BY <1>0, <1>3, <2>1 DEF EnterWords, DraftsInv, OnScreen
  <2> QED
    BY <1>0, <1>3, <2>1, <2>2, FaceStep DEF EnterWords
<1>4. ASSUME NEW perms \in SUBSET (face.perms \cup {attempt}), OnScreen,
             form = "confirm" => perms \subseteq face.perms,
             face' = [face EXCEPT !.perms = perms],
             UNCHANGED <<form, attempt, mount, visit, hidden, sends, sentSoFar, strayed>>
      PROVE  FormsInv'
  <2>1. face' \in Faces /\ face'.words = face.words /\ face'.perms = perms
        /\ face'.shown = face.shown /\ face'.busy = face.busy /\ face'.picking = face.picking
    BY <1>0, <1>4 DEF Faces
  <2>2. DraftsInv'
    BY <1>0, <1>4, <2>1 DEF DraftsInv, OnScreen
  <2> QED
    BY <1>0, <1>4, <2>1, <2>2, FaceStep
<1>5. CASE EnterMember
  BY <1>0, <1>4, <1>5 DEF EnterMember, Faces
<1>6. CASE RemovePermission
  BY <1>0, <1>4, <1>6 DEF RemovePermission, Faces
<1>7. CASE CloseForm
  <2>1. face' \in Faces /\ ~face'.shown /\ (face'.picking => face.picking)
        /\ IF form = "wizard" THEN ~face'.busy ELSE face'.busy = face.busy
    <3>1. CASE form \in {"invite", "createRole"}
      BY <1>7, <3>1, BlankedType, ShownEdit DEF CloseForm, ClosedByUser, FormsInv
    <3>2. CASE form = "wizard"
      <4>1. face' = Empty(FALSE)
        BY <1>7, <3>2 DEF CloseForm, ClosedByUser
      <4> QED
        BY <3>2, <4>1, EmptyType
    <3>3. CASE form \notin {"invite", "createRole", "wizard"}
      BY <1>0, <1>7, <3>3, ShownEdit DEF CloseForm, ClosedByUser
    <3> QED
      BY <3>1, <3>2, <3>3
  <2>2. DraftsInv'
    <3>1. CASE form \in {"invite", "createRole"}
      BY <1>7, <2>1, <3>1, BlankedType, ShownEdit DEF CloseForm, ClosedByUser, FormsInv, DraftsInv
    <3>2. CASE form = "wizard"
      BY <1>7, <2>1, <3>2 DEF CloseForm, DraftsInv
    <3>3. CASE form \notin {"invite", "createRole", "wizard"}
      BY <1>0, <1>7, <3>3, ShownEdit DEF CloseForm, ClosedByUser, DraftsInv
    <3> QED
      BY <3>1, <3>2, <3>3
  <2> QED
    BY <1>0, <1>7, <2>1, <2>2, FaceStep DEF CloseForm
<1>8. CASE TryAgain
  <2> DEFINE b == Blanked
  <2>1. face' = [b EXCEPT !.note = NoNote]
    BY <1>8 DEF TryAgain
  <2>2. b \in Faces /\ b.shown = face.shown /\ b.words = 0 /\ b.perms = {}
        /\ b.busy = face.busy /\ b.picking = face.picking
    BY BlankedType DEF FormsInv
  <2>3. NoNote \in Notices
    BY DEF NoNote, Notices, Attempts
  <2> HIDE DEF b
  <2>4. face' \in Faces /\ face'.shown = face.shown /\ face'.words = 0 /\ face'.perms = {}
        /\ face'.busy = face.busy /\ face'.picking = face.picking
    BY <2>1, <2>2, <2>3 DEF Faces
  <2>5. DraftsInv'
    BY <1>8, <2>4 DEF TryAgain, DraftsInv
  <2> QED
    BY <1>0, <1>8, <2>4, <2>5, FaceStep DEF TryAgain
<1>9. ASSUME NEW ticks \in SUBSET Attempts, NEW picking \in BOOLEAN, form \in RoleDialogs,
             face' = [face EXCEPT !.ticks = ticks, !.picking = picking],
             UNCHANGED <<form, attempt, mount, visit, hidden, sends, sentSoFar, strayed>>
      PROVE  FormsInv'
  <2>1. face' \in Faces /\ face'.shown = face.shown /\ face'.words = face.words
        /\ face'.perms = face.perms /\ face'.busy = face.busy
    BY <1>0, <1>9 DEF Faces
  <2>2. DraftsInv'
    BY <1>0, <1>9, <2>1 DEF DraftsInv
  <2> QED
    BY <1>0, <1>9, <2>1, <2>2, FaceStep
<1>10. CASE OpenSelector \/ TickPermission \/ CloseSelector
  <2>1. face.ticks \in SUBSET Attempts /\ face.picking \in BOOLEAN
    BY <1>0 DEF Faces
  <2>2. CASE OpenSelector \/ CloseSelector
    <3>1. PICK picking \in BOOLEAN : face' = [face EXCEPT !.ticks = face.ticks, !.picking = picking]
      BY <1>0, <2>2 DEF OpenSelector, CloseSelector, Faces
    <3> QED
      BY <1>0, <1>9, <2>1, <2>2, <3>1 DEF OpenSelector, CloseSelector
  <2>3. CASE TickPermission
    <3>1. PICK ticks \in SUBSET Attempts : face' = [face EXCEPT !.ticks = ticks]
      <4>1. CASE face' = [face EXCEPT !.ticks = @ \cup {attempt}]
        <5>1. face.ticks \cup {attempt} \in SUBSET Attempts
          BY <1>0, <2>1
        <5> QED
          BY <1>0, <4>1, <5>1
      <4>2. ASSUME NEW a \in face.ticks, face' = [face EXCEPT !.ticks = @ \ {a}]
            PROVE  \E ticks \in SUBSET Attempts : face' = [face EXCEPT !.ticks = ticks]
        <5>1. face.ticks \ {a} \in SUBSET Attempts
          BY <2>1
        <5> QED
          BY <1>0, <4>2, <5>1
      <4> QED
        BY <2>3, <4>1, <4>2 DEF TickPermission
    <3>2. face' = [face EXCEPT !.ticks = ticks, !.picking = face.picking]
      BY <1>0, <3>1 DEF Faces
    <3> QED
      BY <1>0, <1>9, <2>1, <2>3, <3>2 DEF TickPermission
  <2> QED
    BY <1>10, <2>2, <2>3
<1>11. CASE PermissionsDone
  <2>1. face' \in Faces /\ face'.shown = face.shown /\ face'.words = face.words
        /\ face'.perms = face.ticks /\ face'.busy = face.busy /\ ~face'.picking
    BY <1>0, <1>11 DEF PermissionsDone, Faces
  <2>2. strayed' \in BOOLEAN /\ (strayed => strayed')
        /\ (~strayed' => face.shown /\ face.ticks \subseteq {attempt})
    BY <1>0, <1>11 DEF PermissionsDone, Faces
  <2>3. DraftsInv'
    BY <1>0, <1>11, <2>1, <2>2 DEF PermissionsDone, DraftsInv, RoleDialogs
  <2> QED
    BY <1>0, <1>11, <2>1, <2>2, <2>3, FaceStep DEF PermissionsDone
<1>12. CASE DataChange
  <2>1. DraftsInv'
    BY <1>12, BlankedType DEF DataChange, DraftsInv, FormsInv
  <2> QED
    BY <1>0, <1>12, <2>1, BlankedType, FaceStep DEF DataChange, FormsInv
<1> USE DEF FormsInv
<1>13. CASE ViewFails
  BY <1>13 DEF ViewFails, FormsTypeOK, DraftsDoNotLeak, DraftsInv, MountsInv, BusyInv, Awaited
<1>14. ASSUME mount' = mount + 1, mount' \in 1..MaxMounts, face' \in Faces, attempt' \in Attempts,
              visit' \in {visit, visit + 1}, hidden' \in BOOLEAN,
              UNCHANGED <<form, sends, sentSoFar, strayed>>, DraftsInv',
              hidden' => form \in ListDialogs /\ mount' < MaxMounts,
              face'.picking => form \in RoleDialogs,
              form # "wizard" => ~face'.busy,
              form = "wizard" => face'.busy = face.busy /\ attempt' = attempt
       PROVE  FormsInv'
  <2>1. FormsTypeOK'
    BY <1>14 DEF FormsTypeOK, MountsInv
  <2>2. Awaited' = {}
    BY <1>14 DEF Awaited, MountsInv, FormsTypeOK, Posts
  <2>3. MountsInv'
    BY <1>14 DEF MountsInv, FormsTypeOK, Posts
  <2>4. DraftsDoNotLeak' /\ BusyInv'
    BY <1>14, <2>2 DEF DraftsDoNotLeak, BusyInv, Unguarded
  <2> QED
    BY <1>14, <2>1, <2>3, <2>4
<1>15. CASE ViewHeals
  <2>1. /\ face' \in Faces /\ DraftsInv'
        /\ ~face'.busy /\ (face'.picking => form \in RoleDialogs)
    <3>1. CASE form = "editRole" /\ face.shown
      <4> DEFINE e == Empty(TRUE)
      <4>1. e \in Faces /\ e.shown /\ ~e.busy /\ ~e.picking
        BY EmptyType
      <4>2. face' = [e EXCEPT !.words = attempt, !.perms = {attempt}]
        BY <1>15, <3>1 DEF ViewHeals, Remounted
      <4> HIDE DEF e
      <4>3. face' \in Faces /\ face'.shown /\ ~face'.busy /\ ~face'.picking
            /\ face'.words = attempt /\ face'.perms = {attempt}
        BY <1>0, <4>1, <4>2 DEF Faces
      <4> QED
        BY <1>15, <3>1, <4>3 DEF ViewHeals, DraftsInv
    <3>2. CASE form = "confirm"
      BY <1>0, <1>15, <3>2 DEF ViewHeals, Remounted, DraftsInv, BusyInv, Unguarded
    <3>3. CASE form # "confirm" /\ ~(form = "editRole" /\ face.shown)
      <4>1. face' = Empty(face.shown) /\ face.shown \in BOOLEAN
        BY <1>0, <1>15, <3>3 DEF ViewHeals, Remounted, Faces
      <4> QED
        BY <1>15, <3>3, <4>1, EmptyType DEF ViewHeals, DraftsInv
    <3> QED
      BY <3>1, <3>2, <3>3
  <2>2. form \in ListDialogs /\ mount < MaxMounts
    BY <1>15 DEF ViewHeals, MountsInv
  <2>3. mount' = mount + 1 /\ mount' \in 1..MaxMounts /\ visit' = visit /\ ~hidden'
        /\ UNCHANGED <<form, attempt, sends, sentSoFar, strayed>> /\ form # "wizard"
    BY <1>15, <2>2 DEF ViewHeals, ListDialogs, RoleDialogs, FormsTypeOK
  <2>4. hidden' \in BOOLEAN
    BY <1>15 DEF ViewHeals
  <2>5. attempt' \in Attempts /\ visit' \in {visit, visit + 1}
    BY <1>0, <2>3
  <2> QED
    BY <1>14, <2>1, <2>3, <2>4, <2>5
<1>16. CASE LeavePage
  <2>1. CASE form = "wizard"
    <3>1. DraftsInv'
      BY <1>0, <1>16, <2>1 DEF LeavePage, DraftsInv, PageForms, AccountForms, AuthForms
    <3>2. attempt' = attempt /\ face' = face
      BY <1>16, <2>1 DEF LeavePage, PageForms, AccountForms, AuthForms
    <3> QED
      BY <1>0, <1>14, <1>16, <2>1, <3>1, <3>2 DEF LeavePage, FormsTypeOK
  <2>2. CASE form # "wizard"
    <3>1. PICK b \in BOOLEAN : face' = Empty(b)
      <4> DEFINE c == form \in PageForms
      <4>1. c \in BOOLEAN /\ face' = Empty(c)
        BY <1>16, <2>2 DEF LeavePage
      <4> HIDE DEF c
      <4> QED
        BY <4>1
    <3>2. attempt' \in Attempts
      BY <1>0, <1>16 DEF LeavePage, Attempts
    <3>3. DraftsInv'
      BY <1>16, <2>2, <3>1, EmptyType DEF LeavePage, DraftsInv
    <3> QED
      BY <1>0, <1>14, <1>16, <2>2, <3>1, <3>2, <3>3, EmptyType DEF LeavePage, FormsTypeOK
  <2> QED
    BY <2>1, <2>2
<1>17. CASE SubmitForm
  <2> DEFINE post == [n |-> sentSoFar + 1, attempt |-> attempt, mount |-> mount, visit |-> visit,
                      words |-> face.words, perms |-> face.perms, watched |-> TRUE]
             busy == form \notin Unguarded
  <2>1. sentSoFar + 1 \in 1..MaxPosts /\ post \in Posts
    BY <1>0, <1>17 DEF SubmitForm, FormsTypeOK, Posts
  <2>2. /\ post.attempt = attempt /\ post.mount = mount /\ post.words = face.words
        /\ post.perms = face.perms /\ post.watched
    OBVIOUS
  <2>3. sends' = sends \cup {post} /\ sentSoFar' = sentSoFar + 1
        /\ UNCHANGED <<form, attempt, mount, visit, hidden, strayed>>
    BY <1>17 DEF SubmitForm
  <2> HIDE DEF post
  <2>4. /\ face' \in Faces /\ face'.shown = face.shown /\ face'.words = face.words
        /\ face'.perms = face.perms /\ face'.picking = face.picking
        /\ (face'.busy <=> form \notin Unguarded)
    <3>1. PICK note \in Notices : face' = [face EXCEPT !.busy = form \notin Unguarded, !.note = note]
      <4>1. face.note \in Notices /\ NoNote \in Notices
        BY <1>0 DEF Faces, NoNote, Notices, Attempts
      <4>2. CASE form \in Dialogs \ {"wizard"}
        BY <1>0, <1>17, <4>1, <4>2, Zenon DEF SubmitForm
      <4>3. CASE form \notin Dialogs \ {"wizard"}
        BY <1>0, <1>17, <4>1, <4>3, Zenon DEF SubmitForm
      <4> QED
        BY <4>2, <4>3
    <3>2. PICK b \in BOOLEAN : (b <=> form \notin Unguarded) /\ face' = [face EXCEPT !.busy = b, !.note = note]
      <4>1. CASE form \in Unguarded
        BY <3>1, <4>1, Zenon
      <4>2. CASE form \notin Unguarded
        BY <3>1, <4>2, Zenon
      <4> QED
        BY <4>1, <4>2
    <3> QED
      BY <1>0, <3>1, <3>2 DEF Faces
  <2>5. form \notin Unguarded => Awaited = {}
    BY <1>17 DEF SubmitForm, CanSubmit, InTransition, BusyInv, Awaited, Unguarded
  <2>6. Awaited' = Awaited \cup {post}
    BY <2>2, <2>3 DEF Awaited
  <2>7. BusyInv'
    BY <2>2, <2>3, <2>4, <2>5, <2>6 DEF BusyInv, Unguarded
  <2>8. DraftsDoNotLeak' /\ DraftsInv'
    BY <1>17, <2>2, <2>3, <2>4 DEF SubmitForm, CanSubmit, OnScreen, DraftsDoNotLeak, DraftsInv
  <2>9. FormsTypeOK' /\ MountsInv'
    BY <2>1, <2>2, <2>3, <2>4 DEF FormsTypeOK, MountsInv
  <2> QED
    BY <2>7, <2>8, <2>9
<1>18. CASE OtherFormSubmits
  <2>1. /\ face' \in Faces /\ face'.shown = face.shown /\ face'.words = face.words
        /\ face'.perms = face.perms /\ face'.picking = face.picking /\ ~face'.busy
    <3>1. NoNote \in Notices
      BY DEF NoNote, Notices, Attempts
    <3> QED
      BY <1>0, <1>18, <3>1 DEF OtherFormSubmits, Faces
  <2>2. ASSUME NEW q \in sends'
        PROVE  \E p \in sends : /\ q \in Posts /\ q.attempt = p.attempt /\ q.mount = p.mount
                               /\ q.words = p.words /\ q.perms = p.perms
                               /\ (p.mount = mount => ~q.watched)
    BY <1>18, <2>2 DEF OtherFormSubmits, FormsTypeOK, Posts
  <2>3. UNCHANGED <<form, attempt, mount, visit, hidden, sentSoFar, strayed>> /\ form \in AccountForms
    BY <1>18 DEF OtherFormSubmits
  <2>4. Awaited' = {}
    BY <2>2, <2>3 DEF Awaited
  <2>5. FormsTypeOK' /\ MountsInv'
    BY <2>1, <2>2, <2>3 DEF FormsTypeOK, MountsInv
  <2>6. DraftsDoNotLeak' /\ DraftsInv' /\ BusyInv'
    BY <2>1, <2>2, <2>3, <2>4
       DEF DraftsDoNotLeak, DraftsInv, BusyInv, AccountForms, Unguarded
  <2> QED
    BY <2>5, <2>6
<1>19. CASE AnswerForm
  <2>1. PICK p \in sends :
          /\ sends' = sends \ {p}
          /\ \/ face' = Succeeded(p) /\ strayed' = (strayed \/ LeavesDraft(p))
             \/ face' = Failed(p) /\ strayed' = strayed
          /\ UNCHANGED <<form, attempt, mount, visit, hidden, sentSoFar>>
    BY <1>19, Zenon DEF AnswerForm
  <2>2. AnswerDoes(p)
    BY <2>1, FailureDoes, SuccessDoes
  <2>3. strayed' \in BOOLEAN /\ (strayed => strayed')
        /\ (LeavesDraft(p) /\ face.shown /\ ~face'.shown => strayed')
    <3>1. CASE face' = Succeeded(p) /\ strayed' = (strayed \/ LeavesDraft(p))
      BY <1>0, <3>1 DEF LeavesDraft
    <3>2. CASE face' = Failed(p) /\ strayed' = strayed
      BY <1>0, <3>2, FailureDoes
    <3> QED
      BY <2>1, <3>1, <3>2
  <2>4. FormsTypeOK' /\ MountsInv'
    BY <2>1, <2>2, <2>3 DEF AnswerDoes, FormsTypeOK, MountsInv
  <2>5. DraftsDoNotLeak' /\ DraftsInv'
    BY <1>0, <2>1, <2>2, <2>3 DEF AnswerDoes, DraftsDoNotLeak, DraftsInv, Unguarded
  <2>6. Awaited' = Awaited \ {p}
    BY <2>1 DEF Awaited
  <2>7. p \in Awaited <=> Mine(p) /\ p.watched
    BY DEF Awaited, Mine
  <2>8. BusyInv'
    BY <2>1, <2>2, <2>6, <2>7 DEF AnswerDoes, BusyInv, Unguarded
  <2> QED
    BY <2>4, <2>5, <2>8
<1> QED
  BY <1>1, <1>2, <1>3, <1>5, <1>6, <1>7, <1>8, <1>10, <1>11, <1>12, <1>13, <1>15, <1>16, <1>17,
     <1>18, <1>19 DEF FormsNext

LEMMA FormsInvariance == FormsSpec => []FormsInv
<1>1. FormsInit => FormsInv
  BY FormsStart
<1>2. FormsInv /\ [FormsNext]_formVars => FormsInv'
  BY FormsStep
<1> QED
  BY <1>1, <1>2, PTL DEF FormsSpec

\* A form belongs to the attempt that is made in it: what it sends was entered in the attempt
\* that sends it, and its button is held by one request, which its component sent and still
\* watches, and no longer than that (the forms of the console, with answers, closings,
\* errors of the view and visits to other pages in any order).
THEOREM FormsKeep == FormsSpec => []FormsKeepToTheirAttempt
<1>1. FormsInv => FormsKeepToTheirAttempt
  <2> SUFFICES ASSUME FormsInv PROVE BusyWhileAwaited
    BY DEF FormsInv, FormsKeepToTheirAttempt
  <2>1. form \notin Unguarded => Cardinality(Awaited) <= 1
    <3>1. CASE Awaited = {}
      BY <3>1, FS_EmptySet
    <3>2. ASSUME NEW x \in Awaited, form \notin Unguarded PROVE Cardinality(Awaited) <= 1
      <4>1. Awaited = {x}
        BY <3>2 DEF FormsInv, BusyInv
      <4>2. Cardinality({x}) = 1
        BY FS_Singleton, Zenon
      <4> QED
        BY <4>1, <4>2
    <3> QED
      BY <3>1, <3>2
  <2> QED
    BY <2>1 DEF FormsInv, BusyInv, BusyWhileAwaited, Awaited
<1> QED
  BY <1>1, FormsInvariance, PTL

-----------------------------------------------------------------------------
(* The check of the imports.                                               *)

Paths == SourceFiles \cup ImportedPaths

\* What a path begins with.
LEMMA HeadOfPath ==
  ASSUME NEW p \in Seq(STRING), Len(p) > 0
  PROVE  /\ SubSeq(p, 1, 1) = <<p[1]>>
         /\ Len(p) > 1 => SubSeq(p, 1, 2) = <<p[1], p[2]>>
<1>1. Len(p) \in Nat
  OBVIOUS
<1>2. SubSeq(p, 1, 1) = [i \in 1..1 |-> p[i]]
  BY <1>1
<1>3. [i \in 1..1 |-> p[i]] = <<p[1]>>
  OBVIOUS
<1>4. ASSUME Len(p) > 1 PROVE SubSeq(p, 1, 2) = <<p[1], p[2]>>
  <2>1. SubSeq(p, 1, 2) = [i \in 1..2 |-> p[i]]
    BY <1>1, <1>4
  <2>2. [i \in 1..2 |-> p[i]] = <<p[1], p[2]>>
    OBVIOUS
  <2> QED
    BY <2>1, <2>2
<1> QED
  BY <1>2, <1>3, <1>4

LEMMA LayersHaveNames ==
  ASSUME NEW p \in Paths, Rank(p) > 0
  PROVE  /\ p \in Seq(STRING) /\ Len(p) > 1 /\ p[1] \in STRING /\ p[2] \in STRING
         /\ p[2] # "" /\ p[1] \in {"shared", "entities", "features", "app"}
<1>1. p \in Seq(STRING) /\ p # <<>>
  BY BoundariesAssumption, LayersAreDirectories DEF Paths
<1>2. p[1] \in {"shared", "entities", "features", "app"}
  BY DEF Rank
<1>3. Len(p) > 1
  BY <1>2, LayersAreDirectories DEF Paths
<1>4. 2 \in DOMAIN p
  BY <1>1, <1>3
<1>5. p[2] # ""
  BY <1>4, LayersAreDirectories DEF Paths
<1>6. p[1] \in STRING /\ p[2] \in STRING
  <2>1. 1 \in 1..Len(p) /\ 2 \in 1..Len(p)
    BY <1>1, <1>3
  <2> QED
    BY <1>1, <2>1, ElementOfSeq
<1> QED
  BY <1>1, <1>2, <1>3, <1>5, <1>6

\* What the rules take for a part of a layer is.
LEMMA UnderLayer ==
  ASSUME NEW p \in Paths, Rank(p) > 0, NEW layer \in {"shared", "entities", "features", "app"}
  PROVE  /\ Under(p, <<layer>>) <=> p[1] = layer
         /\ p[1] = layer => NameIn(layer, p) = p[2]
<1>1. p \in Seq(STRING) /\ Len(p) > 1
  BY LayersHaveNames
<1>2. SubSeq(p, 1, 1) = <<p[1]>>
  BY <1>1, HeadOfPath
<1>3. Len(<<layer>>) = 1
  OBVIOUS
<1>4. <<p[1]>> = <<layer>> <=> p[1] = layer
  OBVIOUS
<1>5. Under(p, <<layer>>) <=> p[1] = layer
  BY <1>1, <1>2, <1>3, <1>4 DEF Under
<1> QED
  BY <1>5 DEF NameIn

\* A slice and its index are of one layer and one slice, and both are its public API.
LEMMA TargetKeepsSlice ==
  ASSUME NEW p \in Paths, Rank(Target(p)) > 0
  PROVE  /\ Rank(p) = Rank(Target(p))
         /\ SliceOf(p) = SliceOf(Target(p))
         /\ Rank(p) \in {2, 3} => (PublicEntry(p) <=> PublicEntry(Target(p)))
<1>1. p \in Seq(STRING) /\ p # <<>>
  BY BoundariesAssumption, LayersAreDirectories DEF Paths
<1>2. CASE Rank(p) \in {2, 3} /\ Len(p) = 2
  <2>1. Target(p) = Append(p, "index")
    BY <1>2 DEF Target
  <2>2. /\ Len(Target(p)) = 3
        /\ Target(p)[1] = p[1] /\ Target(p)[2] = p[2] /\ Target(p)[3] = "index"
    <3> DEFINE segments == STRING \cup {"index"}
    <3>1. p \in Seq(segments) /\ "index" \in segments
      BY <1>1
    <3> HIDE DEF segments
    <3> QED
      BY <1>2, <2>1, <3>1
  <2>3. Rank(Target(p)) = Rank(p)
    BY <2>2 DEF Rank
  <2>4. SubSeq(Target(p), 1, 2) = SubSeq(p, 1, 2)
    BY <1>1, <1>2, <2>1, <2>2
  <2> QED
    BY <1>2, <2>2, <2>3, <2>4 DEF SliceOf, PublicEntry
<1>3. CASE ~(Rank(p) \in {2, 3} /\ Len(p) = 2)
  BY <1>3 DEF Target
<1> QED
  BY <1>2, <1>3

LEMMA OneSlice ==
  ASSUME NEW p \in Paths, NEW q \in Paths, Rank(p) > 0, p[1] = q[1], p[2] = q[2]
  PROVE  SliceOf(p) = SliceOf(q)
<1>1. Rank(q) = Rank(p)
  BY DEF Rank
<1>2. /\ p \in Seq(STRING) /\ Len(p) > 1 /\ q \in Seq(STRING) /\ Len(q) > 1
  BY <1>1, LayersHaveNames
<1>3. SubSeq(p, 1, 2) = SubSeq(q, 1, 2)
  <2>1. SubSeq(p, 1, 2) = <<p[1], p[2]>> /\ SubSeq(q, 1, 2) = <<q[1], q[2]>>
    BY <1>2, HeadOfPath
  <2> QED
    BY <2>1
<1> QED
  BY <1>1, <1>3 DEF SliceOf

\* What an import leads to that breaks no rule.
LEMMA RulesKeepLayers ==
  ASSUME NEW f \in Paths, NEW to \in Paths, PathRules(f, to) = {},
         Rank(f) > 0, Rank(Target(to)) > 0
  PROVE  /\ Rank(Target(to)) =< Rank(f)
         /\ \/ Rank(f) = 4 \/ Rank(Target(to)) = 1
            \/ SliceOf(Target(to)) = SliceOf(f) \/ PublicEntry(Target(to))
<1>1. /\ Rank(to) = Rank(Target(to)) /\ SliceOf(to) = SliceOf(Target(to))
      /\ Rank(to) \in {2, 3} => (PublicEntry(to) <=> PublicEntry(Target(to)))
  BY TargetKeepsSlice
<1>2. /\ ~(Under(f, <<"shared">>) /\ \E layer \in {"entities", "features", "app"} :
                                       Under(to, <<layer>>))
      /\ ~(Under(f, <<"entities">>) /\ \E layer \in {"features", "app"} : Under(to, <<layer>>))
      /\ ~AcrossSlices("entities", f, to)
      /\ ~(Under(f, <<"features">>) /\ Under(to, <<"entities">>) /\ ~PublicEntry(to))
      /\ ~(Under(f, <<"features">>) /\ Under(to, <<"app">>))
      /\ ~AcrossSlices("features", f, to)
  BY DEF PathRules
<1>3. /\ f[1] \in {"shared", "entities", "features", "app"} /\ f[2] # ""
      /\ to[1] \in {"shared", "entities", "features", "app"} /\ to[2] # ""
  BY <1>1, LayersHaveNames
<1>4. \A layer \in {"shared", "entities", "features", "app"} :
        /\ Under(f, <<layer>>) <=> f[1] = layer
        /\ f[1] = layer => NameIn(layer, f) = f[2]
        /\ Under(to, <<layer>>) <=> to[1] = layer
        /\ to[1] = layer => NameIn(layer, to) = to[2]
  BY <1>1, UnderLayer
<1>5. f[1] = to[1] /\ f[2] = to[2] => SliceOf(to) = SliceOf(f)
  BY OneSlice
<1>6. CASE f[1] = "shared"
  <2>1. to[1] = "shared"
    BY <1>2, <1>3, <1>4, <1>6
  <2> QED
    BY <1>1, <1>6, <2>1 DEF Rank
<1>7. CASE f[1] = "entities"
  <2>1. to[1] \in {"shared", "entities"}
    BY <1>2, <1>3, <1>4, <1>7
  <2>2. to[1] = "entities" => f[2] = to[2] \/ PublicEntry(to)
    BY <1>2, <1>3, <1>4, <1>7 DEF AcrossSlices
  <2> QED
    BY <1>1, <1>5, <1>7, <2>1, <2>2 DEF Rank
<1>8. CASE f[1] = "features"
  <2>1. to[1] \in {"shared", "entities", "features"}
    BY <1>2, <1>3, <1>4, <1>8
  <2>2. to[1] = "features" => f[2] = to[2] \/ PublicEntry(to)
    BY <1>2, <1>3, <1>4, <1>8 DEF AcrossSlices
  <2>3. to[1] = "entities" => PublicEntry(to)
    BY <1>2, <1>4, <1>8
  <2> QED
    BY <1>1, <1>5, <1>8, <2>1, <2>2, <2>3 DEF Rank
<1>9. CASE f[1] = "app"
  <2>1. Rank(f) = 4
    BY <1>9 DEF Rank
  <2>2. Rank(to) =< 4
    BY DEF Rank
  <2> QED
    BY <1>1, <2>1, <2>2
<1> QED
  BY <1>3, <1>6, <1>7, <1>8, <1>9

\* An import that the baseline of a tree that passes does not name breaks no rule.
LEMMA UnnamedIsClean ==
  ASSUME BoundariesInv, verdict = "pass", NEW u \in uses,
         [file |-> u.file, spec |-> u.spec]
           \notin {[file |-> line.file, spec |-> line.spec] : line \in baseline},
         u.spec.form \in {"alias", "relative"}
  PROVE  u.spec \in Specifiers /\ PathRules(u.file, u.spec.to) = {}
<1>1. u \in Uses
  BY DEF BoundariesInv, BoundariesTypeOK
<1>2. u.spec \in Specifiers
  BY <1>1 DEF Uses, Packages, BackendHost
<1>3. PathRules(u.file, u.spec.to) \subseteq Broken(u.file, u.spec)
  BY DEF Broken
<1>4. ASSUME NEW r \in PathRules(u.file, u.spec.to) PROVE FALSE
  <2>1. [file |-> u.file, spec |-> u.spec, rule |-> r] \in Violations(uses)
    <3>1. [file |-> u.file, spec |-> u.spec, rule |-> r]
            \in {[file |-> u.file, spec |-> u.spec, rule |-> q] : q \in Broken(u.file, u.spec)}
      BY <1>3, <1>4
    <3> QED
      BY <3>1 DEF Violations
  <2>2. [file |-> u.file, spec |-> u.spec, rule |-> r] \in baseline
    BY <2>1 DEF BoundariesInv
  <2> QED
    BY <2>2
<1> QED
  BY <1>2, <1>4

LEMMA LayersHoldInv == BoundariesInv => LayersHold
<1> SUFFICES ASSUME BoundariesInv, verdict = "pass",
                    NEW f \in {u.file : u \in uses}, Rank(f) > 0,
                    NEW to \in Reaches(f), Rank(to) > 0
             PROVE  /\ Rank(to) =< Rank(f)
                    /\ \/ Rank(f) = 4 \/ Rank(to) = 1 \/ SliceOf(to) = SliceOf(f)
                       \/ PublicEntry(to)
                       \/ \E g \in Reaches(f) : SliceOf(g) = SliceOf(to) /\ PublicEntry(g)
  BY DEF LayersHold, BoundariesInv
<1> DEFINE excused == {[file |-> line.file, spec |-> line.spec] : line \in baseline}
           Direct(h) == {Target(u.spec.to) : u \in
                           {w \in uses \ excused :
                              w.file = h /\ w.spec.form \in {"alias", "relative"}}}
<1>1. Reaches(f) = Direct(f) \cup UNION {Direct(g) : g \in {h \in Direct(f) : Rank(h) > 0}}
  BY DEF Reaches
\* One import.
<1>2. ASSUME NEW h, NEW t \in Direct(h), Rank(h) > 0, Rank(t) > 0
      PROVE  /\ Rank(t) =< Rank(h)
             /\ Rank(h) = 4 \/ Rank(t) = 1 \/ SliceOf(t) = SliceOf(h) \/ PublicEntry(t)
  <2>1. PICK u \in uses \ excused :
               /\ u.file = h /\ u.spec.form \in {"alias", "relative"}
               /\ t = Target(u.spec.to)
    BY <1>2
  <2>2. u \in Uses
    BY DEF BoundariesInv, BoundariesTypeOK
  <2>3. u = [file |-> u.file, spec |-> u.spec] /\ h \in Paths
    BY <2>1, <2>2 DEF Uses, Paths
  <2>4. u.spec \in Specifiers /\ PathRules(h, u.spec.to) = {}
    BY <2>1, <2>3, UnnamedIsClean
  <2>5. u.spec.to \in Paths
    BY <2>4 DEF Specifiers, Paths
  <2> QED
    BY <1>2, <2>1, <2>3, <2>4, <2>5, RulesKeepLayers
<1> HIDE DEF excused, Direct
<1>3. Rank(f) \in 1..4 /\ \A g : Rank(g) \in 0..4
  BY DEF Rank
<1>4. CASE to \in Direct(f)
  BY <1>2, <1>4
<1>5. CASE \E g \in Direct(f) : Rank(g) > 0 /\ to \in Direct(g)
  <2>1. PICK g \in Direct(f) : Rank(g) > 0 /\ to \in Direct(g)
    BY <1>5
  <2>2. g \in Reaches(f)
    BY <1>1, <2>1
  <2>3. /\ Rank(g) =< Rank(f)
        /\ Rank(f) = 4 \/ Rank(g) = 1 \/ SliceOf(g) = SliceOf(f) \/ PublicEntry(g)
    BY <1>2, <2>1
  <2>4. /\ Rank(to) =< Rank(g)
        /\ Rank(g) = 4 \/ Rank(to) = 1 \/ SliceOf(to) = SliceOf(g) \/ PublicEntry(to)
    BY <1>2, <2>1
  <2>5. Rank(g) \in 0..4 /\ Rank(to) \in 0..4
    BY <1>3
  <2>6. Rank(to) =< Rank(f) /\ (Rank(g) = 4 => Rank(f) = 4) /\ (Rank(g) = 1 => Rank(to) = 1)
    BY <1>3, <2>3, <2>4, <2>5
  <2> QED
    BY <2>2, <2>3, <2>4, <2>6
<1> QED
  BY <1>1, <1>4, <1>5

LEMMA ViolationsTyped ==
  ASSUME NEW tree \in SUBSET Uses, NEW v \in Violations(tree)
  PROVE  [file |-> v.file, spec |-> v.spec] \in Uses
<1> DEFINE Of(u) == {[file |-> u.file, spec |-> u.spec, rule |-> r] :
                        r \in Broken(u.file, u.spec)}
           places == {[file |-> f, spec |-> BackendHost, rule |-> "place"] :
                        f \in {g \in SourceFiles : Retired(g)}}
<1>1. ASSUME NEW u \in tree, v \in Of(u) PROVE [file |-> v.file, spec |-> v.spec] \in Uses
  BY <1>1 DEF Uses
<1>2. CASE v \in places
  BY <1>2 DEF Uses
<1>3. Violations(tree) = (UNION {Of(u) : u \in tree}) \cup places
  BY DEF Violations
<1>4. v \in UNION {Of(u) : u \in tree} \/ v \in places
  BY <1>3
<1>5. v \in UNION {Of(u) : u \in tree} => \E u \in tree : v \in Of(u)
  OBVIOUS
<1> QED
  BY <1>1, <1>2, <1>4, <1>5

LEMMA BoundariesStart == BoundariesInit => BoundariesInv
<1> SUFFICES ASSUME BoundariesInit PROVE BoundariesInv
  OBVIOUS
<1>1. uses \subseteq Uses /\ IsFiniteSet(uses)
  BY BoundariesAssumption, FS_Subset DEF BoundariesInit
<1>2. \A v \in baseline \cup accepted : [file |-> v.file, spec |-> v.spec] \in Uses
  BY <1>1, ViolationsTyped DEF BoundariesInit
<1> QED
  BY <1>1, <1>2 DEF BoundariesInit, BoundariesInv, BoundariesTypeOK

LEMMA BoundariesStep == BoundariesInv /\ [BoundariesNext]_boundaryVars => BoundariesInv'
<1> SUFFICES ASSUME BoundariesInv, [BoundariesNext]_boundaryVars PROVE BoundariesInv'
  OBVIOUS
<1> USE DEF BoundariesInv, BoundariesTypeOK
<1>1. CASE UNCHANGED boundaryVars
  BY <1>1 DEF boundaryVars, Violations
<1>2. CASE WriteImport
  <2>1. PICK u \in Uses \ uses : uses' = uses \cup {u}
    BY <1>2 DEF WriteImport
  <2>2. IsFiniteSet(uses') /\ Cardinality(uses') = Cardinality(uses) + 1
    BY <2>1, FS_AddElement
  <2>3. Cardinality(uses) \in Nat /\ Cardinality(uses) < MaxUses
    BY <1>2, FS_CardinalityType DEF WriteImport
  <2>4. Cardinality(uses') =< MaxUses
    BY <2>2, <2>3, BoundariesAssumption
  <2> QED
    BY <1>2, <2>1, <2>2, <2>4 DEF WriteImport
<1>3. CASE RemoveImport
  <2>1. PICK u \in uses : uses' = uses \ {u}
    BY <1>3 DEF RemoveImport
  <2>2. IsFiniteSet(uses') /\ Cardinality(uses') = Cardinality(uses) - 1
    BY <2>1, FS_RemoveElement
  <2>3. Cardinality(uses) \in Nat
    BY FS_CardinalityType
  <2>4. Cardinality(uses') =< MaxUses
    BY <2>2, <2>3, BoundariesAssumption
  <2> QED
    BY <1>3, <2>1, <2>2, <2>4 DEF RemoveImport
<1>4. CASE DropBaseline
  BY <1>4 DEF DropBaseline
<1>5. CASE RunCheck
  <2>1. uses' = uses /\ baseline' = baseline
    BY <1>5 DEF RunCheck
  <2>2. Violations(uses)' = Violations(uses)
    BY <2>1 DEF Violations
  <2>3. CASE Passes(Violations(uses))
    <3>1. Violations(uses) = baseline
      BY <2>3 DEF Passes
    <3> QED
      BY <1>5, <2>1, <2>2, <2>3, <3>1 DEF RunCheck
  <2>4. CASE ~Passes(Violations(uses))
    BY <1>5, <2>1, <2>2, <2>4 DEF RunCheck
  <2> QED
    BY <2>3, <2>4
<1> QED
  BY <1>1, <1>2, <1>3, <1>4, <1>5 DEF BoundariesNext

\* Whatever the files import, and however the baseline is changed between two checks: in a
\* tree that passes no file reaches a higher layer or the inside of another slice, but by
\* what the baseline names, and no violation slips back.
THEOREM LayersStayApart == BoundariesSpec => [](BoundariesInv /\ LayersHold)
<1>1. BoundariesInit => BoundariesInv
  BY BoundariesStart
<1>2. BoundariesInv /\ [BoundariesNext]_boundaryVars => BoundariesInv'
  BY BoundariesStep
<1>3. BoundariesInv => LayersHold
  BY LayersHoldInv
<1> QED
  BY <1>1, <1>2, <1>3, PTL DEF BoundariesSpec
=============================================================================
