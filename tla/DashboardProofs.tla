-------------------------- MODULE DashboardProofs --------------------------
(***************************************************************************)
(* Proofs about TeamAccess and DashboardAccess, for any number of members, *)
(* admins, keys, tabs and concurrent revocations, and any lifetime of the  *)
(* cookies.                                                                *)
(***************************************************************************)
EXTENDS DashboardAccess, TLAPS

(* Members and keys (TeamAccess).                                          *)

LEMMA TypeInit == Init => TypeOK
  BY TeamAssumption DEF Init, TypeOK, TeamAssumption

LEMMA TypeStep == TypeOK /\ [Next]_vars => TypeOK'
<1> SUFFICES ASSUME TypeOK, [Next]_vars PROVE TypeOK'
  OBVIOUS
<1> USE TeamAssumption DEF TeamAssumption, TypeOK, key_vars, revoke_vars
<1>1. ASSUME NEW u \in Users, CreateUser(u) PROVE TypeOK'
  BY <1>1 DEF CreateUser
<1>2. CASE BootstrapAdmin
  BY <1>2 DEF BootstrapAdmin
<1>3. CASE BootstrapKeyUpsert
  BY <1>3 DEF BootstrapKeyUpsert
<1>4. ASSUME NEW k \in Keys, NEW u \in Users, MintAuthorized(k, u) PROVE TypeOK'
  BY <1>4 DEF MintAuthorized
<1>5. ASSUME NEW k \in Keys, MintInsert(k) PROVE TypeOK'
  BY <1>5 DEF MintInsert
<1>6. ASSUME NEW k \in Keys, MintForSystem(k) PROVE TypeOK'
  BY <1>6 DEF MintForSystem
<1>7. ASSUME NEW k \in Keys, RevokeKey(k) PROVE TypeOK'
  BY <1>7 DEF RevokeKey
<1>8. ASSUME NEW t \in Revokers, NEW u \in Users, RevokeRead(t, u) PROVE TypeOK'
  BY <1>8 DEF RevokeRead
<1>9. ASSUME NEW t \in Revokers, NEW u \in Users, LockAdmin(t, u) PROVE TypeOK'
  BY <1>9 DEF LockAdmin
<1>10. ASSUME NEW t \in Revokers, RevokeSnapshot(t) PROVE TypeOK'
  BY <1>10 DEF RevokeSnapshot, ActiveAdmins
<1>11. ASSUME NEW t \in Revokers, RevokeRefused(t) PROVE TypeOK'
  BY <1>11 DEF RevokeRefused, RevokeEnds
<1>12. ASSUME NEW t \in Revokers, RevokeUpdate(t) PROVE TypeOK'
  BY <1>12 DEF RevokeUpdate
<1>13. ASSUME NEW t \in Revokers, RevokeCascade(t) PROVE TypeOK'
  BY <1>13 DEF RevokeCascade, LiveKeysOf
<1>14. ASSUME NEW t \in Revokers, RevokeCommit(t) PROVE TypeOK'
  BY <1>14 DEF RevokeCommit, RevokeEnds
<1>15. ASSUME NEW t \in Revokers, RevokeAbort(t) PROVE TypeOK'
  BY <1>15 DEF RevokeAbort, RevokeEnds
<1>16. CASE UNCHANGED vars
  BY <1>16 DEF vars
<1>17. QED
  BY <1>1, <1>2, <1>3, <1>4, <1>5, <1>6, <1>7, <1>8, <1>9, <1>10, <1>11, <1>12,
     <1>13, <1>14, <1>15, <1>16
     DEF Next, Key, Revoke

\* Every reachable state is well typed.
THEOREM TypeCorrect == Spec => []TypeOK
<1>1. QED BY TypeInit, TypeStep, PTL DEF Spec
-----------------------------------------------------------------------------
(* The admin rows a revocation has counted are its own. *)

LEMMA CountedInit == Init => AdminsCountedAreLocked
  BY DEF Init, AdminsCountedAreLocked

\* A transaction that ends unlocks its own rows only, so what the others have
\* counted stays locked.
LEMMA EndKeepsOthersCounted ==
  ASSUME TypeOK, AdminsCountedAreLocked, NEW t \in Revokers, RevokeEnds(t),
         \A u \in Users : user'[u] # user[u] => user_lock[u] = t
  PROVE  AdminsCountedAreLocked'
<1> USE TeamAssumption DEF TeamAssumption, TypeOK, AdminsCountedAreLocked,
        RevokeEnds, Remaining
<1> SUFFICES ASSUME NEW x \in Revokers
             PROVE  /\ revoke_step'[x] # "idle" => target'[x] \in Users
                    /\ revoke_step'[x] = "update" => target'[x] \notin Admins
                    /\ \A a \in admin_rows'[x] : user_lock'[a] = x /\ user'[a] = "active"
                    /\ revoke_step'[x] \in {"cascade", "commit"} =>
                         /\ user_lock'[target'[x]] = x
                         /\ target'[x] \in Admins => Remaining(x)' # {}
  BY DEF Remaining
<1>1. CASE x = t
  BY <1>1
<1>2. CASE x # t
  <2>1. /\ revoke_step'[x] = revoke_step[x] /\ target'[x] = target[x]
        /\ admin_rows'[x] = admin_rows[x]
    BY <1>2
  <2>2. \A a \in admin_rows[x] : user_lock'[a] = x /\ user'[a] = "active"
    BY <1>2
  <2>3. revoke_step[x] \in {"cascade", "commit"} => user_lock'[target[x]] = x
    BY <1>2
  <2>4. QED BY <2>1, <2>2, <2>3
<1>3. QED BY <1>1, <1>2

LEMMA CountedStep ==
  TypeOK /\ AdminsCountedAreLocked /\ [Next]_vars => AdminsCountedAreLocked'
<1> SUFFICES ASSUME TypeOK, AdminsCountedAreLocked, [Next]_vars
             PROVE  AdminsCountedAreLocked'
  OBVIOUS
<1> USE TeamAssumption DEF TeamAssumption, TypeOK, key_vars, revoke_vars
\* A member who appears was not one of the admins counted.
<1>1. ASSUME NEW u \in Users, user[u] = "absent",
             user' = [user EXCEPT ![u] = "active"],
             UNCHANGED <<user_lock, revoke_vars>>
      PROVE  AdminsCountedAreLocked'
  BY <1>1 DEF AdminsCountedAreLocked, Remaining
<1>2. ASSUME UNCHANGED <<user, user_lock, revoke_vars>>
      PROVE  AdminsCountedAreLocked'
  BY <1>2 DEF AdminsCountedAreLocked, Remaining
<1>3. ASSUME NEW k \in Keys, Key(k) PROVE AdminsCountedAreLocked'
  BY <1>2, <1>3 DEF Key, MintAuthorized, MintInsert, MintForSystem, RevokeKey
<1>4. ASSUME NEW t \in Revokers, NEW u \in Users, RevokeRead(t, u)
      PROVE  AdminsCountedAreLocked'
  BY <1>4 DEF RevokeRead, AdminsCountedAreLocked, Remaining
<1>5. ASSUME NEW t \in Revokers, NEW a \in Users, LockAdmin(t, a)
      PROVE  AdminsCountedAreLocked'
  BY <1>5 DEF LockAdmin, AdminsCountedAreLocked, Unlocked, Remaining
<1>6. ASSUME NEW t \in Revokers, RevokeSnapshot(t) PROVE AdminsCountedAreLocked'
  BY <1>6 DEF RevokeSnapshot, AdminsCountedAreLocked, Remaining
<1>7. ASSUME NEW t \in Revokers, RevokeRefused(t) PROVE AdminsCountedAreLocked'
  BY <1>7, EndKeepsOthersCounted DEF RevokeRefused
<1>8. ASSUME NEW t \in Revokers, RevokeUpdate(t) PROVE AdminsCountedAreLocked'
  BY <1>8 DEF RevokeUpdate, LocksTaken, AdminsCountedAreLocked, Remaining
<1>9. ASSUME NEW t \in Revokers, RevokeCascade(t) PROVE AdminsCountedAreLocked'
  BY <1>9 DEF RevokeCascade, AdminsCountedAreLocked, Remaining
<1>10. ASSUME NEW t \in Revokers, RevokeCommit(t) PROVE AdminsCountedAreLocked'
  <2>1. RevokeEnds(t) /\ \A u \in Users : user'[u] # user[u] => user_lock[u] = t
    BY <1>10 DEF RevokeCommit, AdminsCountedAreLocked
  <2>2. QED BY <2>1, EndKeepsOthersCounted
<1>11. ASSUME NEW t \in Revokers, RevokeAbort(t) PROVE AdminsCountedAreLocked'
  BY <1>11, EndKeepsOthersCounted DEF RevokeAbort
<1>12. QED
  BY <1>1, <1>2, <1>3, <1>4, <1>5, <1>6, <1>7, <1>8, <1>9, <1>10, <1>11
     DEF Next, CreateUser, BootstrapAdmin, BootstrapKeyUpsert, Revoke, vars

\* What a revocation counts cannot change before it ends: the rows are locked
\* by it, and past its check one of them is not its target.
THEOREM CountedAdminsAreLocked == Spec => []AdminsCountedAreLocked
<1>1. QED
  BY TypeInit, TypeStep, CountedInit, CountedStep, PTL DEF Spec
-----------------------------------------------------------------------------
(* An admin remains. *)

LEMMA AdminInit == Init => AdminRemains
  BY TeamAssumption DEF Init, AdminRemains, TeamAssumption

LEMMA AdminStep ==
  TypeOK /\ AdminsCountedAreLocked /\ AdminRemains /\ [Next]_vars => AdminRemains'
<1> SUFFICES ASSUME TypeOK, AdminsCountedAreLocked, AdminRemains, [Next]_vars
             PROVE  AdminRemains'
  OBVIOUS
<1> USE TeamAssumption DEF TeamAssumption, TypeOK, AdminRemains, ActiveAdmins
<1>1. ASSUME NEW u \in Users, user[u] = "absent",
             user' = [user EXCEPT ![u] = "active"]
      PROVE  AdminRemains'
  BY <1>1
<1>2. ASSUME UNCHANGED user PROVE AdminRemains'
  BY <1>2
\* The commit leaves an admin its transaction has locked and counted.
<1>3. ASSUME NEW t \in Revokers, RevokeCommit(t) PROVE AdminRemains'
  <2>1. target[t] \in Users /\ user' = [user EXCEPT ![target[t]] = "revoked"]
    BY <1>3 DEF RevokeCommit, AdminsCountedAreLocked
  <2>2. CASE target[t] \in Admins
    <3>1. PICK a \in admin_rows[t] : a # target[t]
      BY <1>3, <2>2 DEF RevokeCommit, AdminsCountedAreLocked, Remaining
    <3>2. a \in Admins /\ user'[a] = "active"
      BY <2>1, <3>1 DEF AdminsCountedAreLocked
    <3>3. QED BY <3>2
  <2>3. CASE target[t] \notin Admins
    <3>1. \A a \in Admins : user'[a] = user[a]
      BY <2>1, <2>3
    <3>2. QED BY <3>1
  <2>4. QED BY <2>2, <2>3
<1>4. ASSUME NEW k \in Keys, Key(k) PROVE UNCHANGED user
  BY <1>4 DEF Key, MintAuthorized, MintInsert, MintForSystem, RevokeKey
<1>5. ASSUME NEW t \in Revokers, Revoke(t) PROVE UNCHANGED user \/ RevokeCommit(t)
  BY <1>5 DEF Revoke, RevokeRead, LockAdmin, RevokeSnapshot, RevokeRefused,
              RevokeUpdate, RevokeCascade, RevokeAbort
<1>6. QED
  BY <1>1, <1>2, <1>3, <1>4, <1>5
     DEF Next, CreateUser, BootstrapAdmin, BootstrapKeyUpsert, vars

\* The team keeps an active admin whatever revocations run at once.
THEOREM AnAdminRemains == Spec => []AdminRemains
<1>1. QED
  BY TypeInit, TypeStep, CountedInit, CountedStep, AdminInit, AdminStep, PTL DEF Spec
-----------------------------------------------------------------------------
(* Revocation is final, and leaves only racing keys. *)

LEMMA FinalStep ==
  TypeOK /\ [Next]_vars =>
    \A u \in Users : user[u] = "revoked" => user'[u] = "revoked"
<1> SUFFICES ASSUME TypeOK, [Next]_vars, NEW u \in Users, user[u] = "revoked"
             PROVE  user'[u] = "revoked"
  OBVIOUS
<1> USE DEF TypeOK
<1>1. ASSUME NEW v \in Users, CreateUser(v) PROVE user'[u] = "revoked"
  BY <1>1 DEF CreateUser
<1>2. CASE BootstrapAdmin
  BY <1>2, TeamAssumption DEF BootstrapAdmin, TeamAssumption
<1>3. ASSUME NEW t \in Revokers, RevokeCommit(t) PROVE user'[u] = "revoked"
  BY <1>3 DEF RevokeCommit
<1>4. ASSUME UNCHANGED user PROVE user'[u] = "revoked"
  BY <1>4
<1>5. ASSUME NEW k \in Keys, Key(k) PROVE UNCHANGED user
  BY <1>5 DEF Key, MintAuthorized, MintInsert, MintForSystem, RevokeKey
<1>6. ASSUME NEW t \in Revokers, Revoke(t) PROVE UNCHANGED user \/ RevokeCommit(t)
  BY <1>6 DEF Revoke, RevokeRead, LockAdmin, RevokeSnapshot, RevokeRefused,
              RevokeUpdate, RevokeCascade, RevokeAbort
<1>7. QED
  BY <1>1, <1>2, <1>3, <1>4, <1>5, <1>6 DEF Next, BootstrapKeyUpsert, vars

\* Nothing makes a revoked member active again, `migrate` included.
THEOREM RevocationsAreFinal == Spec => RevocationIsFinal
<1> DEFINE A == \A u \in Users : user[u] = "revoked" => user'[u] = "revoked"
<1>1. TypeOK /\ [Next]_vars => [A]_vars
  BY FinalStep
<1>2. QED
  BY <1>1, TypeInit, TypeStep, PTL DEF Spec, RevocationIsFinal

\* Keys that do not exist yet, and the bootstrap key, belong to nobody.
UnownedKeys ==
  /\ \A k \in Keys : key_state[k] = "absent" => key_owner[k] = NoOne
  /\ key_owner[BootstrapKey] = NoOne /\ mint_for[BootstrapKey] = NoOne

\* What the cascade of a revocation about to commit leaves of its target's keys.
CascadeMissesOnlyRacers ==
  \A t \in Revokers : revoke_step[t] = "commit" =>
    LiveKeysOf(target[t]) \subseteq cascaded[t] \cup raced

KeysInv == UnownedKeys /\ CascadeMissesOnlyRacers /\ OnlyRacingKeysSurvive

LEMMA KeysInit == Init => KeysInv
  BY TeamAssumption
     DEF Init, KeysInv, UnownedKeys, CascadeMissesOnlyRacers,
         OnlyRacingKeysSurvive, LiveKeysOf, TeamAssumption

LEMMA KeysStep ==
  TypeOK /\ AdminsCountedAreLocked /\ KeysInv /\ [Next]_vars => KeysInv'
<1> SUFFICES ASSUME TypeOK, AdminsCountedAreLocked, KeysInv, [Next]_vars
             PROVE  KeysInv'
  OBVIOUS
<1> USE TeamAssumption
    DEF TeamAssumption, TypeOK, KeysInv, key_vars, revoke_vars
\* Neither new members nor keys without an owner give a revoked member a key.
<1>1. ASSUME UNCHANGED <<key_vars, revoke_vars>>,
             \A u \in Users : user'[u] = "revoked" => user[u] = "revoked"
      PROVE  KeysInv'
  BY <1>1 DEF UnownedKeys, CascadeMissesOnlyRacers, OnlyRacingKeysSurvive, LiveKeysOf
<1>2. ASSUME UNCHANGED <<user, key_owner, mint_for, raced, revoke_vars>>,
             \A k \in Keys : /\ key_state'[k] = "absent" => key_state[k] = "absent"
                             /\ key_state'[k] = "live" => key_state[k] = "live" \/ key_owner[k] = NoOne
      PROVE  KeysInv'
  BY <1>2 DEF UnownedKeys, CascadeMissesOnlyRacers, OnlyRacingKeysSurvive,
              LiveKeysOf, AdminsCountedAreLocked
<1>3. ASSUME NEW u \in Users, CreateUser(u) PROVE KeysInv'
  BY <1>1, <1>3 DEF CreateUser
<1>4. CASE BootstrapAdmin
  BY <1>1, <1>4 DEF BootstrapAdmin
<1>5. CASE BootstrapKeyUpsert
  BY <1>2, <1>5 DEF BootstrapKeyUpsert, UnownedKeys
<1>6. ASSUME NEW k \in Keys, NEW u \in Users, MintAuthorized(k, u) PROVE KeysInv'
  BY <1>6 DEF MintAuthorized, UnownedKeys, CascadeMissesOnlyRacers,
              OnlyRacingKeysSurvive, LiveKeysOf
<1>7. ASSUME NEW k \in Keys, MintForSystem(k) PROVE KeysInv'
  BY <1>2, <1>7 DEF MintForSystem, UnownedKeys
<1>8. ASSUME NEW k \in Keys, RevokeKey(k) PROVE KeysInv'
  BY <1>2, <1>8 DEF RevokeKey
<1>9. ASSUME NEW k \in Keys, MintInsert(k) PROVE KeysInv'
  <2>1. UnownedKeys'
    BY <1>9 DEF MintInsert, UnownedKeys
  <2>2. ASSUME NEW u \in Users, CascadeIsPast(u)
        PROVE  LiveKeysOf(u)' \subseteq LiveKeysOf(u) \cup raced'
    BY <1>9, <2>2 DEF MintInsert, LiveKeysOf
  <2>3. raced \subseteq raced'
    BY <1>9 DEF MintInsert
  <2>4. CascadeMissesOnlyRacers'
    BY <1>9, <2>2, <2>3
       DEF MintInsert, CascadeMissesOnlyRacers, CascadeIsPast, AdminsCountedAreLocked
  <2>5. OnlyRacingKeysSurvive'
    BY <1>9, <2>2, <2>3 DEF MintInsert, OnlyRacingKeysSurvive, CascadeIsPast
  <2>6. QED BY <2>1, <2>4, <2>5
\* The steps of a revocation before its commit write no key and no member.
<1>10. ASSUME NEW t \in Revokers, UNCHANGED <<user, key_vars>>,
              \A x \in Revokers : revoke_step'[x] = "commit" =>
                \/ /\ revoke_step[x] = "commit" /\ target'[x] = target[x]
                   /\ cascaded'[x] = cascaded[x]
                \/ cascaded'[x] = LiveKeysOf(target'[x])
       PROVE  KeysInv'
  BY <1>10 DEF UnownedKeys, CascadeMissesOnlyRacers, OnlyRacingKeysSurvive, LiveKeysOf
<1>11. ASSUME NEW t \in Revokers, NEW u \in Users, RevokeRead(t, u) \/ LockAdmin(t, u)
       PROVE  KeysInv'
  BY <1>10, <1>11 DEF RevokeRead, LockAdmin
<1>12. ASSUME NEW t \in Revokers,
              RevokeSnapshot(t) \/ RevokeUpdate(t) \/ RevokeCascade(t)
       PROVE  KeysInv'
  BY <1>10, <1>12 DEF RevokeSnapshot, RevokeUpdate, RevokeCascade
<1>13. ASSUME NEW t \in Revokers, RevokeRefused(t) \/ RevokeAbort(t) PROVE KeysInv'
  BY <1>10, <1>13 DEF RevokeRefused, RevokeAbort, RevokeEnds
<1>14. ASSUME NEW t \in Revokers, RevokeCommit(t) PROVE KeysInv'
  <2>1. UnownedKeys'
    BY <1>14 DEF RevokeCommit, UnownedKeys
  <2>2. \A u \in Users \cup {NoOne} : LiveKeysOf(u)' = LiveKeysOf(u) \ cascaded[t]
    BY <1>14 DEF RevokeCommit, LiveKeysOf
  <2>3. CascadeMissesOnlyRacers'
    <3> SUFFICES ASSUME NEW x \in Revokers, revoke_step'[x] = "commit"
                 PROVE  LiveKeysOf(target[x])' \subseteq cascaded[x] \cup raced
                        /\ target'[x] = target[x] /\ cascaded'[x] = cascaded[x]
      BY <1>14 DEF RevokeCommit, CascadeMissesOnlyRacers, LiveKeysOf
    <3>1. x # t
      BY <1>14 DEF RevokeCommit, RevokeEnds
    <3>2. /\ revoke_step[x] = "commit" /\ target'[x] = target[x]
          /\ cascaded'[x] = cascaded[x]
      BY <1>14, <3>1 DEF RevokeCommit, RevokeEnds
    <3>3. QED BY <2>2, <3>2 DEF CascadeMissesOnlyRacers
  <2>4. OnlyRacingKeysSurvive'
    <3> SUFFICES ASSUME NEW u \in Users, user'[u] = "revoked"
                 PROVE  LiveKeysOf(u)' \subseteq raced
      BY <1>14 DEF RevokeCommit, OnlyRacingKeysSurvive
    <3>1. CASE u = target[t]
      BY <1>14, <2>2, <3>1 DEF RevokeCommit, CascadeMissesOnlyRacers
    <3>2. CASE u # target[t]
      BY <1>14, <2>2, <3>2 DEF RevokeCommit, OnlyRacingKeysSurvive
    <3>3. QED BY <3>1, <3>2
  <2>5. QED BY <2>1, <2>3, <2>4
<1>15. CASE UNCHANGED vars
  BY <1>1, <1>15 DEF vars
<1>16. QED
  BY <1>3, <1>4, <1>5, <1>6, <1>7, <1>8, <1>9, <1>11, <1>12, <1>13, <1>14, <1>15
     DEF Next, Key, Revoke

\* A key that outlives its owner's revocation was inserted by a request that
\* passed its identity check before the revocation and inserted after the
\* cascade; no other key does.
THEOREM SurvivorsRaced == Spec => []OnlyRacingKeysSurvive
<1>1. KeysInv => OnlyRacingKeysSurvive
  BY DEF KeysInv
<1>2. QED
  BY <1>1, TypeInit, TypeStep, CountedInit, CountedStep, KeysInit, KeysStep, PTL
     DEF Spec
-----------------------------------------------------------------------------
(* The dashboard (DashboardAccess).                                        *)

\* What the routes need to know of the session cookie.
SessionOK == session # NoOne => session.user \in Users

\* Signing in and out touches no member, no key and no call.
LEMMA SignInLeavesTeam ==
  SignIn => UNCHANGED <<vars, call_vars>>
  BY DEF SignIn, LoginGoogle, Callback, Rejected, Enter, Logout, Tick

LEMMA SessionInit == DashboardInit => SessionOK
  BY DEF DashboardInit, SessionOK

LEMMA SessionStep ==
  SessionOK /\ [DashboardNext]_dashboard_vars => SessionOK'
<1> SUFFICES ASSUME SessionOK, [DashboardNext]_dashboard_vars PROVE SessionOK'
  OBVIOUS
<1> USE DEF SessionOK
<1>1. ASSUME NEW t \in Tabs, NEW u \in Users, Enter(t, u) PROVE SessionOK'
  BY <1>1 DEF Enter
<1>2. CASE Logout
  BY <1>2 DEF Logout
<1>3. CASE Tick
  BY <1>3 DEF Tick
<1>4. ASSUME UNCHANGED session PROVE SessionOK'
  BY <1>4
<1>5. ASSUME NEW t \in Tabs, LoginGoogle(t) \/ Callback(t) \/ Rejected(t)
      PROVE  UNCHANGED session
  BY <1>5 DEF LoginGoogle, Callback, Rejected
<1>6. CASE Request
  BY <1>4, <1>6 DEF Request, Authorize, AuthorizeMint, Acts, browser_vars
<1>7. CASE Background
  BY <1>4, <1>7 DEF Background, browser_vars
<1>8. CASE UNCHANGED dashboard_vars
  BY <1>4, <1>8 DEF dashboard_vars, browser_vars
<1>9. QED
  BY <1>1, <1>2, <1>3, <1>4, <1>5, <1>6, <1>7, <1>8 DEF DashboardNext, SignIn

\* The caller a session names is an active member.
LEMMA SessionUserIsActive ==
  ASSUME SessionOK, SessionUser # NoOne
  PROVE  SessionUser \in Users /\ user[SessionUser] = "active"
  BY DEF SessionOK, SessionUser

\* A route asks the service for nothing but the operations of TeamAccess, or for
\* nothing that changes anything.
LEMMA ActsIsStep ==
  ASSUME NEW c \in Calls, Acts(c)
  PROVE  Next \/ UNCHANGED vars
<1>1. CASE \E v \in Users : CreateUser(v) \/ \E t \in Revokers : RevokeRead(t, v)
  BY <1>1 DEF Next, Revoke
<1>2. ASSUME NEW k \in Keys, MintForSystem(k) \/ RevokeKey(k) PROVE Next
  BY <1>2 DEF Next, Key
<1>3. QED
  BY <1>1, <1>2 DEF Acts

LEMMA RequestIsStep == SessionOK /\ Request => Next \/ UNCHANGED vars
<1> SUFFICES ASSUME SessionOK, Request PROVE Next \/ UNCHANGED vars
  OBVIOUS
<1>1. ASSUME NEW k \in Keys, AuthorizeMint(k) PROVE Next
  BY <1>1, SessionUserIsActive DEF AuthorizeMint, Next, Key
<1>2. QED
  BY <1>1, ActsIsStep DEF Request, Authorize

LEMMA BackgroundIsStep == Background => Next
  BY DEF Background, Next, Key, Revoke

LEMMA DashboardStepIsStep ==
  SessionOK /\ [DashboardNext]_dashboard_vars => [Next]_vars
  BY SignInLeavesTeam, RequestIsStep, BackgroundIsStep
     DEF DashboardNext, dashboard_vars

\* Whatever the browser does, the team behind the dashboard is TeamAccess: what
\* is proved of its members, keys and revocations holds of the dashboard's.
THEOREM DashboardImplementsTeam == DashboardSpec => Spec
<1>1. DashboardInit => Init
  BY DEF DashboardInit
<1>2. QED
  BY <1>1, SessionInit, SessionStep, DashboardStepIsStep, PTL DEF DashboardSpec, Spec

\* The last admin cannot be revoked through the dashboard either.
THEOREM AdminRemainsBehindDashboard == DashboardSpec => []AdminRemains
  BY DashboardImplementsTeam, AnAdminRemains
-----------------------------------------------------------------------------
(* Sessions. *)

\* Who has been a member is never a stranger again.
LEMMA MembersStay ==
  TypeOK /\ [Next]_vars => \A u \in Users : user[u] # "absent" => user'[u] # "absent"
<1> SUFFICES ASSUME TypeOK, [Next]_vars, NEW u \in Users, user[u] # "absent"
             PROVE  user'[u] # "absent"
  OBVIOUS
<1> USE DEF TypeOK
<1>1. ASSUME NEW v \in Users, CreateUser(v) PROVE user'[u] # "absent"
  BY <1>1 DEF CreateUser
<1>2. CASE BootstrapAdmin
  BY <1>2, TeamAssumption DEF BootstrapAdmin, TeamAssumption
<1>3. ASSUME NEW t \in Revokers, RevokeCommit(t) PROVE user'[u] # "absent"
  BY <1>3 DEF RevokeCommit
<1>4. ASSUME NEW k \in Keys, Key(k) PROVE UNCHANGED user
  BY <1>4 DEF Key, MintAuthorized, MintInsert, MintForSystem, RevokeKey
<1>5. ASSUME NEW t \in Revokers, Revoke(t) PROVE UNCHANGED user \/ RevokeCommit(t)
  BY <1>5 DEF Revoke, RevokeRead, LockAdmin, RevokeSnapshot, RevokeRefused,
              RevokeUpdate, RevokeCascade, RevokeAbort
<1>6. QED
  BY <1>1, <1>2, <1>3, <1>4, <1>5 DEF Next, BootstrapKeyUpsert, vars

LEMMA NamesStep ==
  TypeOK /\ SessionOK /\ SessionNamesMember /\ [DashboardNext]_dashboard_vars
    => SessionNamesMember'
<1> SUFFICES ASSUME TypeOK, SessionOK, SessionNamesMember,
                    [DashboardNext]_dashboard_vars
             PROVE  SessionNamesMember'
  OBVIOUS
<1>1. ASSUME session' \in {session, NoOne} PROVE SessionNamesMember'
  <2>1. \A u \in Users : user[u] # "absent" => user'[u] # "absent"
    BY DashboardStepIsStep, MembersStay
  <2>2. QED
    BY <1>1, <2>1 DEF SessionNamesMember, SessionOK
<1>2. ASSUME NEW t \in Tabs, NEW u \in Users, Enter(t, u) PROVE SessionNamesMember'
  BY <1>2 DEF Enter, MayEnter, SessionNamesMember, vars
<1>3. CASE SignIn
  <2>1. ASSUME NEW t \in Tabs, LoginGoogle(t) \/ Callback(t) \/ Rejected(t)
        PROVE  session' = session
    BY <2>1 DEF LoginGoogle, Callback, Rejected
  <2>2. CASE Logout \/ Tick
    BY <1>1, <2>2 DEF Logout, Tick
  <2>3. QED
    BY <1>1, <1>2, <1>3, <2>1, <2>2 DEF SignIn
<1>4. CASE Request
  BY <1>1, <1>4 DEF Request, Authorize, AuthorizeMint, Acts, browser_vars
<1>5. CASE Background
  BY <1>1, <1>5 DEF Background, browser_vars
<1>6. CASE UNCHANGED dashboard_vars
  BY <1>1, <1>6 DEF dashboard_vars, browser_vars
<1>7. QED
  BY <1>3, <1>4, <1>5, <1>6 DEF DashboardNext

\* Every session cookie names somebody who is, or has been, a member.
THEOREM SessionsNameMembers == DashboardSpec => []SessionNamesMember
<1>1. DashboardInit => Init /\ SessionNamesMember
  BY DEF DashboardInit, SessionNamesMember
<1>2. QED
  BY <1>1, TypeInit, TypeStep, SessionInit, SessionStep, DashboardStepIsStep,
     NamesStep, PTL DEF DashboardSpec
-----------------------------------------------------------------------------
(* Keys. *)

LEMMA AdminKeysStep ==
  TypeOK /\ SessionOK /\ AdminKeysAreAdmins /\ [DashboardNext]_dashboard_vars
    => AdminKeysAreAdmins'
<1> SUFFICES ASSUME TypeOK, SessionOK, AdminKeysAreAdmins,
                    [DashboardNext]_dashboard_vars
             PROVE  AdminKeysAreAdmins'
  OBVIOUS
<1> USE DashboardAssumption DEF DashboardAssumption, TypeOK
<1>1. ASSUME UNCHANGED <<key_owner, mint_for>> PROVE AdminKeysAreAdmins'
  BY <1>1 DEF AdminKeysAreAdmins
<1>2. ASSUME NEW k \in Keys, NEW u \in Users, WithinCeiling(k, u \in Admins),
             MintAuthorized(k, u)
      PROVE  AdminKeysAreAdmins'
  BY <1>2 DEF AdminKeysAreAdmins, WithinCeiling, MintAuthorized
<1>3. ASSUME NEW k \in Keys, MintInsert(k) PROVE AdminKeysAreAdmins'
  BY <1>3 DEF AdminKeysAreAdmins, MintInsert
<1>4. ASSUME NEW c \in Calls, Authorize(c) \/ Acts(c)
      PROVE  UNCHANGED <<key_owner, mint_for>>
  BY <1>4 DEF Authorize, Acts, CreateUser, RevokeRead, MintForSystem, RevokeKey, vars, key_vars
<1>5. CASE Request
  <2>1. ASSUME NEW k \in Keys, AuthorizeMint(k) PROVE AdminKeysAreAdmins'
    BY <1>2, <2>1, SessionUserIsActive DEF AuthorizeMint
  <2>2. QED
    BY <1>1, <1>4, <1>5, <2>1 DEF Request
<1>6. CASE Background
  BY <1>1, <1>3, <1>6
     DEF Background, BootstrapAdmin, BootstrapKeyUpsert, MintForSystem, LockAdmin,
         RevokeSnapshot, RevokeRefused, RevokeUpdate, RevokeCascade, RevokeCommit,
         RevokeAbort, key_vars
<1>7. CASE SignIn
  BY <1>1, <1>7, SignInLeavesTeam DEF vars, key_vars
<1>8. CASE UNCHANGED dashboard_vars
  BY <1>1, <1>8 DEF dashboard_vars, vars, key_vars
<1>9. QED
  BY <1>5, <1>6, <1>7, <1>8 DEF DashboardNext

\* A member without the admin role never owns, nor is about to be given, a key
\* with the admin scope.
THEOREM AdminKeysBelongToAdmins == DashboardSpec => []AdminKeysAreAdmins
<1>1. DashboardInit => Init /\ AdminKeysAreAdmins
  BY DashboardAssumption
     DEF DashboardInit, Init, AdminKeysAreAdmins, DashboardAssumption
<1>2. QED
  BY <1>1, TypeInit, TypeStep, SessionInit, SessionStep, DashboardStepIsStep,
     AdminKeysStep, PTL DEF DashboardSpec
-----------------------------------------------------------------------------
(* Types, and all of it together. *)

LEMMA DashboardTypeInit == DashboardInit => DashboardTypeOK
<1> SUFFICES ASSUME DashboardInit PROVE DashboardTypeOK
  OBVIOUS
<1>1. MaxTime \in Nat
  BY DashboardAssumption DEF DashboardAssumption
<1>2. Idle \in [at : {"idle", "google", "exchange"}, began : 0..MaxTime]
  BY <1>1 DEF Idle
<1>3. tab \in [Tabs -> [at : {"idle", "google", "exchange"}, began : 0..MaxTime]]
  BY <1>2 DEF DashboardInit
<1>4. /\ state_cookie \in [tab : Tabs, expires : 0..(MaxTime + StateLife)] \cup {NoOne}
      /\ session \in [user : Users, expires : 0..(MaxTime + SessionLife)] \cup {NoOne}
      /\ crossed \subseteq Tabs /\ unexplained \in BOOLEAN /\ overtaken \subseteq Calls
      /\ request \in [Calls -> [who : Users \cup {NoOne}, admin : BOOLEAN] \cup {NoOne}]
  BY Zenon DEF DashboardInit
<1>5. now \in 0..MaxTime
  BY <1>1 DEF DashboardInit
<1>6. QED
  BY <1>3, <1>4, <1>5, Zenon DEF DashboardTypeOK

LEMMA SignInKeepsTypes ==
  ASSUME DashboardTypeOK, SignIn
  PROVE  DashboardTypeOK'
<1> USE DashboardAssumption DEF DashboardAssumption, DashboardTypeOK
<1>1. ASSUME NEW t \in Tabs, LoginGoogle(t) PROVE DashboardTypeOK'
  <2>1. now + StateLife \in 0..(MaxTime + StateLife)
    OBVIOUS
  <2>2. crossed' \subseteq Tabs
    BY <1>1 DEF LoginGoogle, SigningIn
  <2>3. state_cookie' \in [tab : Tabs, expires : 0..(MaxTime + StateLife)]
    BY <1>1, <2>1 DEF LoginGoogle
  <2>4. tab' \in [Tabs -> [at : {"idle", "google", "exchange"}, began : 0..MaxTime]]
    BY <1>1 DEF LoginGoogle
  <2>5. /\ now' = now /\ request' = request /\ overtaken' = overtaken
        /\ session' = session /\ unexplained' = unexplained
    BY <1>1 DEF LoginGoogle, call_vars
  <2>6. QED
    BY <2>2, <2>3, <2>4, <2>5, Zenon
<1>2. ASSUME NEW t \in Tabs, Callback(t) PROVE DashboardTypeOK'
  <2>1. unexplained' \in BOOLEAN
    BY <1>2, Zenon DEF Callback
  <2>2. tab' \in [Tabs -> [at : {"idle", "google", "exchange"}, began : 0..MaxTime]]
    BY <1>2 DEF Callback, Idle
  <2>3. crossed' \subseteq Tabs
    BY <1>2 DEF Callback
  <2>4. /\ now' = now /\ request' = request /\ overtaken' = overtaken
        /\ state_cookie' = state_cookie /\ session' = session
    BY <1>2 DEF Callback, call_vars
  <2>5. QED
    BY <2>1, <2>2, <2>3, <2>4, Zenon
<1>3. ASSUME NEW t \in Tabs, Rejected(t) PROVE DashboardTypeOK'
  BY <1>3 DEF Rejected, Idle, call_vars
<1>4. ASSUME NEW t \in Tabs, NEW u \in Users, Enter(t, u) PROVE DashboardTypeOK'
  <2>1. now + SessionLife \in 0..(MaxTime + SessionLife)
    OBVIOUS
  <2>2. crossed' \subseteq Tabs
    BY <1>4 DEF Enter, SigningIn
  <2>3. QED
    BY <1>4, <2>1, <2>2 DEF Enter, Idle, call_vars
<1>5. CASE Logout
  BY <1>5 DEF Logout, call_vars
<1>6. CASE Tick
  BY <1>6 DEF Tick, call_vars
<1>7. QED
  BY <1>1, <1>2, <1>3, <1>4, <1>5, <1>6 DEF SignIn

LEMMA DashboardTypeStep ==
  ASSUME DashboardTypeOK, SessionOK, [DashboardNext]_dashboard_vars
  PROVE  DashboardTypeOK'
<1>1. CASE SignIn
  BY <1>1, SignInKeepsTypes
<1>2. ASSUME UNCHANGED <<now, browser_vars>>, overtaken' \subseteq Calls,
             request' \in [Calls -> [who : Users \cup {NoOne}, admin : BOOLEAN] \cup {NoOne}]
      PROVE  DashboardTypeOK'
  BY <1>2 DEF DashboardTypeOK, browser_vars
<1>3. CASE Request
  <2>1. ASSUME NEW c \in Calls, Authorize(c) PROVE DashboardTypeOK'
    <3>1. Identities \subseteq [who : Users \cup {NoOne}, admin : BOOLEAN]
      <4> DEFINE R == [who : Users \cup {NoOne}, admin : BOOLEAN]
      <4>1. \A v \in Users \cup {NoOne} : \A b \in BOOLEAN : [who |-> v, admin |-> b] \in R
        OBVIOUS
      <4>2. SessionUser # NoOne => SessionUser \in Users
        BY SessionUserIsActive
      <4>3. ASSUME NEW id \in Identities
            PROVE  \/ id = [who |-> NoOne, admin |-> TRUE]
                   \/ SessionUser # NoOne /\ id = [who |-> SessionUser, admin |-> SessionUser \in Admins]
        BY DEF Identities
      <4> HIDE DEF R
      <4>4. [who |-> NoOne, admin |-> TRUE] \in R
        BY <4>1
      <4>5. SessionUser # NoOne => [who |-> SessionUser, admin |-> SessionUser \in Admins] \in R
        <5> DEFINE a == SessionUser \in Admins
        <5>1. a \in BOOLEAN
          OBVIOUS
        <5> HIDE DEF a
        <5>2. SessionUser # NoOne => [who |-> SessionUser, admin |-> a] \in R
          BY <4>1, <4>2, <5>1
        <5>3. QED
          BY <5>2 DEF a
      <4>6. QED
        BY <4>3, <4>4, <4>5 DEF R
    <3>2. PICK id \in Identities : request' = [request EXCEPT ![c] = id]
      BY <2>1 DEF Authorize
    <3>3. QED
      BY <1>2, <2>1, <3>1, <3>2 DEF Authorize, DashboardTypeOK
  <2>2. ASSUME NEW c \in Calls, Acts(c) PROVE DashboardTypeOK'
    <3>1. /\ UNCHANGED <<now, browser_vars>> /\ overtaken' = overtaken \ {c}
          /\ request' = [request EXCEPT ![c] = NoOne]
      BY <2>2 DEF Acts
    <3>2. QED
      BY <1>2, <3>1 DEF DashboardTypeOK
  <2>3. ASSUME NEW k \in Keys, AuthorizeMint(k) PROVE DashboardTypeOK'
    BY <1>2, <2>3 DEF AuthorizeMint, call_vars, DashboardTypeOK
  <2>4. QED
    BY <1>3, <2>1, <2>2, <2>3 DEF Request
<1>4. CASE Background
  <2>1. UNCHANGED <<now, browser_vars, request>>
    BY <1>4 DEF Background
  <2>2. overtaken' \subseteq Calls
    BY <1>4 DEF Background, CallsOf, DashboardTypeOK
  <2>3. QED
    BY <1>2, <2>1, <2>2 DEF DashboardTypeOK
<1>5. CASE UNCHANGED dashboard_vars
  BY <1>2, <1>5 DEF dashboard_vars, call_vars, DashboardTypeOK
<1>6. QED
  BY <1>1, <1>3, <1>4, <1>5 DEF DashboardNext

-----------------------------------------------------------------------------
(* Calls that outlast their caller's membership.                           *)

\* But for the commit of a revocation, no step revokes anybody.
LEMMA OnlyCommitRevokes ==
  ASSUME [Next]_vars, TypeOK, NEW u \in Users, user[u] # "revoked", user'[u] = "revoked"
  PROVE  \E t \in Revokers : RevokeCommit(t) /\ (target[t] \in Users => u = target[t])
<1> USE DEF TypeOK
<1>1. ASSUME NEW v \in Users, CreateUser(v) PROVE FALSE
  BY <1>1 DEF CreateUser
<1>2. CASE BootstrapAdmin
  BY <1>2, TeamAssumption DEF BootstrapAdmin, TeamAssumption
<1>3. ASSUME NEW k \in Keys, Key(k) PROVE FALSE
  BY <1>3 DEF Key, MintAuthorized, MintInsert, MintForSystem, RevokeKey
<1>4. ASSUME NEW t \in Revokers, Revoke(t) PROVE RevokeCommit(t)
  BY <1>4 DEF Revoke, RevokeRead, LockAdmin, RevokeSnapshot, RevokeRefused,
              RevokeUpdate, RevokeCascade, RevokeAbort
<1>5. ASSUME NEW t \in Revokers, RevokeCommit(t), target[t] \in Users PROVE u = target[t]
  BY <1>5 DEF RevokeCommit
<1>6. QED
  BY <1>1, <1>2, <1>3, <1>4, <1>5 DEF Next, BootstrapKeyUpsert, vars

\* Nor does any step that is not a background one.
LEMMA RequestsRevokeNobody ==
  ASSUME SessionOK, TypeOK, Request, NEW u \in Users, user'[u] = "revoked"
  PROVE  user[u] = "revoked"
<1> USE DEF TypeOK
<1>1. ASSUME NEW c \in Calls, Acts(c) PROVE user[u] = "revoked"
  BY <1>1 DEF Acts, CreateUser, RevokeRead, MintForSystem, RevokeKey, vars
<1>2. ASSUME NEW k \in Keys, AuthorizeMint(k) PROVE user[u] = "revoked"
  BY <1>2 DEF AuthorizeMint, MintAuthorized
<1>3. ASSUME NEW c \in Calls, Authorize(c) PROVE user[u] = "revoked"
  BY <1>3 DEF Authorize, vars
<1>4. QED
  BY <1>1, <1>2, <1>3 DEF Request

LEMMA LateStep ==
  TypeOK /\ AdminsCountedAreLocked /\ DashboardTypeOK /\ SessionOK
    /\ LateCallersWereLetIn /\ [DashboardNext]_dashboard_vars
    => LateCallersWereLetIn'
<1> SUFFICES ASSUME TypeOK, AdminsCountedAreLocked, DashboardTypeOK, SessionOK,
                    LateCallersWereLetIn, [DashboardNext]_dashboard_vars,
                    NEW c \in Calls, NEW u \in Users,
                    c \in CallsOf(u)', user'[u] = "revoked"
             PROVE  c \in overtaken'
  BY DEF LateCallersWereLetIn
<1> USE DEF CallsOf, LateCallersWereLetIn
<1>1. ASSUME request'[c] = request[c], user[u] = "revoked" PROVE c \in overtaken
  BY <1>1
<1>2. CASE SignIn \/ UNCHANGED dashboard_vars
  BY <1>1, <1>2, SignInLeavesTeam DEF dashboard_vars, call_vars, vars
<1>3. CASE Request
  <2>1. user[u] = "revoked"
    BY <1>3, RequestsRevokeNobody
  <2>2. ASSUME NEW d \in Calls, Authorize(d) PROVE c \in overtaken'
    <3>1. PICK id \in Identities : request' = [request EXCEPT ![d] = id]
      BY <2>2 DEF Authorize
    <3>2. id.who # u
      BY <2>1, SessionUserIsActive, TeamAssumption DEF Identities, TeamAssumption
    <3>3. c # d
      BY <3>1, <3>2 DEF DashboardTypeOK
    <3>4. QED
      BY <1>1, <2>1, <2>2, <3>1, <3>3 DEF Authorize, DashboardTypeOK
  <2>3. ASSUME NEW d \in Calls, Acts(d) PROVE c \in overtaken'
    <3>1. request' = [request EXCEPT ![d] = NoOne] /\ overtaken' = overtaken \ {d}
      BY <2>3 DEF Acts
    <3>2. c # d
      BY <3>1 DEF DashboardTypeOK
    <3>3. QED
      BY <1>1, <2>1, <3>1, <3>2 DEF DashboardTypeOK
  <2>4. ASSUME NEW k \in Keys, AuthorizeMint(k) PROVE c \in overtaken'
    BY <1>1, <2>1, <2>4 DEF AuthorizeMint, call_vars
  <2>5. QED
    BY <1>3, <2>2, <2>3, <2>4 DEF Request
<1>4. CASE Background
  <2>1. request' = request /\ overtaken \subseteq overtaken'
    BY <1>4 DEF Background
  <2>2. CASE user[u] = "revoked"
    BY <1>1, <2>1, <2>2
  <2>3. CASE user[u] # "revoked"
    <3>1. ASSUME NEW t \in Revokers, RevokeCommit(t) PROVE target[t] = u
      <4>1. target[t] \in Users /\ user' = [user EXCEPT ![target[t]] = "revoked"]
        BY <3>1 DEF RevokeCommit, AdminsCountedAreLocked
      <4>2. QED
        BY <2>3, <4>1 DEF TypeOK
    <3>2. PICK t \in Revokers : RevokeCommit(t)
      BY <2>3, OnlyCommitRevokes, DashboardStepIsStep
    <3>3. ~(UNCHANGED user) /\ ~BootstrapAdmin
      BY <2>3, TeamAssumption DEF BootstrapAdmin, TypeOK, TeamAssumption
    <3>4. \E x \in Revokers : RevokeCommit(x) /\ overtaken' = overtaken \cup CallsOf(target[x])
      BY <1>4, <3>3
         DEF Background, BootstrapKeyUpsert, MintForSystem, MintInsert, LockAdmin,
             RevokeSnapshot, RevokeRefused, RevokeUpdate, RevokeCascade, RevokeAbort
    <3>5. QED
      BY <2>1, <3>1, <3>4
  <2>4. QED
    BY <2>2, <2>3
<1>5. QED
  BY <1>2, <1>3, <1>4 DEF DashboardNext

\* A member who has been revoked acts in no call but those that were in progress
\* when the revocation committed.
THEOREM LateCallersHadBeenLetIn == DashboardSpec => []LateCallersWereLetIn
<1>1. DashboardInit => LateCallersWereLetIn
  BY DEF DashboardInit, LateCallersWereLetIn, CallsOf
<1>2. DashboardSpec => [](TypeOK /\ AdminsCountedAreLocked)
  BY DashboardImplementsTeam, TypeCorrect, CountedAdminsAreLocked, PTL
<1>3. DashboardSpec => [](DashboardTypeOK /\ SessionOK)
  BY DashboardTypeInit, DashboardTypeStep, SessionInit, SessionStep, PTL
     DEF DashboardSpec
<1>4. QED
  BY <1>1, <1>2, <1>3, LateStep, PTL DEF DashboardSpec

\* Whatever the browser, the command line and overlapping revocations do, only
\* members are let in, and no key reaches beyond its owner's role.
THEOREM OnlyMembersAct == DashboardSpec => []MembersOnly
<1>1. DashboardSpec => []TypeOK
  BY DashboardImplementsTeam, TypeCorrect
<1>2. DashboardSpec => []AdminsCountedAreLocked
  BY DashboardImplementsTeam, CountedAdminsAreLocked
<1>3. DashboardSpec => []DashboardTypeOK
  BY DashboardTypeInit, DashboardTypeStep, SessionInit, SessionStep, PTL
     DEF DashboardSpec
<1>4. TypeOK /\ AdminsCountedAreLocked /\ DashboardTypeOK /\ SessionNamesMember
        /\ LateCallersWereLetIn /\ AdminKeysAreAdmins => MembersOnly
  BY DEF MembersOnly
<1>5. QED
  BY <1>1, <1>2, <1>3, <1>4, LateCallersHadBeenLetIn, SessionsNameMembers,
     AdminKeysBelongToAdmins, PTL
-----------------------------------------------------------------------------
(* Refused sign-ins. *)

\* The browser still has the state of a sign-in with which no other has
\* interfered, until it has lived its time.
StateOK(t) ==
  \/ now >= tab[t].began + StateLife
  \/ state_cookie = [tab |-> t, expires |-> tab[t].began + StateLife]

StatesOK == \A t \in SigningIn : t \in crossed \/ StateOK(t)

RefusalInv == DashboardTypeOK /\ SessionOK /\ StatesOK /\ ~unexplained

LEMMA StateMatchesOwn ==
  ASSUME RefusalInv, NEW t \in SigningIn, t \notin crossed,
         now < tab[t].began + StateLife
  PROVE  StateMatches(t)
<1>1. t \in Tabs /\ tab[t].began \in Nat /\ StateLife \in Nat /\ now \in Nat
  BY DashboardAssumption
     DEF DashboardAssumption, RefusalInv, DashboardTypeOK, SigningIn
<1>2. state_cookie = [tab |-> t, expires |-> tab[t].began + StateLife]
  BY <1>1 DEF RefusalInv, StatesOK, StateOK
<1>3. state_cookie # NoOne
  BY <1>1, <1>2, DashboardAssumption DEF DashboardAssumption
<1>4. QED
  BY <1>2, <1>3 DEF StateMatches

\* Where neither the cookie nor the clock changes, nor a tab begins to sign in.
LEMMA StatesStay ==
  ASSUME RefusalInv, UNCHANGED <<now, state_cookie>>,
         \A t \in SigningIn' : t \in SigningIn /\ tab'[t] = tab[t],
         \A t \in SigningIn' : t \in crossed => t \in crossed'
  PROVE  StatesOK'
  BY DEF RefusalInv, StatesOK, StateOK

LEMMA SignInKeepsStates ==
  ASSUME RefusalInv, SignIn
  PROVE  StatesOK' /\ unexplained' = unexplained
<1> USE DEF RefusalInv
<1>1. ASSUME NEW t \in Tabs, LoginGoogle(t)
      PROVE  StatesOK' /\ unexplained' = unexplained
  <2>1. /\ tab' = [tab EXCEPT ![t] = [at |-> "google", began |-> now]]
        /\ state_cookie' = [tab |-> t, expires |-> now + StateLife]
        /\ crossed' = (crossed \cup SigningIn) \ {t}
        /\ unexplained' = unexplained
    BY <1>1 DEF LoginGoogle
  <2>2. StateOK(t)'
    BY <2>1 DEF StateOK, DashboardTypeOK
  <2>3. ASSUME NEW s \in SigningIn', s # t PROVE s \in crossed'
    BY <2>1, <2>3 DEF SigningIn, DashboardTypeOK
  <2>4. QED
    BY <2>1, <2>2, <2>3 DEF StatesOK
<1>2. ASSUME NEW t \in Tabs, Callback(t)
      PROVE  StatesOK' /\ unexplained' = unexplained
  <2>1. /\ t \in SigningIn /\ crossed' = crossed \ {t}
        /\ UNCHANGED <<now, state_cookie>>
    BY <1>2 DEF Callback, SigningIn
  <2>2. \A s \in SigningIn' : s # t /\ s \in SigningIn /\ tab'[s] = tab[s]
    BY <1>2 DEF Callback, SigningIn, Idle, DashboardTypeOK
  <2>3. unexplained' = unexplained
    <3>1. CASE StateMatches(t)
      BY <1>2, <3>1 DEF Callback
    <3>2. CASE ~StateMatches(t)
      <4>1. ~(t \notin crossed /\ now < tab[t].began + StateLife)
        BY <2>1, <3>2, StateMatchesOwn
      <4>2. unexplained' = (unexplained \/ (t \notin crossed /\ now < tab[t].began + StateLife))
        BY <1>2, <3>2 DEF Callback
      <4>3. QED
        BY <4>1, <4>2 DEF DashboardTypeOK
    <3>3. QED
      BY <3>1, <3>2
  <2>4. QED
    BY <2>1, <2>2, <2>3, StatesStay
<1>3. ASSUME NEW t \in Tabs, NEW u \in Users, Enter(t, u)
      PROVE  StatesOK' /\ unexplained' = unexplained
  BY <1>3 DEF Enter, Idle, StatesOK, SigningIn, DashboardTypeOK
<1>4. ASSUME NEW t \in Tabs, Rejected(t)
      PROVE  StatesOK' /\ unexplained' = unexplained
  <2>1. \A s \in SigningIn' : s \in SigningIn /\ tab'[s] = tab[s]
    BY <1>4 DEF Rejected, SigningIn, Idle, DashboardTypeOK
  <2>2. QED
    BY <1>4, <2>1, StatesStay DEF Rejected
<1>5. CASE Logout
  BY <1>5, StatesStay DEF Logout, SigningIn
<1>6. CASE Tick
  <2>1. SigningIn' = SigningIn /\ UNCHANGED <<tab, crossed, unexplained>> /\ now' = now + 1
    BY <1>6 DEF Tick, SigningIn
  <2>2. ASSUME NEW t \in SigningIn, t \notin crossed PROVE StateOK(t)'
    <3>1. t \in Tabs /\ tab[t].began \in Nat /\ StateLife \in Nat /\ now \in Nat
      BY DashboardAssumption DEF DashboardAssumption, DashboardTypeOK, SigningIn
    <3>2. CASE now >= tab[t].began + StateLife
      BY <2>1, <3>1, <3>2 DEF StateOK
    <3>3. CASE state_cookie = [tab |-> t, expires |-> tab[t].began + StateLife]
      <4>1. state_cookie.expires = tab[t].began + StateLife
        BY <3>3
      <4>2. state_cookie' = state_cookie \/ state_cookie.expires <= now'
        BY <1>6 DEF Tick
      <4>3. QED
        BY <2>1, <3>1, <3>3, <4>1, <4>2 DEF StateOK
    <3>4. QED
      BY <2>2, <3>2, <3>3 DEF StatesOK, StateOK
  <2>3. QED
    BY <2>1, <2>2 DEF StatesOK
<1>7. QED
  BY <1>1, <1>2, <1>3, <1>4, <1>5, <1>6 DEF SignIn

LEMMA RefusalStep == RefusalInv /\ [DashboardNext]_dashboard_vars => RefusalInv'
<1> SUFFICES ASSUME RefusalInv, [DashboardNext]_dashboard_vars PROVE RefusalInv'
  OBVIOUS
<1>1. DashboardTypeOK' /\ SessionOK'
  BY DashboardTypeStep, SessionStep DEF RefusalInv
<1>2. ASSUME UNCHANGED <<now, browser_vars>> PROVE StatesOK' /\ ~unexplained'
  BY <1>2 DEF browser_vars, RefusalInv, StatesOK, StateOK, SigningIn
<1>3. StatesOK' /\ ~unexplained'
  <2>1. CASE SignIn
    BY <2>1, SignInKeepsStates DEF RefusalInv
  <2>2. CASE Request
    BY <1>2, <2>2 DEF Request, Authorize, AuthorizeMint, Acts
  <2>3. CASE Background
    BY <1>2, <2>3 DEF Background
  <2>4. CASE UNCHANGED dashboard_vars
    BY <1>2, <2>4 DEF dashboard_vars
  <2>5. QED
    BY <2>1, <2>2, <2>3, <2>4 DEF DashboardNext
<1>4. QED
  BY <1>1, <1>3 DEF RefusalInv

\* A sign-in is refused for its state only if another one began or ended in the
\* browser since, or it took longer than the state cookie lives.
THEOREM RefusalsHaveCause == DashboardSpec => []RefusalHasCause
<1>1. DashboardInit => RefusalInv
  BY DashboardTypeInit, SessionInit
     DEF DashboardInit, RefusalInv, StatesOK, SigningIn, Idle
<1>2. RefusalInv => RefusalHasCause
  BY DEF RefusalInv, RefusalHasCause
<1>3. QED
  BY <1>1, <1>2, RefusalStep, PTL DEF DashboardSpec
=============================================================================
