----------------------------- MODULE TeamAccess -----------------------------
(***************************************************************************)
(* Team members and their API keys: service/users.py, the identity check   *)
(* of auth.py that precedes every call, and the bootstrap of `migrate`.    *)
(*                                                                         *)
(* revoke_user is a transaction of up to four statements; two of them may  *)
(* run at once, beside requests that mint and revoke keys.  Its writes are *)
(* uncommitted until RevokeCommit.  Everything else is one statement.      *)
(* Scopes, names and the stored provider tokens are left out: no property  *)
(* here depends on them.                                                   *)
(***************************************************************************)
EXTENDS Naturals, FiniteSets

CONSTANTS Users,          \* e-mail addresses that may ever be team members
          Admins,         \* those created with the admin role; roles never change
          Keys,           \* API keys that may ever be minted
          Revokers,       \* DELETE /v1/users/{id} requests in progress at once
          BootstrapUser,  \* DASHBOARD_ALLOWED_EMAIL
          BootstrapKey,   \* the key of BOOTSTRAP_KEY
          NoOne           \* no owner, no caller, no transaction

ASSUME TeamAssumption ==
  /\ Admins \subseteq Users
  /\ BootstrapUser \in Admins
  /\ BootstrapKey \in Keys
  /\ NoOne \notin Users \cup Revokers

VARIABLES
  user,         \* "absent", "active" or "revoked", as committed
  user_lock,    \* the revocation that has locked the app_user row
  key_state,    \* "absent", "live" or "revoked"
  key_owner,    \* created_by_user_id; NoOne for CLI and bearer-minted keys
  \* create_api_key requests: who require_dashboard_role said is calling.
  mint_for,
  \* revoke_user transactions.
  revoke_step,  \* "idle", "snapshot", "lock", "update", "cascade" or "commit"
  target,
  to_lock,      \* admin rows of the FOR UPDATE statement not reached yet
  admin_rows,   \* admin rows it has locked and returns
  cascaded,     \* keys the second UPDATE has revoked, uncommitted
  raced         \* history: keys inserted after their owner's cascade had run

key_vars == <<key_state, key_owner, mint_for, raced>>
revoke_vars == <<revoke_step, target, to_lock, admin_rows, cascaded>>
vars == <<user, user_lock, key_vars, revoke_vars>>

Init ==
  /\ user = [u \in Users |-> "absent"]
  /\ user_lock = [u \in Users |-> NoOne]
  /\ key_state = [k \in Keys |-> "absent"]
  /\ key_owner = [k \in Keys |-> NoOne]
  /\ mint_for = [k \in Keys |-> NoOne]
  /\ revoke_step = [t \in Revokers |-> "idle"]
  /\ target = [t \in Revokers |-> NoOne]
  /\ to_lock = [t \in Revokers |-> {}]
  /\ admin_rows = [t \in Revokers |-> {}]
  /\ cascaded = [t \in Revokers |-> {}]
  /\ raced = {}

ActiveAdmins == {a \in Admins : user[a] = "active"}
Unlocked(u) == user_lock[u] = NoOne
KeyUnlocked(k) == \A t \in Revokers : k \notin cascaded[t]
LiveKeysOf(u) == {k \in Keys : key_state[k] = "live" /\ key_owner[k] = u}
-----------------------------------------------------------------------------
(* Members. *)

\* create_user: an address that was ever a member, revoked or not, is refused.
CreateUser(u) ==
  /\ user[u] = "absent"
  /\ user' = [user EXCEPT ![u] = "active"]
  /\ UNCHANGED <<user_lock, key_vars, revoke_vars>>

\* Definitions headed "Variant:" are the definition below them with a plausible
\* bug; no action uses them, mutation runs put them in its place.

\* Variant: ON CONFLICT re-activates the member, as upsert_bootstrap_key does for a key.
BootstrapReactivates ==
  /\ user[BootstrapUser] # "active" /\ Unlocked(BootstrapUser)
  /\ user' = [user EXCEPT ![BootstrapUser] = "active"]
  /\ UNCHANGED <<user_lock, key_vars, revoke_vars>>

\* upsert_bootstrap_user, on every migrate: ON CONFLICT DO NOTHING.
BootstrapAdmin ==
  /\ user[BootstrapUser] = "absent"
  /\ user' = [user EXCEPT ![BootstrapUser] = "active"]
  /\ UNCHANGED <<user_lock, key_vars, revoke_vars>>
-----------------------------------------------------------------------------
(* Keys. *)

\* require_dashboard_role: the caller is an active member at this moment.
MintAuthorized(k, u) ==
  /\ k # BootstrapKey
  /\ key_state[k] = "absent" /\ mint_for[k] = NoOne
  /\ user[u] = "active"
  /\ mint_for' = [mint_for EXCEPT ![k] = u]
  /\ UNCHANGED <<user, user_lock, key_state, key_owner, raced, revoke_vars>>

\* The revocations of u whose cascade has already looked at the keys.
CascadeIsPast(u) ==
  user[u] = "revoked" \/ \E t \in Revokers : target[t] = u /\ revoke_step[t] = "commit"

\* create_api_key, for the caller that was authorized earlier.  Its foreign key
\* waits for an app_user row locked FOR UPDATE, as revoke_user locks admins.
MintInsert(k) ==
  /\ mint_for[k] # NoOne
  /\ mint_for[k] \in Admins => Unlocked(mint_for[k])
  /\ key_state' = [key_state EXCEPT ![k] = "live"]
  /\ key_owner' = [key_owner EXCEPT ![k] = mint_for[k]]
  /\ mint_for' = [mint_for EXCEPT ![k] = NoOne]
  /\ raced' = IF CascadeIsPast(mint_for[k]) THEN raced \cup {k} ELSE raced
  /\ UNCHANGED <<user, user_lock, revoke_vars>>

\* The CLI's `keys create`, or a bearer key with admin scope: no member owns it.
MintForSystem(k) ==
  /\ k # BootstrapKey
  /\ key_state[k] = "absent" /\ mint_for[k] = NoOne
  /\ key_state' = [key_state EXCEPT ![k] = "live"]
  /\ UNCHANGED <<user, user_lock, key_owner, mint_for, raced, revoke_vars>>

\* upsert_bootstrap_key, on every migrate: inserted, or live again if revoked.
BootstrapKeyUpsert ==
  /\ key_state' = [key_state EXCEPT ![BootstrapKey] = "live"]
  /\ UNCHANGED <<user, user_lock, key_owner, mint_for, raced, revoke_vars>>

\* revoke_api_key, by the owner or an admin; it waits for a cascade that has
\* the row, and then finds it revoked.
RevokeKey(k) ==
  /\ key_state[k] = "live" /\ KeyUnlocked(k)
  /\ key_state' = [key_state EXCEPT ![k] = "revoked"]
  /\ UNCHANGED <<user, user_lock, key_owner, mint_for, raced, revoke_vars>>
-----------------------------------------------------------------------------
(* revoke_user. *)

\* What a transaction keeps is gone when it ends.
RevokeEnds(t) ==
  /\ revoke_step' = [revoke_step EXCEPT ![t] = "idle"]
  /\ target' = [target EXCEPT ![t] = NoOne]
  /\ to_lock' = [to_lock EXCEPT ![t] = {}]
  /\ admin_rows' = [admin_rows EXCEPT ![t] = {}]
  /\ cascaded' = [cascaded EXCEPT ![t] = {}]
  /\ user_lock' = [u \in Users |-> IF user_lock[u] = t THEN NoOne ELSE user_lock[u]]

\* The first SELECT, without a lock; a 404 unless the target is active.
RevokeRead(t, u) ==
  /\ revoke_step[t] = "idle" /\ user[u] = "active"
  /\ revoke_step' = [revoke_step EXCEPT ![t] = IF u \in Admins THEN "snapshot" ELSE "update"]
  /\ target' = [target EXCEPT ![t] = u]
  /\ UNCHANGED <<user, user_lock, key_vars, to_lock, admin_rows, cascaded>>

\* SELECT ... FOR UPDATE begins: the admins it is going to lock, as of now.
RevokeSnapshot(t) ==
  /\ revoke_step[t] = "snapshot"
  /\ revoke_step' = [revoke_step EXCEPT ![t] = "lock"]
  /\ to_lock' = [to_lock EXCEPT ![t] = ActiveAdmins]
  /\ UNCHANGED <<user, user_lock, key_vars, target, admin_rows, cascaded>>

\* Variant: without FOR UPDATE, the count is taken from the snapshot.
CountWithoutLock(t, a) ==
  /\ revoke_step[t] = "lock" /\ a \in to_lock[t]
  /\ to_lock' = [to_lock EXCEPT ![t] = @ \ {a}]
  /\ admin_rows' = [admin_rows EXCEPT ![t] = @ \cup {a}]
  /\ UNCHANGED <<user, user_lock, key_vars, revoke_step, target, cascaded>>

\* It waits for each row and returns it only if it is still an active admin.
LockAdmin(t, a) ==
  /\ revoke_step[t] = "lock" /\ a \in to_lock[t] /\ Unlocked(a)
  /\ to_lock' = [to_lock EXCEPT ![t] = @ \ {a}]
  /\ IF user[a] = "active"
     THEN /\ user_lock' = [user_lock EXCEPT ![a] = t]
          /\ admin_rows' = [admin_rows EXCEPT ![t] = @ \cup {a}]
     ELSE UNCHANGED <<user_lock, admin_rows>>
  /\ UNCHANGED <<user, key_vars, revoke_step, target, cascaded>>

LocksTaken(t) == revoke_step[t] = "lock" /\ to_lock[t] = {}

\* Variant: the target is counted among the admins that remain.
RemainingWithTarget(t) == admin_rows[t]

\* remaining_admins
Remaining(t) == admin_rows[t] \ {target[t]}

\* "Cannot revoke the last remaining admin user": rollback.
RevokeRefused(t) ==
  /\ LocksTaken(t) /\ Remaining(t) = {}
  /\ RevokeEnds(t)
  /\ UNCHANGED <<user, key_vars>>

\* UPDATE app_user ... WHERE id = target.
RevokeUpdate(t) ==
  /\ revoke_step[t] = "update" \/ (LocksTaken(t) /\ Remaining(t) # {})
  /\ user_lock[target[t]] \in {NoOne, t}
  /\ user_lock' = [user_lock EXCEPT ![target[t]] = t]
  /\ revoke_step' = [revoke_step EXCEPT ![t] = "cascade"]
  /\ UNCHANGED <<user, key_vars, target, to_lock, admin_rows, cascaded>>

\* Variant: the second UPDATE is forgotten.
CascadeForgotten(t) ==
  /\ revoke_step[t] = "cascade"
  /\ revoke_step' = [revoke_step EXCEPT ![t] = "commit"]
  /\ UNCHANGED <<user, user_lock, key_vars, target, to_lock, admin_rows, cascaded>>

\* UPDATE api_key ... WHERE created_by_user_id = target AND revoked_at IS NULL.
RevokeCascade(t) ==
  /\ revoke_step[t] = "cascade"
  /\ revoke_step' = [revoke_step EXCEPT ![t] = "commit"]
  /\ cascaded' = [cascaded EXCEPT ![t] = LiveKeysOf(target[t])]
  /\ UNCHANGED <<user, user_lock, key_vars, target, to_lock, admin_rows>>

RevokeCommit(t) ==
  /\ revoke_step[t] = "commit"
  /\ user' = [user EXCEPT ![target[t]] = "revoked"]
  /\ key_state' = [k \in Keys |-> IF k \in cascaded[t] THEN "revoked" ELSE key_state[k]]
  /\ RevokeEnds(t)
  /\ UNCHANGED <<key_owner, mint_for, raced>>

\* Rollback: the connection is lost, or two revocations that lock the admins in
\* different orders wait for each other and this one is PostgreSQL's victim.
RevokeAbort(t) ==
  /\ revoke_step[t] # "idle"
  /\ RevokeEnds(t)
  /\ UNCHANGED <<user, key_vars>>
-----------------------------------------------------------------------------
Key(k) ==
  \/ \E u \in Users : MintAuthorized(k, u)
  \/ MintInsert(k) \/ MintForSystem(k) \/ RevokeKey(k)

Revoke(t) ==
  \/ \E u \in Users : RevokeRead(t, u) \/ LockAdmin(t, u)
  \/ RevokeSnapshot(t) \/ RevokeRefused(t) \/ RevokeUpdate(t)
  \/ RevokeCascade(t) \/ RevokeCommit(t) \/ RevokeAbort(t)

Next ==
  \/ \E u \in Users : CreateUser(u)
  \/ BootstrapAdmin
  \/ BootstrapKeyUpsert
  \/ \E k \in Keys : Key(k)
  \/ \E t \in Revokers : Revoke(t)

Spec == Init /\ [][Next]_vars
-----------------------------------------------------------------------------
(* Properties. *)

TypeOK ==
  /\ user \in [Users -> {"absent", "active", "revoked"}]
  /\ user_lock \in [Users -> Revokers \cup {NoOne}]
  /\ key_state \in [Keys -> {"absent", "live", "revoked"}]
  /\ key_owner \in [Keys -> Users \cup {NoOne}]
  /\ mint_for \in [Keys -> Users \cup {NoOne}]
  /\ revoke_step \in [Revokers ->
       {"idle", "snapshot", "lock", "update", "cascade", "commit"}]
  /\ target \in [Revokers -> Users \cup {NoOne}]
  /\ to_lock \in [Revokers -> SUBSET Admins]
  /\ admin_rows \in [Revokers -> SUBSET Admins]
  /\ cascaded \in [Revokers -> SUBSET Keys]
  /\ raced \in SUBSET Keys

\* The admin rows a revocation has counted are locked by it and still active;
\* past its check, it leaves one of them besides its target.
AdminsCountedAreLocked ==
  \A t \in Revokers :
    /\ revoke_step[t] # "idle" => target[t] \in Users
    /\ revoke_step[t] = "update" => target[t] \notin Admins
    /\ \A a \in admin_rows[t] : user_lock[a] = t /\ user[a] = "active"
    /\ revoke_step[t] \in {"cascade", "commit"} =>
         /\ user_lock[target[t]] = t
         /\ target[t] \in Admins => Remaining(t) # {}

\* Once the team has an admin it always has an active one, however many
\* revocations of admins run at once (revoke_user's docstring).
AdminRemains ==
  (\E a \in Admins : user[a] # "absent") => ActiveAdmins # {}

\* A revoked member stays revoked; migrate does not bring one back.
RevocationIsFinal ==
  [][\A u \in Users : user[u] = "revoked" => user'[u] = "revoked"]_vars

\* The only keys that outlive their owner's revocation are those inserted by a
\* request that was authorized before it and reached the table after the
\* cascade: everything the cascade could see is gone.
OnlyRacingKeysSurvive ==
  \A u \in Users : user[u] = "revoked" => LiveKeysOf(u) \subseteq raced

\* A removed collaborator leaves no live credentials behind (revoke_user's
\* docstring).
NoLiveCredentialsLeft ==
  \A u \in Users : user[u] = "revoked" => LiveKeysOf(u) = {}
=============================================================================
