--------------------------- MODULE DashboardAccess ---------------------------
(***************************************************************************)
(* Who may manage the team: the Google sign-in and the session cookie of   *)
(* web.py and webauth.py, and require_dashboard_role of auth.py, in front  *)
(* of the members and keys of TeamAccess.                                  *)
(*                                                                         *)
(* One browser with several tabs. Its two cookies are shared by the tabs:  *)
(* the state of the sign-in begun last, and the session.                   *)
(***************************************************************************)
EXTENDS TeamAccess

CONSTANTS Tabs,
          Calls,        \* requests to the team routes in progress at once
          AdminKeys,    \* keys whose scopes include admin; the others are harmless here
          SessionLife,  \* SESSION_MAX_AGE_SECONDS, in ticks
          StateLife,    \* OAUTH_STATE_COOKIE_MAX_AGE_SECONDS, in ticks
          MaxTime,      \* bound: ticks that pass
          Overlapping   \* bound: whether a tab signs in while a call is in progress

ASSUME DashboardAssumption ==
  /\ BootstrapKey \in AdminKeys /\ AdminKeys \subseteq Keys
  /\ {SessionLife, StateLife, MaxTime} \subseteq Nat /\ Overlapping \in BOOLEAN
  /\ NoOne \notin Tabs /\ NoOne \notin [tab : Tabs, expires : Nat]
  /\ NoOne \notin [who : Users \cup {NoOne}, admin : BOOLEAN]

VARIABLES
  now,
  state_cookie, \* [tab, expires], or NoOne: the tab stands for its random state
  session,      \* [user, expires], or NoOne
  tab,          \* per tab: [at, began], at "idle", "google" or "exchange"
  request,      \* per call: who require_dashboard_role said is calling, until it acts
  \* History.
  crossed,      \* tabs since whose sign-in began another one began or ended
  overtaken,    \* calls in progress when the revocation of their caller committed
  unexplained   \* a sign-in was refused for its state, neither crossed nor late

browser_vars == <<state_cookie, session, tab, crossed, unexplained>>
call_vars == <<request, overtaken>>
dashboard_vars == <<vars, browser_vars, call_vars, now>>

Idle == [at |-> "idle", began |-> 0]

DashboardInit ==
  /\ Init
  /\ now = 0 /\ state_cookie = NoOne /\ session = NoOne
  /\ tab = [t \in Tabs |-> Idle]
  /\ request = [c \in Calls |-> NoOne] /\ overtaken = {}
  /\ crossed = {} /\ unexplained = FALSE

SigningIn == {t \in Tabs : tab[t].at = "google"}

MaySignIn == Overlapping \/ \A c \in Calls : request[c] = NoOne
MayCall == Overlapping \/ \A t \in Tabs : tab[t].at = "idle"
-----------------------------------------------------------------------------
(* Sign-in. *)

\* login_google: the state cookie of an earlier tab is overwritten. A tab may
\* give up and begin anew.
LoginGoogle(t) ==
  /\ tab[t].at \in {"idle", "google"} /\ MaySignIn
  /\ tab' = [tab EXCEPT ![t] = [at |-> "google", began |-> now]]
  /\ state_cookie' = [tab |-> t, expires |-> now + StateLife]
  /\ crossed' = (crossed \cup SigningIn) \ {t}
  /\ UNCHANGED <<vars, now, call_vars, session, unexplained>>

StateMatches(t) ==
  state_cookie # NoOne /\ state_cookie.tab = t /\ now < state_cookie.expires

\* auth_callback up to the exchange: Google sends tab t back.
Callback(t) ==
  /\ tab[t].at = "google"
  /\ IF StateMatches(t)
     THEN /\ tab' = [tab EXCEPT ![t] = [at |-> "exchange", began |-> 0]]
          /\ UNCHANGED unexplained
     ELSE /\ tab' = [tab EXCEPT ![t] = Idle]
          /\ unexplained' =
               (unexplained \/ (t \notin crossed /\ now < tab[t].began + StateLife))
  /\ crossed' = crossed \ {t}
  /\ UNCHANGED <<vars, now, call_vars, state_cookie, session>>

\* get_active_user_by_email, or "not authorized".
MayEnter(u) == user[u] = "active"

\* exchange_code_for_email says the account is u. The response sets the session
\* cookie and deletes the state cookie, whichever tab's it is by now.
Enter(t, u) ==
  /\ tab[t].at = "exchange" /\ MayEnter(u)
  /\ session' = [user |-> u, expires |-> now + SessionLife]
  /\ state_cookie' = NoOne
  /\ tab' = [tab EXCEPT ![t] = Idle]
  /\ crossed' = crossed \cup SigningIn
  /\ UNCHANGED <<vars, now, call_vars, unexplained>>

\* GoogleAuthError, or not a member.
Rejected(t) ==
  /\ tab[t].at = "exchange"
  /\ tab' = [tab EXCEPT ![t] = Idle]
  /\ UNCHANGED <<vars, now, call_vars, state_cookie, session, crossed, unexplained>>

\* Variant: both cookies are deleted.
LogoutEverything ==
  /\ session # NoOne /\ session' = NoOne /\ state_cookie' = NoOne
  /\ UNCHANGED <<vars, now, call_vars, tab, crossed, unexplained>>

\* logout deletes the session cookie only.
Logout ==
  /\ session # NoOne /\ session' = NoOne
  /\ UNCHANGED <<vars, now, call_vars, state_cookie, tab, crossed, unexplained>>

\* The browser drops cookies past their max_age.
Tick ==
  /\ now < MaxTime /\ now' = now + 1
  /\ state_cookie' = IF state_cookie # NoOne /\ state_cookie.expires <= now'
                     THEN NoOne ELSE state_cookie
  /\ session' = IF session # NoOne /\ session.expires < now' THEN NoOne ELSE session
  /\ UNCHANGED <<vars, tab, crossed, unexplained, call_vars>>

SignIn ==
  \/ \E t \in Tabs : \/ LoginGoogle(t) \/ Callback(t) \/ Rejected(t)
                     \/ \E u \in Users : Enter(t, u)
  \/ Logout \/ Tick
-----------------------------------------------------------------------------
(* Requests. *)

\* Variant: the cookie alone, which outlives a revocation by up to a week.
CookieUser == IF session # NoOne /\ now <= session.expires THEN session.user ELSE NoOne

\* The cookie's e-mail, if it has not expired, and its app_user row.
SessionUser ==
  IF session # NoOne /\ now <= session.expires /\ user[session.user] = "active"
  THEN session.user ELSE NoOne

AdminBearer == \E k \in AdminKeys : key_state[k] = "live"

\* ROLE_SCOPE_CEILING of the caller's role.
WithinCeiling(k, admin) == k \in AdminKeys => admin

\* What require_dashboard_role hands on to the service: nobody in particular for a
\* live admin key; any other bearer is ignored and the cookie decides.
Identities ==
  (IF AdminBearer THEN {[who |-> NoOne, admin |-> TRUE]} ELSE {})
    \cup (IF SessionUser # NoOne
          THEN {[who |-> SessionUser, admin |-> SessionUser \in Admins]} ELSE {})

\* A team route learns who calls. If that is a member who asks for a key, TeamAccess
\* keeps the caller until the INSERT.
Authorize(c) ==
  /\ request[c] = NoOne /\ MayCall
  /\ \E id \in Identities : request' = [request EXCEPT ![c] = id]
  /\ UNCHANGED <<vars, browser_vars, now, overtaken>>

AuthorizeMint(k) ==
  /\ SessionUser # NoOne /\ WithinCeiling(k, SessionUser \in Admins)
  /\ MintAuthorized(k, SessionUser)
  /\ UNCHANGED <<browser_vars, call_vars, now>>

\* The statement of the route, or the first of several, whatever has become of the
\* caller since: create_user, revoke_user, create_api_key for a bearer key,
\* revoke_api_key. Or the call ends in an error or has only read.
Acts(c) ==
  /\ request[c] # NoOne
  /\ LET u == request[c].who
         admin == request[c].admin
     IN  \/ admin /\ \E v \in Users : CreateUser(v) \/ \E t \in Revokers : RevokeRead(t, v)
         \/ u = NoOne /\ \E k \in Keys : MintForSystem(k)
         \/ \E k \in Keys : (admin \/ key_owner[k] = u) /\ RevokeKey(k)
         \/ UNCHANGED vars
  /\ request' = [request EXCEPT ![c] = NoOne]
  /\ overtaken' = overtaken \ {c}
  /\ UNCHANGED <<browser_vars, now>>

Request ==
  \/ \E c \in Calls : Authorize(c) \/ Acts(c)
  \/ \E k \in Keys : AuthorizeMint(k)

CallsOf(u) == {c \in Calls : request[c] # NoOne /\ request[c].who = u}

\* The command line, and the transactions already under way.
Background ==
  /\ \/ /\ \/ BootstrapAdmin \/ BootstrapKeyUpsert
           \/ \E k \in Keys : MintForSystem(k) \/ MintInsert(k)
           \/ \E t \in Revokers :
                \/ \E u \in Users : LockAdmin(t, u)
                \/ RevokeSnapshot(t) \/ RevokeRefused(t) \/ RevokeUpdate(t)
                \/ RevokeCascade(t) \/ RevokeAbort(t)
        /\ UNCHANGED overtaken
     \/ \E t \in Revokers : /\ RevokeCommit(t)
                            /\ overtaken' = overtaken \cup CallsOf(target[t])
  /\ UNCHANGED <<now, browser_vars, request>>

DashboardNext == SignIn \/ Request \/ Background

DashboardSpec == DashboardInit /\ [][DashboardNext]_dashboard_vars
-----------------------------------------------------------------------------
DashboardTypeOK ==
  /\ now \in 0..MaxTime
  /\ state_cookie \in [tab : Tabs, expires : 0..(MaxTime + StateLife)] \cup {NoOne}
  /\ session \in [user : Users, expires : 0..(MaxTime + SessionLife)] \cup {NoOne}
  /\ tab \in [Tabs -> [at : {"idle", "google", "exchange"}, began : 0..MaxTime]]
  /\ crossed \subseteq Tabs /\ unexplained \in BOOLEAN
  /\ request \in [Calls -> [who : Users \cup {NoOne}, admin : BOOLEAN] \cup {NoOne}]
  /\ overtaken \subseteq Calls

\* The session cookie only ever names somebody who is, or has been, a member: a
\* cookie handed to a stranger would begin to work on the day the address is
\* added to the team (auth_callback).
SessionNamesMember == session # NoOne => user[session.user] # "absent"

\* A sign-in is refused for its state only if another one began or ended in the
\* browser since, or it took longer than the state cookie lives.
RefusalHasCause == ~unexplained

\* Whoever still acts though revoked does so in a call that was in progress when
\* the revocation committed: a cookie that outlives it by days lets nothing new in,
\* whichever revocation, overlapping others, it was (require_dashboard_role).
LateCallersWereLetIn ==
  \A c \in Calls : \A u \in Users :
    c \in CallsOf(u) /\ user[u] = "revoked" => c \in overtaken

\* A member without the admin role never owns a key with the admin scope,
\* although key, cookie and role are read in different requests
\* (create_api_key: "can never mint themselves an admin-scoped key").
AdminKeysAreAdmins ==
  \A k \in AdminKeys : {key_owner[k], mint_for[k]} \subseteq Admins \cup {NoOne}

\* What keeps the team to its members, whatever browser, command line and
\* overlapping revocations do: a revocation owns the admin rows it counted, no
\* session is a stranger's, nobody revoked is let in any more, and no key reaches
\* beyond its owner's role (revoke_user, auth_callback, create_api_key).
MembersOnly ==
  /\ TypeOK /\ DashboardTypeOK
  /\ AdminsCountedAreLocked
  /\ SessionNamesMember /\ LateCallersWereLetIn
  /\ AdminKeysAreAdmins
=============================================================================
