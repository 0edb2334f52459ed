--------------------------- MODULE StaffAccounts ---------------------------
(***************************************************************************)
(* One account of the staff: its password, the link that resets it, its    *)
(* second factor, the restaurants it has access to, and its signed-in      *)
(* devices, each with a secret that is replaced at every refresh           *)
(* (auth.service.ts, totp.service.ts).  The account is used from one       *)
(* browser, whose tabs share a cookie and a stored session                 *)
(* (apps/web/src/lib/api.ts); answers may be lost.  It is no account of    *)
(* the platform's administrators, who need no restaurant.                  *)
(***************************************************************************)
EXTENDS Naturals, Sequences

CONSTANTS Tabs, NoCookie,
          Workplaces,    \* restaurants
          NoWorkplace,   \* null
          MaxDevices, MaxRotations, MaxResets   \* bounds of the runs

ASSUME StaffAccountsAssumption == {MaxDevices, MaxRotations, MaxResets} \subseteq Nat
ASSUME NoWorkplaceAssumption == NoWorkplace \notin Workplaces

VARIABLES account,   \* the columns of users
          access,    \* restaurants that are not blocked, where it is an active member
          devices,   \* the rows of staff_devices
          jar,       \* the refresh cookie of the browser
          session,   \* a session is stored in the browser
          call,      \* what each tab has asked for
          disturbed  \* calls have overlapped, an answer was lost, or the server has failed

staffAccountsVars == <<account, access, devices, jar, session, call, disturbed>>

(***************************************************************************)
(* Passwords, links and secrets are numbered in the order they are made, 0 *)
(* being none.  "under" is the password in force when a device was opened. *)
(***************************************************************************)
Workplace == Workplaces \cup {NoWorkplace}
StaffDevice == [secret : Nat, revoked : BOOLEAN, expired : BOOLEAN, at : Workplace, under : Nat]
Cookie == [device : 1..MaxDevices, secret : Nat]
ASSUME NoCookieAssumption == NoCookie \notin Cookie

\* "refresh" is what api.ts asks for; "renew" the same, as the end of another call.
StaffCall == [pc : {"idle", "login", "refresh", "renew", "switch", "issued", "refused",
                    "reset", "setup", "enable"},
              cookie : Cookie \cup {NoCookie}, at : Workplace]
NoCall == [pc |-> "idle", cookie |-> NoCookie, at |-> NoWorkplace]

StaffAccountsTypeOK ==
    /\ account \in [password : 0..MaxResets, link : 0..MaxResets, links : 0..MaxResets,
                    totp : {"none", "secret", "enabled"}]
    /\ access \subseteq Workplaces
    /\ devices \in Seq(StaffDevice) /\ Len(devices) <= MaxDevices
    /\ jar \in Cookie \cup {NoCookie}
    /\ session \in BOOLEAN /\ disturbed \in BOOLEAN
    /\ call \in [Tabs -> StaffCall]

StaffAccountsInit ==
    /\ account = [password |-> 0, link |-> 0, links |-> 0, totp |-> "none"]
    /\ access = Workplaces
    /\ devices = <<>>
    /\ jar = NoCookie
    /\ session = FALSE /\ disturbed = FALSE
    /\ call = [w \in Tabs |-> NoCall]

Become(w, next) == call' = [call EXCEPT ![w] = next]

Disturb(w) == disturbed' = (disturbed \/ \E other \in Tabs \ {w} : call[other] # NoCall)

\* A cookie ends with its device, by the clock of the browser or of the server first.
Sendable == IF jar # NoCookie /\ devices[jar.device].expired THEN {jar, NoCookie} ELSE {jar}

\* A tab sends a call; "at" is the restaurant that the server has found for it.
Begin(w, pc, at) ==
    /\ call[w] = NoCall
    /\ \E cookie \in Sendable : Become(w, [pc |-> pc, cookie |-> cookie, at |-> at])
    /\ Disturb(w)
    /\ UNCHANGED <<account, access, devices, jar, session>>

-----------------------------------------------------------------------------
(* Devices. *)

\* A restaurant is chosen or, with several, none is; there must be one.
MayWork(at) == IF at = NoWorkplace THEN access # {} ELSE at \in access
PickActive(at) == IF at = NoWorkplace /\ \E t \in access : access = {t}
                  THEN CHOOSE t \in Workplaces : access = {t} ELSE at

IssueCookie(w, d, secret) ==
    Become(w, [pc |-> "issued", cookie |-> [device |-> d, secret |-> secret], at |-> NoWorkplace])

OpenDevice(w, at) ==
    /\ Len(devices) < MaxDevices
    /\ devices' = Append(devices, [secret |-> 1, revoked |-> FALSE, expired |-> FALSE,
                                   at |-> at, under |-> account.password])
    /\ IssueCookie(w, Len(devices) + 1, 1)

RotateDevice(w, d, at) ==
    /\ devices[d].secret < MaxRotations
    /\ devices' = [devices EXCEPT ![d].secret = @ + 1, ![d].expired = FALSE, ![d].at = at]
    /\ IssueCookie(w, d, devices[d].secret + 1)

\* variant RevokeAll: the newest device is forgotten
RevokeAllButNewest ==
    devices' = [d \in DOMAIN devices |->
                   [devices[d] EXCEPT !.revoked = @ \/ d # Len(devices)]]

RevokeAll == devices' = [d \in DOMAIN devices |-> [devices[d] EXCEPT !.revoked = TRUE]]

RevokeAt(t) == devices' = [d \in DOMAIN devices |-> [devices[d] EXCEPT !.revoked = @ \/ devices[d].at = t]]

-----------------------------------------------------------------------------
\* The password, and the code of a second factor, are right and the restaurant
\* is looked up; the device is inserted in a transaction of its own.
Login(w, at) == MayWork(at) /\ Begin(w, "login", PickActive(at))

FinishLogin(w) ==
    /\ call[w].pc = "login"
    /\ OpenDevice(w, call[w].at)
    /\ UNCHANGED <<account, access, jar, session, disturbed>>

\* A tab asks once at a time, when its access token has expired.
RefreshSession(w) == session /\ Begin(w, "refresh", NoWorkplace)

\* A page of the staff is opened without a stored session: the cookie may bring it back.
OpenShell(w) == ~session /\ Begin(w, "refresh", NoWorkplace)

Refreshable(cookie) ==
    /\ cookie # NoCookie
    /\ ~devices[cookie.device].revoked /\ ~devices[cookie.device].expired
    /\ devices[cookie.device].secret = cookie.secret
    /\ MayWork(devices[cookie.device].at)

\* An old secret would revoke the family, but the exception that follows undoes it.
Refresh(w) ==
    /\ call[w].pc \in {"refresh", "renew"}
    /\ Refreshable(call[w].cookie)
    /\ LET d == call[w].cookie.device IN RotateDevice(w, d, PickActive(devices[d].at))
    /\ UNCHANGED <<account, access, jar, session, disturbed>>

\* A refused refresh is the end of the session; a call that was refused is
\* followed by a refresh.
Refuse(w) ==
    \/ call[w].pc = "refresh" /\ Become(w, [call[w] EXCEPT !.pc = "refused"])
    \/ /\ call[w].pc = "renew"
       /\ \E cookie \in Sendable : Become(w, [call[w] EXCEPT !.pc = "refresh", !.cookie = cookie])

RefuseRefresh(w) ==
    /\ ~Refreshable(call[w].cookie)
    /\ Refuse(w)
    /\ UNCHANGED <<account, access, devices, jar, session, disturbed>>

\* The server fails: whatever is no success ends the session.
FailRefresh(w) ==
    /\ call[w].pc = "refresh"
    /\ Refuse(w)
    /\ disturbed' = TRUE
    /\ UNCHANGED <<account, access, devices, jar, session>>

\* The restaurant is looked up; then the device of the cookie is used as it is,
\* or a new one is opened.
SwitchTenant(w, t) == session /\ t \in access /\ Begin(w, "switch", t)

FinishSwitch(w) ==
    /\ call[w].pc = "switch"
    /\ IF call[w].cookie = NoCookie THEN OpenDevice(w, call[w].at)
       ELSE RotateDevice(w, call[w].cookie.device, call[w].at)
    /\ UNCHANGED <<account, access, jar, session, disturbed>>

\* variant Receive: the cookie of the answer is not kept
ReceiveWithoutCookie(w) ==
    /\ call[w].pc \in {"issued", "refused"}
    /\ session' = (call[w].pc = "issued")
    /\ Become(w, NoCall)
    /\ UNCHANGED <<account, access, devices, jar, disturbed>>

\* The answer is stored, by the browser and by the tab; a refusal ends the
\* stored session of all tabs.
Receive(w) ==
    /\ call[w].pc \in {"issued", "refused"}
    /\ jar' = IF call[w].pc = "issued" THEN call[w].cookie ELSE jar
    /\ session' = (call[w].pc = "issued")
    /\ Become(w, NoCall)
    /\ UNCHANGED <<account, access, devices, disturbed>>

LoseAnswer(w) ==
    /\ call[w] # NoCall
    /\ Become(w, NoCall)
    /\ disturbed' = TRUE
    /\ UNCHANGED <<account, access, devices, jar, session>>

\* The server clears the cookie too.
RevokeOwn ==
    /\ jar # NoCookie
    /\ devices' = [devices EXCEPT ![jar.device].revoked = TRUE]
    /\ jar' = NoCookie

\* The stored session ends whether or not the server could be reached.
Logout(w) ==
    /\ session /\ call[w] = NoCall
    /\ session' = FALSE
    /\ RevokeOwn \/ UNCHANGED <<devices, jar>>
    /\ UNCHANGED <<account, access, call, disturbed>>

\* REFRESH_TOKEN_TTL_DAYS have passed since the last refresh.
DeviceExpires(d) ==
    /\ devices' = [devices EXCEPT ![d].expired = TRUE]
    /\ UNCHANGED <<account, access, jar, session, call, disturbed>>

-----------------------------------------------------------------------------
(* What administrators, of a restaurant or of the platform, do to it. *)

RevokeDevices(t) ==
    /\ RevokeAt(t)
    /\ UNCHANGED <<account, access, jar, session, call, disturbed>>

DisableMember(t) ==
    /\ access' = access \ {t}
    /\ RevokeAt(t)
    /\ UNCHANGED <<account, jar, session, call, disturbed>>

\* No device is revoked.
BlockRestaurant(t) ==
    /\ access' = access \ {t}
    /\ UNCHANGED <<account, devices, jar, session, call, disturbed>>

\* The member is made active, or the restaurant, once nothing else is in the way.
RestoreAccess(t) ==
    /\ access' = access \cup {t}
    /\ UNCHANGED <<account, devices, jar, session, call, disturbed>>

-----------------------------------------------------------------------------
(* The link that resets the password, of which the newest is good; it is    *)
(* read, and then the password is written by the id of the account.         *)

RequestPasswordReset ==
    /\ account.links < MaxResets
    /\ account' = [account EXCEPT !.link = account.links + 1, !.links = @ + 1]
    /\ UNCHANGED <<access, devices, jar, session, call, disturbed>>

FollowLink(w) ==
    /\ account.link # 0
    /\ Begin(w, "reset", NoWorkplace)

ResetPassword(w) ==
    /\ call[w].pc = "reset"
    /\ account.password < MaxResets
    /\ account' = [account EXCEPT !.password = @ + 1, !.link = 0]
    /\ RevokeAll
    /\ Become(w, NoCall)
    /\ UNCHANGED <<access, jar, session, disturbed>>

-----------------------------------------------------------------------------
(* The second factor: a secret is made, and made again until a code of it   *)
(* has enabled it; each looks at the account before it writes.              *)

SetupTotp(w) ==
    /\ session /\ account.totp # "enabled"
    /\ Begin(w, "setup", NoWorkplace)

WriteTotp(w) ==
    /\ call[w].pc = "setup"
    /\ account' = [account EXCEPT !.totp = IF @ = "enabled" THEN @ ELSE "secret"]
    /\ Become(w, NoCall)
    /\ UNCHANGED <<access, devices, jar, session, disturbed>>

EnableTotp(w) ==
    /\ session /\ account.totp = "secret"
    /\ Begin(w, "enable", NoWorkplace)

\* The device is refreshed with the answer.
WriteTotpEnabled(w) ==
    /\ call[w].pc = "enable"
    /\ account' = [account EXCEPT !.totp = "enabled"]
    /\ Become(w, [call[w] EXCEPT !.pc = "renew"])
    /\ UNCHANGED <<access, devices, jar, session, disturbed>>

StaffAccountsNext ==
    \/ RequestPasswordReset
    \/ \E t \in Workplaces : RevokeDevices(t) \/ DisableMember(t) \/ BlockRestaurant(t) \/ RestoreAccess(t)
    \/ \E d \in DOMAIN devices : DeviceExpires(d)
    \/ \E w \in Tabs :
          \/ \E at \in Workplace : Login(w, at)
          \/ \E t \in Workplaces : SwitchTenant(w, t)
          \/ FinishLogin(w) \/ FinishSwitch(w)
          \/ RefreshSession(w) \/ OpenShell(w) \/ Refresh(w) \/ RefuseRefresh(w) \/ FailRefresh(w)
          \/ Receive(w) \/ LoseAnswer(w) \/ Logout(w)
          \/ FollowLink(w) \/ ResetPassword(w)
          \/ SetupTotp(w) \/ WriteTotp(w) \/ EnableTotp(w) \/ WriteTotpEnabled(w)

StaffAccountsSpec == StaffAccountsInit /\ [][StaffAccountsNext]_staffAccountsVars

-----------------------------------------------------------------------------
(* Properties. *)

\* Whoever was signed in when the password was reset is signed out: a device
\* that can still refresh was opened under the password in force (by a login
\* that may have been checked against the one before).
DevicesFallWithThePassword ==
    \A d \in DOMAIN devices : ~devices[d].revoked => devices[d].under = account.password

\* The server has a reason to refuse the device of the browser.
CauseToRefuse ==
    /\ jar # NoCookie
    /\ LET own == devices[jar.device] IN own.revoked \/ own.expired \/ ~MayWork(own.at)

\* A browser that keeps its session loses it by a logout, or by a refusal of the
\* server whose reason was there when it refused: its device was revoked or has
\* expired, or the account has lost the restaurant it works for (or its last).
\* The replacement of secrets alone never signs it out, as long as calls do not
\* overlap (two tabs do not know of each other), no answer is lost and the
\* server does not fail.
SignedOutForCause ==
    [][session /\ ~disturbed' =>
         /\ ~session' => \E w \in Tabs : Logout(w) \/ call[w].pc = "refused"
         /\ \A w \in Tabs : call[w].pc # "refused" /\ call'[w].pc = "refused" => CauseToRefuse
      ]_staffAccountsVars
=============================================================================
