------------------------------ MODULE Members ------------------------------
(***************************************************************************)
(* Restaurants and their teams: sign-up, invitations, roles, and the       *)
(* access tokens, which carry a role for as long as they live whatever     *)
(* becomes of the membership (platform.service.ts, members.service.ts,     *)
(* and the claims of auth.service.ts).                                     *)
(***************************************************************************)
EXTENDS Naturals

CONSTANTS Restaurants, Users, Slugs, Nobody

Roles == {"admin", "operator", "waiter"}

Restaurant == [slug : Slugs, status : {"active", "blocked"}]
Membership == [role : Roles, status : {"invited", "active", "disabled"}, invite : BOOLEAN]

ASSUME MembersAssumption == Nobody \notin Restaurant \cup Membership \cup Roles

VARIABLES restaurant,   \* [slug, status], Nobody where there is none
          password,     \* the users with an account, TRUE where it has a password
          member,       \* the rows of memberships, Nobody where there is none
          token,        \* the role that a live access token names, Nobody otherwise
          accepting     \* invitations that are being accepted: read, not yet written

membersVars == <<restaurant, password, member, token, accepting>>

MembersTypeOK ==
    /\ restaurant \in [Restaurants -> Restaurant \cup {Nobody}]
    /\ \E accounts \in SUBSET Users : password \in [accounts -> BOOLEAN]
    /\ member \in [Restaurants \X Users -> Membership \cup {Nobody}]
    /\ token \in [Restaurants \X Users -> Roles \cup {Nobody}]
    /\ accepting \subseteq Restaurants \X Users

MembersInit ==
    /\ restaurant = [t \in Restaurants |-> Nobody]
    /\ password = [u \in {} |-> TRUE]
    /\ member = [m \in Restaurants \X Users |-> Nobody]
    /\ token = [m \in Restaurants \X Users |-> Nobody]
    /\ accepting = {}

Accounts == DOMAIN password
Opened == {t \in Restaurants : restaurant[t] # Nobody}

WithAccount(u, hasPassword) ==
    password' = [v \in Accounts \cup {u} |-> IF v \in Accounts THEN password[v] ELSE hasPassword]

-----------------------------------------------------------------------------
(* A restaurant is inserted with its administrator in one transaction, whose *)
(* unique indexes on slug and e-mail have the last word.                     *)

AvailableSlug(slug) == \A t \in Opened : restaurant[t].slug # slug

InsertTenantWithAdmin(t, u, slug) ==
    /\ t \notin Opened /\ AvailableSlug(slug)
    /\ restaurant' = [restaurant EXCEPT ![t] = [slug |-> slug, status |-> "active"]]
    /\ WithAccount(u, TRUE)
    /\ member' = [member EXCEPT
                    ![<<t, u>>] = [role |-> "admin", status |-> "active", invite |-> FALSE]]
    /\ UNCHANGED <<token, accepting>>

\* By the owner: an e-mail that has an account is refused.
Signup(t, u, slug) == u \notin Accounts /\ InsertTenantWithAdmin(t, u, slug)

\* By the platform: an account that exists is used as it is.
Create(t, u, slug) == InsertTenantWithAdmin(t, u, slug)

SetStatus(t, status) ==
    /\ t \in Opened
    /\ restaurant' = [restaurant EXCEPT ![t].status = status]
    /\ UNCHANGED <<password, member, token, accepting>>

-----------------------------------------------------------------------------
(* Access tokens: the role of an active membership of an active restaurant,  *)
(* until it expires.                                                         *)

ActiveMember(t, u) == member[<<t, u>>] # Nobody /\ member[<<t, u>>].status = "active"

Issue(t, u) ==
    /\ ActiveMember(t, u) /\ restaurant[t].status = "active"
    /\ password[u]
    /\ token' = [token EXCEPT ![<<t, u>>] = member[<<t, u>>].role]
    /\ UNCHANGED <<restaurant, password, member, accepting>>

Expire(t, u) ==
    /\ token[<<t, u>>] # Nobody
    /\ token' = [token EXCEPT ![<<t, u>>] = Nobody]
    /\ UNCHANGED <<restaurant, password, member, accepting>>

-----------------------------------------------------------------------------
(* The team, by whoever holds a token of an administrator.                   *)

Invite(t, actor, u, role) ==
    /\ token[<<t, actor>>] = "admin"
    /\ member[<<t, u>>] = Nobody
    /\ LET active == u \in Accounts /\ password[u] IN
       member' = [member EXCEPT ![<<t, u>>] = [role |-> role, invite |-> ~active,
                                           status |-> IF active THEN "active" ELSE "invited"]]
    /\ WithAccount(u, FALSE)
    /\ UNCHANGED <<restaurant, token, accepting>>

HasInvite(t, u) == member[<<t, u>>] # Nobody /\ member[<<t, u>>].invite

\* An invitation is read while it is open, and its row then written by id.
FollowInvite(t, u) ==
    /\ HasInvite(t, u) /\ member[<<t, u>>].status = "invited"
    /\ accepting' = accepting \cup {<<t, u>>}
    /\ UNCHANGED <<restaurant, password, member, token>>

\* variant AcceptInvite: the password is not stored
AcceptInviteWithoutPassword(t, u) ==
    /\ <<t, u>> \in accepting
    /\ accepting' = accepting \ {<<t, u>>}
    /\ member' = [member EXCEPT ![<<t, u>>].status = "active", ![<<t, u>>].invite = FALSE]
    /\ UNCHANGED <<restaurant, password, token>>

AcceptInvite(t, u) ==
    /\ <<t, u>> \in accepting
    /\ accepting' = accepting \ {<<t, u>>}
    /\ password' = [password EXCEPT ![u] = TRUE]
    /\ member' = [member EXCEPT ![<<t, u>>].status = "active", ![<<t, u>>].invite = FALSE]
    /\ UNCHANGED <<restaurant, token>>

\* A link asked for by e-mail sets a password too.
ResetPasswordOf(u) ==
    /\ u \in Accounts
    /\ password' = [password EXCEPT ![u] = TRUE]
    /\ UNCHANGED <<restaurant, member, token, accepting>>

\* variant SelfDemotion: nobody is kept from it
SelfDemotionAllowed(actor, u, change) == FALSE

\* The actor may not take away its own administration.
SelfDemotion(actor, u, change) ==
    actor = u /\ (change.status = "disabled" \/ change.role \in Roles \ {"admin"})

\* What a change does not name stays.
Changes == [role : Roles \cup {Nobody}, status : {"active", "disabled", Nobody}]

Given(value, otherwise) == IF value = Nobody THEN otherwise ELSE value

\* Devices of a disabled member are revoked with it; the token lives on.
Update(t, actor, u, change) ==
    /\ token[<<t, actor>>] = "admin"
    /\ member[<<t, u>>] # Nobody
    /\ ~SelfDemotion(actor, u, change)
    /\ member' = [member EXCEPT ![<<t, u>>].role = Given(change.role, @),
                                ![<<t, u>>].status = Given(change.status, @)]
    /\ UNCHANGED <<restaurant, password, token, accepting>>

MembersNext ==
    \E t \in Restaurants :
        \/ \E u \in Users, slug \in Slugs : Signup(t, u, slug) \/ Create(t, u, slug)
        \/ \E status \in {"active", "blocked"} : SetStatus(t, status)
        \/ \E u \in Users :
              \/ Issue(t, u) \/ Expire(t, u) \/ FollowInvite(t, u) \/ AcceptInvite(t, u)
              \/ ResetPasswordOf(u)
              \/ \E actor \in Users, role \in Roles : Invite(t, actor, u, role)
              \/ \E actor \in Users, change \in Changes : Update(t, actor, u, change)

MembersSpec == MembersInit /\ [][MembersNext]_membersVars

-----------------------------------------------------------------------------
(* Properties. *)

AdminsOf(t) == {u \in Users : ActiveMember(t, u) /\ member[<<t, u>>].role = "admin"}

\* A restaurant loses its last administrator only at the hand of somebody who
\* is none any more, with a token that has outlived the role.
LastAdminFallsToAStaleToken ==
    [][\A t \in Restaurants : AdminsOf(t) # {} /\ AdminsOf(t)' = {} =>
         \E u \in Users : token[<<t, u>>] = "admin" /\ u \notin AdminsOf(t)]_membersVars

\* A member that is active can sign in, unless there is an invitation of it that
\* was not accepted: an administrator has made it active over that invitation
\* (which is then refused, and only a reset of the password helps), or the
\* platform has made whom another restaurant invited the administrator of a new
\* one, with the account as it is.
ActiveMembersCanSignIn ==
    \A t \in Restaurants, u \in Users :
        ActiveMember(t, u) => password[u] \/ \E s \in Restaurants : HasInvite(s, u)
=============================================================================
