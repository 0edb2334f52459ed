----------------------------- MODULE TableCards -----------------------------
(***************************************************************************)
(* The cards on the tables: each carries the public token of its table,    *)
(* which an administrator may replace (tables.service.ts), and which is    *)
(* all that a phone knows (public.module.ts).                              *)
(***************************************************************************)
EXTENDS Naturals, FiniteSets

CONSTANTS Furniture,   \* the tables
          Admins,      \* the screens of administrators
          MaxTokens    \* bound of the runs

ASSUME TableCardsAssumption == MaxTokens \in Nat

Tokens == 1..MaxTokens

VARIABLES card,       \* tables.public_token by table, 0 where there is no table yet
          inService,  \* tables.is_active
          revoked,    \* the rows of revoked_table_tokens
          rotation,   \* the table and token that a rotation has read
          issued      \* every card that was ever issued, as pairs

tableCardsVars == <<card, inService, revoked, rotation, issued>>

NoRotation == [table |-> 0, token |-> 0]

TableCardsTypeOK ==
    /\ card \in [Furniture -> 0..MaxTokens]
    /\ inService \in [Furniture -> BOOLEAN]
    /\ revoked \subseteq Tokens
    /\ rotation \in [Admins -> [table : Furniture, token : Tokens] \cup {NoRotation}]
    /\ issued \subseteq Furniture \X Tokens

TableCardsInit ==
    /\ card = [t \in Furniture |-> 0]
    /\ inService = [t \in Furniture |-> TRUE]
    /\ revoked = {}
    /\ rotation = [a \in Admins |-> NoRotation]
    /\ issued = {}

Current(token) == {t \in Furniture : card[t] = token}

\* A random token is one that nobody has had.
FreshToken(token) == \A p \in issued : p[2] # token

PutCard(t, token) ==
    /\ FreshToken(token)
    /\ card' = [card EXCEPT ![t] = token]
    /\ issued' = issued \cup {<<t, token>>}

CreateTable(t, token) ==
    /\ card[t] = 0
    /\ PutCard(t, token)
    /\ UNCHANGED <<inService, revoked, rotation>>

\* A change of its name or its service leaves the card.
UpdateTable(t) ==
    /\ card[t] # 0
    /\ inService' = [inService EXCEPT ![t] = ~@]
    /\ UNCHANGED <<card, revoked, rotation, issued>>

\* The current token is read without a lock,
BeginRotation(a, t) ==
    /\ rotation[a] = NoRotation /\ card[t] # 0
    /\ rotation' = [rotation EXCEPT ![a] = [table |-> t, token |-> card[t]]]
    /\ UNCHANGED <<card, inService, revoked, issued>>

\* variant RevokedTwice: the second revocation is ignored, not refused
NeverRevokedTwice(token) == FALSE

\* and the primary key of revoked_table_tokens fails a second rotation of it.
RevokedTwice(token) == token \in revoked

RotateToken(a, token) ==
    /\ rotation[a] # NoRotation /\ ~RevokedTwice(rotation[a].token)
    /\ revoked' = revoked \cup {rotation[a].token}
    /\ PutCard(rotation[a].table, token)
    /\ rotation' = [rotation EXCEPT ![a] = NoRotation]
    /\ UNCHANGED inService

FailRotation(a) ==
    /\ rotation[a] # NoRotation
    /\ rotation' = [rotation EXCEPT ![a] = NoRotation]
    /\ UNCHANGED <<card, inService, revoked, issued>>

TableCardsNext ==
    \/ \E t \in Furniture, token \in Tokens : CreateTable(t, token)
    \/ \E t \in Furniture : UpdateTable(t)
    \/ \E a \in Admins, t \in Furniture : BeginRotation(a, t)
    \/ \E a \in Admins, token \in Tokens : RotateToken(a, token)
    \/ \E a \in Admins : FailRotation(a)

TableCardsSpec == TableCardsInit /\ [][TableCardsNext]_tableCardsVars

\* What a phone that reads a token is answered: the table, 410 or 404.
Resolve(token) ==
    IF Current(token) # {}
    THEN LET t == CHOOSE t \in Current(token) : TRUE IN
         IF inService[t] THEN [table |-> t] ELSE [error |-> "not_found"]
    ELSE IF token \in revoked THEN [error |-> "qr_revoked"] ELSE [error |-> "not_found"]

\* A card that was ever issued leads to its own table, when that is in service,
\* or says that it was replaced, also after two administrators replaced it at
\* the same time: none ends as a page that does not exist.
NoCardIsForgotten ==
    \A p \in issued :
        IF card[p[1]] = p[2] THEN inService[p[1]] => Resolve(p[2]) = [table |-> p[1]]
                             ELSE Resolve(p[2]) = [error |-> "qr_revoked"]
=============================================================================
