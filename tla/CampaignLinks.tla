--------------------------- MODULE CampaignLinks ---------------------------
(***************************************************************************)
(* The links of advertisements and their short codes (registrarLink of     *)
(* src/apps/api/src/modules/acquisition/acquisition.service.ts).  A link   *)
(* is known by its source, campaign and content; the links here share a    *)
(* source, and so the codes that are tried for them, one transaction each, *)
(* with the two unique indexes of the table as the only referee.  Any      *)
(* error of a transaction moves the page to the next code.                 *)
(***************************************************************************)
EXTENDS Naturals

CONSTANTS Links,        \* identities of links
          LegacyLinks,  \* those written before there were codes
          Screens,      \* pages that create links
          Attempts,     \* how many codes are tried
          NoCode        \* null

ASSUME CampaignLinksAssumption ==
    Attempts \in Nat \ {0} /\ NoCode \notin Nat /\ LegacyLinks \subseteq Links

VARIABLES slug,     \* the rows of origem_link: a code or NoCode, by identity
          request,  \* what each tab is in the middle of
          printed,  \* links and codes that a tab was given
          late,     \* links whose row was written without a code
          skipped   \* an attempt to give such a link its code failed by a fault

campaignLinksVars == <<slug, request, printed, late, skipped>>

Request == [link : Links, found : BOOLEAN, attempt : 0..Attempts]
NoRequest == [link |-> NoCode]

CampaignLinksTypeOK ==
    /\ \E rows \in SUBSET Links : slug \in [rows -> 0..Attempts - 1 \cup {NoCode}]
    /\ request \in [Screens -> Request \cup {NoRequest}]
    /\ printed \subseteq Links \X (0..Attempts - 1)
    /\ late \subseteq Links /\ skipped \in BOOLEAN

CampaignLinksInit ==
    /\ slug = [l \in LegacyLinks |-> NoCode]
    /\ request = [w \in Screens |-> NoRequest]
    /\ printed = {}
    /\ late = LegacyLinks /\ skipped = FALSE

Rows == DOMAIN slug

Done(w) == request' = [request EXCEPT ![w] = NoRequest]

\* The answer to the tab: a code that it will print, if there is one.
Answer(w, link, code) ==
    /\ Done(w)
    /\ printed' = IF code = NoCode THEN printed ELSE printed \cup {<<link, code>>}

\* A link that has its code is answered with it.
FindLink(w, link) ==
    /\ request[w] = NoRequest
    /\ IF link \in Rows /\ slug[link] # NoCode
       THEN Answer(w, link, slug[link])
       ELSE /\ request' = [request EXCEPT ![w] = [link |-> link, found |-> link \in Rows, attempt |-> 0]]
            /\ UNCHANGED printed
    /\ UNCHANGED <<slug, late, skipped>>

\* variant CodeTaken: without the unique index
CodeNeverTaken(link, code) == FALSE

\* origem_link_slug_uq
CodeTaken(link, code) == \E other \in Rows \ {link} : slug[other] = code

Write(link, code) ==
    slug' = [l \in Rows \cup {link} |-> IF l = link THEN code ELSE slug[l]]

\* A row that was found is given the code, or a row is inserted, which
\* origem_link_identidade_uq refuses when another tab has inserted it.
Refused(r) == CodeTaken(r.link, r.attempt) \/ (~r.found /\ r.link \in Rows)

Trying(w) == request[w] # NoRequest /\ request[w].attempt < Attempts

TryCode(w) ==
    LET r == request[w] IN
    /\ Trying(w)
    /\ IF Refused(r)
       THEN /\ request' = [request EXCEPT ![w].attempt = @ + 1]
            /\ UNCHANGED <<slug, printed>>
       ELSE /\ Write(r.link, r.attempt)
            /\ Answer(w, r.link, r.attempt)
    /\ UNCHANGED <<late, skipped>>

\* Committed, although the service did not hear of it, or not.
MaybeWritten(r) == UNCHANGED slug \/ (~Refused(r) /\ Write(r.link, r.attempt))

\* Any other error (a lost connection, a timeout) is caught with those of the indexes.
FailTry(w) ==
    /\ Trying(w)
    /\ MaybeWritten(request[w])
    /\ request' = [request EXCEPT ![w].attempt = @ + 1]
    /\ skipped' = (skipped \/ request[w].found)
    /\ UNCHANGED <<printed, late>>

\* The service stops, or its answer does not arrive.
AbandonTry(w) ==
    /\ Trying(w)
    /\ MaybeWritten(request[w])
    /\ Done(w)
    /\ UNCHANGED <<printed, late, skipped>>

\* No code is left: the link goes without, and nothing is printed; the
\* insertion may fail.
GoWithoutCode(w) ==
    LET r == request[w] IN
    /\ r # NoRequest /\ r.attempt = Attempts
    /\ \/ UNCHANGED <<slug, late>>
       \/ /\ ~r.found /\ r.link \notin Rows
          /\ Write(r.link, NoCode)
          /\ late' = late \cup {r.link}
    /\ Done(w)
    /\ UNCHANGED <<printed, skipped>>

CampaignLinksNext ==
    \E w \in Screens :
        \/ \E l \in Links : FindLink(w, l)
        \/ TryCode(w) \/ FailTry(w) \/ AbandonTry(w) \/ GoWithoutCode(w)

CampaignLinksSpec == CampaignLinksInit /\ [][CampaignLinksNext]_campaignLinksVars

\* Where a printed code leads: the destination of the link that holds it.
DestinationsOf(code) == {l \in Rows : slug[l] = code}

\* A code that was handed out keeps leading to the link it was made for, and to
\* no other, whichever tabs created links at the same time and whatever failed:
\* an advertisement that is in print credits the campaign that paid for it.
\* Only a link that was there before it had a code may be given a second one,
\* and then an attempt to give such a link its code has failed by a fault and
\* not by an index: the page passed over a code that was free, and its update
\* by id overwrites what another has printed meanwhile.
PrintedCodesLead ==
    \A p \in printed : DestinationsOf(p[2]) = {p[1]} \/ (skipped /\ p[1] \in late)
=============================================================================
