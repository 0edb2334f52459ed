-------------------------- MODULE MCSupportingParts --------------------------
(***************************************************************************)
(* The parts around the table service, in one run.  They share no state:   *)
(* a behaviour is one of the part that it has chosen, and the states of    *)
(* the parts add up instead of multiplying.                                *)
(***************************************************************************)
EXTENDS StaffAccounts, Members, CampaignLinks, Acquisition, TableAccess,
        SlidingWindow, TableCards, StaffPresence, CartOrders, StaffPanel

MCArrivals ==
    LET Direct == [medium |-> None, click |-> None, fbclid |-> FALSE, utm |-> FALSE,
                   referrer |-> None, source |-> None] IN
    {Direct, [Direct EXCEPT !.medium = "email", !.click = "paid_search", !.utm = TRUE, !.source = "news"]}

\* Access is lost, and devices expire, while tabs do not overlap and either there
\* is one device or nothing has gone wrong and no second factor is made; tabs
\* overlap, and passwords are reset, in one restaurant.
OneTab == Cardinality({w \in Tabs : call[w] # NoCall}) <= 1
Home == CHOOSE t \in Workplaces : TRUE
AtHome ==
    /\ access = Workplaces
    /\ \A d \in DOMAIN devices : devices[d].at = Home /\ ~devices[d].expired
    /\ \A w \in Tabs : call[w].pc \in {"login", "switch"} => call[w].at = Home
Working ==
    \/ account.links = 0 /\ OneTab /\ (Len(devices) <= 1 \/ (account.totp = "none" /\ ~disturbed))
    \/ account.totp = "none" /\ AtHome

AccountsNext == StaffAccountsNext /\ Working'

\* A second restaurant is opened while nobody of the first is at work but for
\* one token, and one invitation, at a time.
First == CHOOSE t \in Restaurants : TRUE
LiveTokens == {m \in Restaurants \X Users : token[m] # Nobody}
OneTeam == Opened \subseteq {First}
TwoTeams ==
    /\ First \in Opened /\ Cardinality(LiveTokens) <= 1 /\ Cardinality(accepting) <= 1
    /\ \A t \in Opened : restaurant[t].status = "active"

TeamsNext == MembersNext /\ (OneTeam \/ TwoTeams)'

\* The catalogue moves alone until it is stocked; then the phone may come, and
\* while it is there areas open and close and products come and go.
Stocked ==
    /\ \A c \in Categories : category[c] = TRUE
    /\ \A p \in Products : OnSale(p) /\ product[p].available /\ product[p].category = CHOOSE c \in Categories : TRUE
    /\ \A a \in Areas : areaOpen[a]

Away == page = {} /\ cart = NoLines /\ sending = Idle /\ removed = {} /\ number = 1
        /\ orders = [n \in 1..MaxCarts |-> 0] /\ lost = [n \in 1..MaxCarts |-> 0]

Service ==
    \/ \E a \in Areas, isOpen \in BOOLEAN : SetAreaOpen(a, isOpen)
    \/ \E p \in Products, isAvailable \in BOOLEAN : SetAvailable(p, isAvailable)
    \/ \E p \in Products : DeleteProduct(p)

CartNext ==
    \/ Away /\ CatalogueNext /\ UNCHANGED pageVars
    \/ ~Away /\ Service /\ UNCHANGED pageVars
    \/ (Away => Stocked) /\ (\A e \in Editors : editing[e] = Nothing) /\ PhoneStep

\* Reloads overlap, or fail, during the first visit and before anything is
\* ordered; else there is one reload at a time.  Dialogs and bills come up as
\* long as nothing has been requested.
OneReload == Cardinality(reloads) <= 1
NoQuestion == dialog = NoDialog /\ visit.bill = "none"
Seating == placed = <<>> /\ visit.number <= 1 /\ NoQuestion /\ (OneReload \/ failures = 0)
Serving == OneReload /\ failures = 0 /\ (queue = <<>> \/ NoQuestion)

PanelNext == StaffPanelNext /\ (Seating \/ Serving)'

VARIABLE chosen

SupportingInit ==
    /\ chosen \in {"accounts", "members", "links", "acquisition", "access",
                  "window", "cards", "presence", "cart", "panel"}
    /\ StaffAccountsInit /\ MembersInit /\ CampaignLinksInit /\ AcquisitionInit /\ TableAccessInit
    /\ SlidingWindowInit /\ TableCardsInit /\ StaffPresenceInit /\ CartOrdersInit
    /\ StaffPanelInit

SupportingNext ==
    /\ UNCHANGED chosen
    /\ \/ /\ chosen = "accounts" /\ AccountsNext
          /\ UNCHANGED <<membersVars, campaignLinksVars, acquisitionVars, tableAccessVars,
                         slidingWindowVars, tableCardsVars, staffPresenceVars, cartOrdersVars, staffPanelVars>>
       \/ /\ chosen = "members" /\ TeamsNext
          /\ UNCHANGED <<staffAccountsVars, campaignLinksVars, acquisitionVars, tableAccessVars,
                         slidingWindowVars, tableCardsVars, staffPresenceVars, cartOrdersVars, staffPanelVars>>
       \/ /\ chosen = "links" /\ CampaignLinksNext
          /\ UNCHANGED <<staffAccountsVars, membersVars, acquisitionVars, tableAccessVars,
                         slidingWindowVars, tableCardsVars, staffPresenceVars, cartOrdersVars, staffPanelVars>>
       \/ /\ chosen = "acquisition" /\ AcquisitionNext
          /\ UNCHANGED <<staffAccountsVars, membersVars, campaignLinksVars, tableAccessVars,
                         slidingWindowVars, tableCardsVars, staffPresenceVars, cartOrdersVars, staffPanelVars>>
       \/ /\ chosen = "access" /\ TableAccessNext
          /\ UNCHANGED <<staffAccountsVars, membersVars, campaignLinksVars, acquisitionVars,
                         slidingWindowVars, tableCardsVars, staffPresenceVars, cartOrdersVars, staffPanelVars>>
       \/ /\ chosen = "window" /\ SlidingWindowNext
          /\ UNCHANGED <<staffAccountsVars, membersVars, campaignLinksVars, acquisitionVars,
                         tableAccessVars, tableCardsVars, staffPresenceVars, cartOrdersVars, staffPanelVars>>
       \/ /\ chosen = "cards" /\ TableCardsNext
          /\ UNCHANGED <<staffAccountsVars, membersVars, campaignLinksVars, acquisitionVars,
                         tableAccessVars, slidingWindowVars, staffPresenceVars, cartOrdersVars, staffPanelVars>>
       \/ /\ chosen = "presence" /\ StaffPresenceNext
          /\ UNCHANGED <<staffAccountsVars, membersVars, campaignLinksVars, acquisitionVars,
                         tableAccessVars, slidingWindowVars, tableCardsVars, cartOrdersVars, staffPanelVars>>
       \/ /\ chosen = "cart" /\ CartNext
          /\ UNCHANGED <<staffAccountsVars, membersVars, campaignLinksVars, acquisitionVars,
                         tableAccessVars, slidingWindowVars, tableCardsVars, staffPresenceVars, staffPanelVars>>
       \/ /\ chosen = "panel" /\ PanelNext
          /\ UNCHANGED <<staffAccountsVars, membersVars, campaignLinksVars, acquisitionVars,
                         tableAccessVars, slidingWindowVars, tableCardsVars, staffPresenceVars, cartOrdersVars>>

supportingVars == <<chosen, staffAccountsVars, membersVars, campaignLinksVars, acquisitionVars,
                    tableAccessVars, slidingWindowVars, tableCardsVars, staffPresenceVars, cartOrdersVars, staffPanelVars>>

\* Every row and every answer under way keeps its type, and no cart or order
\* holds more of a product than the server accepts.
SupportingTypesOK ==
    CASE chosen = "accounts"    -> StaffAccountsTypeOK
      [] chosen = "members"     -> MembersTypeOK
      [] chosen = "links"       -> CampaignLinksTypeOK
      [] chosen = "acquisition" -> AcquisitionTypeOK
      [] chosen = "access"      -> TableAccessTypeOK
      [] chosen = "window"      -> SlidingWindowTypeOK
      [] chosen = "cards"       -> TableCardsTypeOK
      [] chosen = "presence"    -> StaffPresenceTypeOK
      [] chosen = "cart"        -> CatalogueTypeOK /\ CartOrdersTypeOK
      [] chosen = "panel"       -> StaffPanelTypeOK

SupportingSpec == SupportingInit /\ [][SupportingNext]_supportingVars
=============================================================================
