---------------------------- MODULE Acquisition ----------------------------
(***************************************************************************)
(* Where a restaurant came from (src/packages/origem and the acquisition   *)
(* module of the API): the touches that the browser of its future owner    *)
(* keeps in two cookies, the attribution row written at the sign-up, the   *)
(* milestones, and the report that sets them against the money spent.      *)
(***************************************************************************)
EXTENDS Integers, Sequences, FiniteSets, Functions

CONSTANTS Tenants,    \* the restaurants, each with one owner and one browser
          Arrivals,   \* the arrivals of the runs, a subset of Arrival
          Sources,    \* names of sources
          None,       \* null
          MaxSpendings  \* bound of the runs

Channels == {"paid_search", "paid_social", "organic_search", "organic_social",
             "referral", "email", "direct", "other"}

Milestones == {"cadastrou", "ativou", "pagou"}

Touch == [channel : Channels, source : Sources \cup {None}]

\* No utm_medium says "direct" or "other", and click identifiers are of paid ones.
MediumChannels == Channels \ {"direct", "other"}
ClickChannels == {"paid_search", "paid_social"}
Referrers == {"search", "social", "site"}

(***************************************************************************)
(* What classify looks at: the channel that utm_medium names, the channel  *)
(* of the first click identifier, fbclid, whether utm_source is there, the *)
(* kind of the host that referred (None for one of our own), and the first *)
(* source that these name.                                                 *)
(***************************************************************************)
Arrival == [medium : MediumChannels \cup {None}, click : ClickChannels \cup {None},
            fbclid : BOOLEAN, utm : BOOLEAN, referrer : Referrers \cup {None},
            source : Sources \cup {None}]

\* The channel of an arrival without any marking, by who referred it.
ReferrerChannel(referrer) ==
    CASE referrer = "search" -> "organic_search"
      [] referrer = "social" -> "organic_social"
      [] referrer = "site"   -> "referral"
      [] OTHER               -> "direct"

ASSUME AcquisitionAssumption == None \notin Channels \cup Sources /\ Arrivals \subseteq Arrival

\* A marked medium wins over a click identifier, which wins over fbclid.
Classify(a) ==
    [channel |-> IF a.medium # None THEN a.medium
                 ELSE IF a.click # None THEN a.click
                 ELSE IF a.fbclid THEN "organic_social"
                 ELSE IF a.utm THEN "other" ELSE ReferrerChannel(a.referrer),
     source  |-> a.source]

\* variant ReplacesLastTouch: a direct visit replaces too
AlwaysReplaces(touch) == TRUE

\* A direct visit does not replace what is known.
ReplacesLastTouch(touch) == touch.channel # "direct"

Unknown == [channel |-> "direct", source |-> None]

\* A line of what was spent on advertisements.
AdSpend == [touch : Touch, amount : Nat]

AttributionRow == [first : Touch, last : Touch]
MilestoneRow == Tenants \X Milestones

VARIABLES firstTouch,    \* cookie og_ft of a browser
          lastTouch,     \* cookie og_lt
          signup,        \* how far the sign-up of a restaurant has come
          attribution,   \* the rows of origem_atribuicao, None where there is none
          milestones,    \* the rows of origem_evento, as pairs
          spendings      \* the rows of origem_gasto

cookies == <<firstTouch, lastTouch>>
acquisitionVars == <<firstTouch, lastTouch, signup, attribution, milestones, spendings>>

AcquisitionTypeOK ==
    /\ firstTouch \in [Tenants -> Touch \cup {None}]
    /\ lastTouch \in [Tenants -> Touch \cup {None}]
    /\ attribution \in [Tenants -> AttributionRow \cup {None}]
    /\ milestones \subseteq MilestoneRow
    /\ signup \in [Tenants -> {"none", "account", "attributed", "done"}]
    /\ spendings \in Seq(AdSpend)

AcquisitionInit ==
    /\ firstTouch = [t \in Tenants |-> None]
    /\ lastTouch = [t \in Tenants |-> None]
    /\ attribution = [t \in Tenants |-> None]
    /\ milestones = {}
    /\ signup = [t \in Tenants |-> "none"]
    /\ spendings = <<>>

\* A page is opened: the first touch is written once, the last one replaced.
Capture(t, arrival) ==
    LET touch == Classify(arrival) IN
    /\ firstTouch' = [firstTouch EXCEPT ![t] = IF @ = None THEN touch ELSE @]
    /\ lastTouch' = [lastTouch EXCEPT ![t] = IF ReplacesLastTouch(touch) THEN touch ELSE @]
    /\ UNCHANGED <<signup, attribution, milestones, spendings>>

\* Each cookie ends on a day of its own, or is deleted by hand.
Outlive(t) ==
    /\ \/ firstTouch' = [firstTouch EXCEPT ![t] = None] /\ UNCHANGED lastTouch
       \/ lastTouch' = [lastTouch EXCEPT ![t] = None] /\ UNCHANGED firstTouch
    /\ UNCHANGED <<signup, attribution, milestones, spendings>>

\* A request for deletion takes both at once.
Esquecer(t) ==
    /\ firstTouch' = [firstTouch EXCEPT ![t] = None]
    /\ lastTouch' = [lastTouch EXCEPT ![t] = None]
    /\ UNCHANGED <<signup, attribution, milestones, spendings>>

\* What the server reads from the two cookies.
ReadOrigin(first, last) ==
    [first |-> IF first # None THEN first ELSE IF last # None THEN last ELSE Unknown,
     last  |-> IF last # None THEN last ELSE IF first # None THEN first ELSE Unknown]

Origin(t) == ReadOrigin(firstTouch[t], lastTouch[t])

\* The account is committed; what follows is on connections of its own, and an
\* error ends it without undoing anything.
CreateAccount(t) ==
    /\ signup[t] = "none"
    /\ signup' = [signup EXCEPT ![t] = "account"]
    /\ UNCHANGED <<cookies, attribution, milestones, spendings>>

\* A repetition would keep the first touch.
RecordAttribution(t) ==
    /\ signup[t] = "account"
    /\ attribution' = [attribution EXCEPT ![t] =
                          IF @ = None THEN Origin(t) ELSE [@ EXCEPT !.last = Origin(t).last]]
    /\ signup' = [signup EXCEPT ![t] = "attributed"]
    /\ UNCHANGED <<cookies, milestones, spendings>>

\* A milestone is kept once, as it was first reached.
RecordMilestone(t, name) == milestones' = milestones \cup {<<t, name>>}

RecordSignup(t) ==
    /\ signup[t] = "attributed"
    /\ RecordMilestone(t, "cadastrou")
    /\ signup' = [signup EXCEPT ![t] = "done"]
    /\ UNCHANGED <<cookies, attribution, spendings>>

GiveUpRecording(t) ==
    /\ signup[t] \in {"account", "attributed"}
    /\ signup' = [signup EXCEPT ![t] = "done"]
    /\ UNCHANGED <<cookies, attribution, milestones, spendings>>

\* The first order of a customer, a payment; an error is swallowed.
Mark(t, name) ==
    /\ signup[t] = "done" /\ name \in {"ativou", "pagou"}
    /\ RecordMilestone(t, name)
    /\ UNCHANGED <<cookies, signup, attribution, spendings>>

EnterSpending(touch, amount) ==
    /\ Len(spendings) < MaxSpendings
    /\ spendings' = Append(spendings, [touch |-> touch, amount |-> amount])
    /\ UNCHANGED <<cookies, signup, attribution, milestones>>

AcquisitionNext ==
    \/ \E t \in Tenants :
          \/ \E a \in Arrivals : signup[t] = "none" /\ Capture(t, a)
          \/ signup[t] = "none" /\ (Outlive(t) \/ Esquecer(t))
          \/ CreateAccount(t) \/ RecordAttribution(t) \/ RecordSignup(t) \/ GiveUpRecording(t)
          \/ \E m \in Milestones : Mark(t, m)
    \/ \E a \in Arrivals : EnterSpending(Classify(a), 1)

AcquisitionSpec == AcquisitionInit /\ [][AcquisitionNext]_acquisitionVars

(***************************************************************************)
(* The report groups restaurants and spendings by channel or by channel    *)
(* and source, under the first or the last touch.  A quotient is None      *)
(* where its divisor is 0, so that no payer does not read as a cost of 0.  *)
(***************************************************************************)
ReportKey(touch, groupBy) ==
    IF groupBy = "channel" THEN <<touch.channel>> ELSE <<touch.channel, touch.source>>

\* variant Divide: 0 in place of null
DivideToZero(a, b) == IF b > 0 THEN <<a, b>> ELSE <<0, 1>>

Divide(a, b) == IF b > 0 THEN <<a, b>> ELSE None

Total(indices, amount) == FoldFunctionOnSet(+, 0, amount, indices)

Reached(name) == {t \in Tenants : <<t, name>> \in milestones}

TouchOf(t, model) == IF model = "first" THEN attribution[t].first ELSE attribution[t].last

Report(model, groupBy) ==
    LET subjects == {t \in Tenants : attribution[t] # None}
        members(k) == {t \in subjects : ReportKey(TouchOf(t, model), groupBy) = k}
        bills(k) == {i \in DOMAIN spendings : ReportKey(spendings[i].touch, groupBy) = k}
        spent(k) == Total(bills(k), [i \in DOMAIN spendings |-> spendings[i].amount])
        payers(k) == Cardinality(members(k) \cap Reached("pagou"))
        keys == {ReportKey(TouchOf(t, model), groupBy) : t \in subjects}
                \cup {ReportKey(spendings[i].touch, groupBy) : i \in DOMAIN spendings}
    IN [k \in keys |->
          [signups |-> Cardinality(members(k)),
           active  |-> Cardinality(members(k) \cap Reached("ativou")),
           payers  |-> payers(k),
           spent   |-> spent(k),
           cac     |-> IF spent(k) > 0 THEN Divide(spent(k), payers(k)) ELSE None]]

-----------------------------------------------------------------------------
(* Properties. *)

\* What brought a visitor is not forgotten by visiting again: the origin that
\* the sign-up would record turns "direct" only with the loss of a cookie.
CampaignIsRemembered ==
    [][\A t \in Tenants :
         Origin(t).last.channel # "direct" /\ Origin(t)'.last.channel = "direct" =>
             \/ firstTouch[t] # None /\ firstTouch'[t] = None
             \/ lastTouch[t] # None /\ lastTouch'[t] = None]_acquisitionVars

\* Every restaurant whose origin was recorded (the recording may have been given
\* up) and every spending is on exactly one line of the report,
\* the spending that brought nobody too, and a line has a cost for each client
\* only where there are clients.
ReportLosesNothing ==
    \A model \in {"first", "last"}, groupBy \in {"channel", "source"} :
        LET rows == Report(model, groupBy)
            Column(f) == Total(DOMAIN rows, [k \in DOMAIN rows |-> rows[k][f]]) IN
        /\ Column("signups") = Cardinality({t \in Tenants : attribution[t] # None})
        /\ Column("payers") = Cardinality({t \in Reached("pagou") : attribution[t] # None})
        /\ Column("spent") = Total(DOMAIN spendings, [i \in DOMAIN spendings |-> spendings[i].amount])
        /\ \A k \in DOMAIN rows : rows[k].cac # None => rows[k].payers > 0
=============================================================================
