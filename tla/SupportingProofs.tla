-------------------------- MODULE SupportingProofs --------------------------
(***************************************************************************)
(* What holds of what is printed and handed out, and of how restaurants    *)
(* come to the service, for every number of links, tables, tabs and        *)
(* tokens; and, from these and the proofs about the other parts, what the  *)
(* run of all of them together keeps.                                      *)
(***************************************************************************)
EXTENDS MCSupportingParts, StaffProofs, CustomerProofs

-----------------------------------------------------------------------------
(***************************************************************************)
(* Proofs about CampaignLinks: a code that was handed out keeps leading to *)
(* its link, for any number of links, tabs and codes.  That a link keeps   *)
(* its code is not written anywhere: the update by id overwrites whatever  *)
(* is there.  Only rows that were found without a code are updated, and    *)
(* for these it follows, as long as every attempt fails by an index, from  *)
(* the order in which codes are tried: every code below the one that such  *)
(* a link has, or that a tab is about to try for it, is held by another    *)
(* link, and so two tabs end at the same.  A fault breaks that order.      *)
(***************************************************************************)

Asking(w) == request[w] # NoRequest

\* A tab that may update a row.
MayUpdate(w) == Asking(w) /\ request[w].found

FoundAreLate == \A w \in Screens : MayUpdate(w) => request[w].link \in late

CodelessAreLate == late \subseteq Rows /\ \A l \in Rows : slug[l] = NoCode => l \in late

CodesDiffer == \A l, k \in Rows : slug[l] # NoCode /\ slug[l] = slug[k] => l = k

LowerAreTaken ==
    \A l \in late : slug[l] # NoCode => \A c \in 0..slug[l] - 1 : CodeTaken(l, c)

TriedAreTaken ==
    \A w \in Screens : MayUpdate(w) =>
        \A c \in 0..request[w].attempt - 1 : CodeTaken(request[w].link, c)

PrintedStand ==
    \A p \in printed : p[1] \in Rows /\ ((skipped /\ p[1] \in late) \/ slug[p[1]] = p[2])

LinksInv == /\ CampaignLinksTypeOK
            /\ FoundAreLate /\ CodelessAreLate /\ CodesDiffer /\ PrintedStand
            /\ ~skipped => LowerAreTaken /\ TriedAreTaken

\* What the type invariant says, without its existential quantifier.
LEMMA LinkTypes ==
    ASSUME CampaignLinksTypeOK
    PROVE  /\ Rows \subseteq Links
           /\ slug = [l \in Rows |-> slug[l]]
           /\ \A l \in Rows : slug[l] \in 0..Attempts - 1 \cup {NoCode}
           /\ Attempts \in Nat /\ NoCode \notin Nat
           /\ request \in [Screens -> Request \cup {NoRequest}]
           /\ \A w \in Screens : Asking(w) => request[w] \in Request
           /\ printed \subseteq Links \X (0..Attempts - 1)
           /\ late \subseteq Links /\ skipped \in BOOLEAN
  BY CampaignLinksAssumption DEF CampaignLinksTypeOK, Rows, Asking

\* At the start nothing is printed and the old links have no code.
LEMMA LinksInitially == CampaignLinksInit => LinksInv
<1> SUFFICES ASSUME CampaignLinksInit PROVE LinksInv
    OBVIOUS
<1>1. Rows = LegacyLinks /\ \A l \in Rows : slug[l] = NoCode
  BY DEF CampaignLinksInit, Rows
<1>2. CampaignLinksTypeOK
  <2>1. slug \in [LegacyLinks -> 0..Attempts - 1 \cup {NoCode}] /\ LegacyLinks \in SUBSET Links
    BY CampaignLinksAssumption DEF CampaignLinksInit
  <2> QED
    BY <2>1 DEF CampaignLinksInit, CampaignLinksTypeOK
<1>3. FoundAreLate /\ TriedAreTaken
  BY DEF CampaignLinksInit, FoundAreLate, TriedAreTaken, MayUpdate, Asking
<1>4. CodelessAreLate /\ CodesDiffer /\ LowerAreTaken /\ PrintedStand
  BY <1>1 DEF CampaignLinksInit, CodelessAreLate, CodesDiffer, LowerAreTaken, PrintedStand
<1> QED
  BY <1>2, <1>3, <1>4 DEF LinksInv

\* Codes that links have stay where they are.
CodesStay == Rows \subseteq Rows' /\ \A l \in Rows : slug[l] # NoCode => slug'[l] = slug[l]

\* What is taken stays taken.
LEMMA TakenStays ==
    ASSUME CodesStay, NoCode \notin Nat, NEW l, NEW c \in Nat, CodeTaken(l, c)
    PROVE  CodeTaken(l, c)'
  BY DEF CodesStay, CodeTaken

\* Where no attempt was skipped, a tab that finds its code free writes it into a
\* link that has none, or has this very one.
LEMMA FirstFreeCode ==
    ASSUME LinksInv, ~skipped, NEW w \in Screens, MayUpdate(w),
           slug[request[w].link] # NoCode, ~CodeTaken(request[w].link, request[w].attempt)
    PROVE  slug[request[w].link] = request[w].attempt
<1> DEFINE l == request[w].link
           a == request[w].attempt
<1>0. l \in Rows /\ l \in late
  BY DEF LinksInv, FoundAreLate, CodelessAreLate
<1>1. a \in Nat /\ slug[l] \in Nat
  BY <1>0, LinkTypes DEF LinksInv, MayUpdate, Request
<1>2. ~(a < slug[l])
  <2> SUFFICES ASSUME a < slug[l] PROVE FALSE
      OBVIOUS
  <2>1. a \in 0..slug[l] - 1
    BY <1>1
  <2> QED
    BY <1>0, <2>1 DEF LinksInv, LowerAreTaken
<1>3. ~(slug[l] < a)
  <2> SUFFICES ASSUME slug[l] < a PROVE FALSE
      OBVIOUS
  <2>1. CodeTaken(l, slug[l])
    BY <1>1 DEF LinksInv, TriedAreTaken
  <2> QED
    BY <1>0, <2>1 DEF LinksInv, CodesDiffer, CodeTaken
<1> QED
  BY <1>1, <1>2, <1>3

\* What a write leaves of the rows.
LEMMA RowOfLink ==
    ASSUME LinksInv, NEW l \in Links, NEW code \in 0..Attempts - 1 \cup {NoCode}, Write(l, code)
    PROVE  /\ Rows' = Rows \cup {l} /\ slug'[l] = code
           /\ \A k \in Rows \ {l} : slug'[k] = slug[k]
           /\ \E rows \in SUBSET Links : slug' \in [rows -> 0..Attempts - 1 \cup {NoCode}]
<1>1. Rows \subseteq Links /\ \A k \in Rows : slug[k] \in 0..Attempts - 1 \cup {NoCode}
  BY LinkTypes DEF LinksInv
<1>2. /\ Rows' = Rows \cup {l} /\ slug'[l] = code
      /\ \A k \in Rows \ {l} : slug'[k] = slug[k]
      /\ slug' \in [Rows \cup {l} -> 0..Attempts - 1 \cup {NoCode}]
  BY <1>1 DEF Write, Rows
<1>3. Rows \cup {l} \in SUBSET Links
  BY <1>1
<1> QED
  BY <1>2, <1>3

\* The code that a tab tries, when no index refuses it, keeps the invariant,
\* whether the tab hears of it or goes on: a link found without a code is given
\* the first that is free, unless an attempt was skipped.
LEMMA WriteKeeps ==
    ASSUME LinksInv, NEW w \in Screens, Asking(w), ~Refused(request[w]),
           request[w].attempt \in 0..Attempts - 1,
           Write(request[w].link, request[w].attempt),
           NEW r \in Request \cup {NoRequest}, request' = [request EXCEPT ![w] = r],
           r # NoRequest => /\ r.link = request[w].link /\ r.found = request[w].found
                            /\ r.found => skipped',
           late' = late, skipped' \in BOOLEAN, skipped => skipped',
           printed' \in {printed, printed \cup {<<request[w].link, request[w].attempt>>}}
    PROVE  LinksInv'
<1> DEFINE l == request[w].link
           code == request[w].attempt
<1>0. /\ Rows \subseteq Links /\ \A k \in Rows : slug[k] \in 0..Attempts - 1 \cup {NoCode}
      /\ Attempts \in Nat /\ NoCode \notin Nat
      /\ request \in [Screens -> Request \cup {NoRequest}]
      /\ \A v \in Screens : Asking(v) => request[v] \in Request
      /\ printed \subseteq Links \X (0..Attempts - 1)
      /\ late \subseteq Links /\ skipped \in BOOLEAN
      /\ l \in Links /\ code \in 0..Attempts - 1 /\ code \in Nat /\ code # NoCode
      /\ request[w].found \in BOOLEAN
  BY LinkTypes DEF LinksInv, Request
<1>1. /\ Rows' = Rows \cup {l} /\ slug'[l] = code
      /\ \A k \in Rows \ {l} : slug'[k] = slug[k]
      /\ \E rows \in SUBSET Links : slug' \in [rows -> 0..Attempts - 1 \cup {NoCode}]
  BY <1>0, RowOfLink
<1>2. /\ request' \in [Screens -> Request \cup {NoRequest}] /\ request'[w] = r
      /\ \A v \in Screens \ {w} : request'[v] = request[v]
  BY <1>0
<1>3. ~CodeTaken(l, code) /\ (l \in Rows => request[w].found /\ l \in late)
      /\ late \subseteq Rows
  BY <1>0 DEF Refused, LinksInv, FoundAreLate, MayUpdate, CodelessAreLate
<1>4. ASSUME ~skipped
      PROVE  CodesStay /\ (l \in late => \A c \in 0..code - 1 : CodeTaken(l, c))
  <2>1. ASSUME l \in Rows
        PROVE  /\ slug[l] \in {NoCode, code}
               /\ \A c \in 0..code - 1 : CodeTaken(l, c)
    <3>1. MayUpdate(w)
      BY <1>3, <2>1 DEF MayUpdate
    <3>2. \A c \in 0..code - 1 : CodeTaken(l, c)
      BY <1>4, <3>1 DEF LinksInv, TriedAreTaken
    <3> QED
      BY <1>3, <1>4, <3>1, <3>2, FirstFreeCode
  <2> HIDE DEF l, code
  <2>2. CodesStay
    BY <1>0, <1>1, <2>1 DEF CodesStay
  <2> QED
    BY <1>3, <2>1, <2>2
<1> HIDE DEF l, code
<1>5. CampaignLinksTypeOK'
  <2>1. printed' \subseteq Links \X (0..Attempts - 1)
    BY <1>0 DEF l, code
  <2> QED
    BY <1>0, <1>1, <1>2, <2>1 DEF CampaignLinksTypeOK
<1>6. FoundAreLate'
  BY <1>0, <1>1, <1>2 DEF LinksInv, FoundAreLate, MayUpdate, Asking, l
<1>7. CodelessAreLate'
  BY <1>0, <1>1 DEF LinksInv, CodelessAreLate
<1>8. CodesDiffer'
  <2> SUFFICES ASSUME NEW j \in Rows', NEW k \in Rows', slug'[j] # NoCode, slug'[j] = slug'[k]
               PROVE  j = k
      BY DEF CodesDiffer
  <2>1. CASE j # l /\ k # l
    BY <1>1, <2>1 DEF LinksInv, CodesDiffer
  <2>2. CASE j = l /\ k # l
    BY <1>1, <1>3, <2>2 DEF CodeTaken
  <2>3. CASE j # l /\ k = l
    BY <1>1, <1>3, <2>3 DEF CodeTaken
  <2> QED
    BY <2>1, <2>2, <2>3
<1>9. PrintedStand'
  <2> SUFFICES ASSUME NEW p \in printed'
               PROVE  p[1] \in Rows' /\ ((skipped' /\ p[1] \in late') \/ slug'[p[1]] = p[2])
      BY DEF PrintedStand
  <2>1. CASE p = <<l, code>>
    BY <1>1, <2>1
  <2>2. CASE p \in printed
    <3>1. p[1] \in Rows /\ p[2] # NoCode /\ ((skipped /\ p[1] \in late) \/ slug[p[1]] = p[2])
      BY <1>0, <2>2 DEF LinksInv, PrintedStand
    <3>2. CASE skipped
      BY <1>0, <1>1, <1>3, <3>1, <3>2
    <3>3. CASE ~skipped
      BY <1>4, <3>1, <3>3 DEF CodesStay
    <3> QED
      BY <1>0, <3>2, <3>3
  <2> QED
    BY <2>1, <2>2 DEF l, code
<1>10. ASSUME ~skipped'
       PROVE  LowerAreTaken' /\ TriedAreTaken'
  <2>0. ~skipped /\ CodesStay
    BY <1>0, <1>4, <1>10
  <2>1. ASSUME NEW k \in late', slug'[k] # NoCode, NEW c \in 0..slug'[k] - 1
        PROVE  CodeTaken(k, c)'
    <3>1. k \in Rows /\ k \in late /\ c \in Nat
      BY <1>0, <1>1, <1>3, <2>1
    <3>2. CodeTaken(k, c)
      BY <1>1, <1>4, <2>0, <2>1, <3>1 DEF LinksInv, LowerAreTaken
    <3> QED
      BY <1>0, <2>0, <3>1, <3>2, TakenStays
  <2>2. ASSUME NEW v \in Screens, MayUpdate(v)', NEW c \in 0..request'[v].attempt - 1
        PROVE  CodeTaken(request[v].link, c)' /\ request'[v] = request[v]
    <3>1. v # w /\ request'[v] = request[v]
      BY <1>2, <1>10, <2>2 DEF MayUpdate, Asking
    <3>2. MayUpdate(v) /\ request[v] \in Request
      BY <1>0, <2>2, <3>1 DEF MayUpdate, Asking
    <3>3. c \in Nat /\ CodeTaken(request[v].link, c)
      BY <2>0, <2>2, <3>1, <3>2 DEF LinksInv, TriedAreTaken, Request
    <3> QED
      BY <1>0, <2>0, <3>1, <3>3, TakenStays
  <2> QED
    BY <2>1, <2>2 DEF LowerAreTaken, TriedAreTaken
<1> QED
  BY <1>5, <1>6, <1>7, <1>8, <1>9, <1>10 DEF LinksInv

\* A step that writes no row keeps the invariant when it leaves each tab as it
\* was, without a request, or with one that it may make.
LEMMA ReadKeeps ==
    ASSUME LinksInv, NEW w \in Screens, NEW r \in Request \cup {NoRequest},
           slug' = slug, late' = late, skipped' \in BOOLEAN, skipped => skipped',
           request' = [request EXCEPT ![w] = r],
           r # NoRequest /\ r.found =>
               r.link \in late /\ (skipped' \/ \A c \in 0..r.attempt - 1 : CodeTaken(r.link, c)),
           \A p \in printed' : p \in printed \/ (p[1] \in Rows /\ slug[p[1]] = p[2]),
           printed' \subseteq Links \X (0..Attempts - 1)
    PROVE  LinksInv'
<1> USE DEF LinksInv
<1>0. request \in [Screens -> Request \cup {NoRequest}] /\ Rows' = Rows /\ skipped \in BOOLEAN
      /\ late \subseteq Links
  BY LinkTypes DEF Rows
<1>1. /\ request' \in [Screens -> Request \cup {NoRequest}] /\ request'[w] = r
      /\ \A v \in Screens \ {w} : request'[v] = request[v]
  BY <1>0
<1>2. CampaignLinksTypeOK'
  BY <1>0, <1>1 DEF CampaignLinksTypeOK
<1>3. FoundAreLate'
  BY <1>0, <1>1 DEF FoundAreLate, MayUpdate, Asking
<1>4. \A l, c : CodeTaken(l, c)' = CodeTaken(l, c)
  BY <1>0 DEF CodeTaken
<1>5. CodelessAreLate' /\ CodesDiffer'
  BY <1>0 DEF CodelessAreLate, CodesDiffer
<1>6. ASSUME ~skipped'
      PROVE  LowerAreTaken' /\ TriedAreTaken'
  <2>1. LowerAreTaken'
    BY <1>0, <1>4, <1>6 DEF LowerAreTaken
  <2>2. ASSUME NEW v \in Screens, MayUpdate(v)', NEW c \in 0..request'[v].attempt - 1
        PROVE  CodeTaken(request'[v].link, c)
    <3>1. CASE v = w
      BY <1>1, <1>6, <2>2, <3>1 DEF MayUpdate, Asking
    <3>2. CASE v # w
      BY <1>0, <1>1, <1>6, <2>2, <3>2 DEF TriedAreTaken, MayUpdate, Asking
    <3> QED
      BY <3>1, <3>2
  <2>3. TriedAreTaken'
    BY <1>0, <2>2 DEF TriedAreTaken, CodeTaken
  <2> QED
    BY <2>1, <2>3
<1>7. PrintedStand'
  BY <1>0 DEF PrintedStand
<1> QED
  BY <1>2, <1>3, <1>5, <1>6, <1>7

\* A row that is inserted without a code is one of the late ones.
LEMMA InsertionKeeps ==
    ASSUME LinksInv, NEW w \in Screens, NEW l \in Links, l \notin Rows, Write(l, NoCode), Done(w),
           late' = late \cup {l}, UNCHANGED <<printed, skipped>>
    PROVE  LinksInv'
<1>0. /\ Rows \subseteq Links /\ \A k \in Rows : slug[k] \in 0..Attempts - 1 \cup {NoCode}
      /\ Attempts \in Nat /\ NoCode \notin Nat
      /\ request \in [Screens -> Request \cup {NoRequest}]
      /\ \A v \in Screens : Asking(v) => request[v] \in Request
      /\ printed \subseteq Links \X (0..Attempts - 1)
      /\ late \subseteq Rows /\ skipped \in BOOLEAN
  BY LinkTypes DEF LinksInv, CodelessAreLate
<1>1. /\ Rows' = Rows \cup {l} /\ slug'[l] = NoCode
      /\ \A k \in Rows : slug'[k] = slug[k]
      /\ \E rows \in SUBSET Links : slug' \in [rows -> 0..Attempts - 1 \cup {NoCode}]
  BY RowOfLink
<1>2. /\ request' \in [Screens -> Request \cup {NoRequest}] /\ ~Asking(w)'
      /\ \A v \in Screens \ {w} : request'[v] = request[v]
  BY <1>0 DEF Done, Asking
<1>3. CodesStay
  BY <1>1 DEF CodesStay
<1>4. CampaignLinksTypeOK'
  BY <1>0, <1>1, <1>2 DEF CampaignLinksTypeOK
<1>5. FoundAreLate'
  BY <1>2 DEF LinksInv, FoundAreLate, MayUpdate, Asking
<1>6. CodelessAreLate' /\ CodesDiffer'
  BY <1>1 DEF LinksInv, CodelessAreLate, CodesDiffer
<1>7. PrintedStand'
  BY <1>0, <1>1 DEF LinksInv, PrintedStand
<1>8. ASSUME ~skipped'
      PROVE  LowerAreTaken' /\ TriedAreTaken'
  <2>1. ASSUME NEW k \in late', slug'[k] # NoCode, NEW c \in 0..slug'[k] - 1
        PROVE  CodeTaken(k, c)'
    <3>1. k \in Rows /\ k \in late /\ slug'[k] = slug[k]
      BY <1>0, <1>1, <2>1
    <3>2. c \in Nat /\ CodeTaken(k, c)
      BY <1>0, <1>8, <2>1, <3>1 DEF LinksInv, LowerAreTaken
    <3> QED
      BY <1>0, <1>3, <3>2, TakenStays
  <2>2. ASSUME NEW v \in Screens, MayUpdate(v)', NEW c \in 0..request'[v].attempt - 1
        PROVE  CodeTaken(request[v].link, c)' /\ request'[v] = request[v]
    <3>1. v # w /\ request'[v] = request[v]
      BY <1>2, <2>2 DEF MayUpdate
    <3>2. MayUpdate(v) /\ request[v] \in Request
      BY <1>0, <2>2, <3>1 DEF MayUpdate, Asking
    <3>3. c \in Nat /\ CodeTaken(request[v].link, c)
      BY <1>8, <2>2, <3>1, <3>2 DEF LinksInv, TriedAreTaken, Request
    <3> QED
      BY <1>0, <1>3, <3>1, <3>3, TakenStays
  <2> QED
    BY <2>1, <2>2 DEF LowerAreTaken, TriedAreTaken
<1> QED
  BY <1>4, <1>5, <1>6, <1>7, <1>8 DEF LinksInv

\* A tab goes to the next code: an index has refused the one it tried, or it has
\* skipped it.
LEMMA NextCodeKeeps ==
    ASSUME LinksInv, NEW w \in Screens, Trying(w), UNCHANGED <<slug, printed, late>>,
           request' = [request EXCEPT ![w].attempt = @ + 1],
           skipped' \in BOOLEAN, skipped => skipped',
           request[w].found => skipped' \/ CodeTaken(request[w].link, request[w].attempt)
    PROVE  LinksInv'
<1> DEFINE l == request[w].link
           a == request[w].attempt
           r == [request[w] EXCEPT !.attempt = @ + 1]
<1>0. /\ Attempts \in Nat /\ printed \subseteq Links \X (0..Attempts - 1)
      /\ Asking(w) /\ request[w] \in Request /\ a \in 0..Attempts - 1
  BY LinkTypes DEF LinksInv, Trying, Asking, Request
<1>1. request' = [request EXCEPT ![w] = r]
  OBVIOUS
<1>2. r \in Request /\ r.link = l /\ r.found = request[w].found /\ r.attempt = a + 1
  BY <1>0 DEF Request
<1>3. ASSUME r.found
      PROVE  r.link \in late /\ (skipped' \/ \A c \in 0..r.attempt - 1 : CodeTaken(r.link, c))
  <2>1. MayUpdate(w) /\ l \in late
    BY <1>0, <1>2, <1>3 DEF MayUpdate, LinksInv, FoundAreLate
  <2>2. ASSUME ~skipped', NEW c \in 0..r.attempt - 1
        PROVE  CodeTaken(r.link, c)
    <3>1. CASE c = a
      BY <1>2, <1>3, <2>2, <3>1
    <3>2. CASE c # a
      <4>1. c \in 0..a - 1 /\ ~skipped
        BY <1>0, <1>2, <2>2, <3>2
      <4> QED
        BY <1>2, <2>1, <4>1 DEF LinksInv, TriedAreTaken
    <3> QED
      BY <3>1, <3>2
  <2> QED
    BY <1>2, <2>1, <2>2
<1> HIDE DEF r
<1> QED
  BY <1>0, <1>1, <1>2, <1>3, ReadKeeps

\* A tab tries a code: it is refused, or its write is committed, or the attempt
\* fails with the write committed or not.
LEMMA TryKeeps ==
    ASSUME LinksInv, NEW w \in Screens, TryCode(w) \/ FailTry(w) \/ AbandonTry(w)
    PROVE  LinksInv'
<1> DEFINE l == request[w].link
           a == request[w].attempt
           r == [request[w] EXCEPT !.attempt = @ + 1]
<1>0. /\ Attempts \in Nat /\ NoCode \notin Nat /\ printed \subseteq Links \X (0..Attempts - 1)
      /\ Trying(w) /\ Asking(w) /\ request[w] \in Request
      /\ a \in 0..Attempts - 1 /\ a # NoCode
      /\ skipped \in BOOLEAN /\ request[w].found \in BOOLEAN
      /\ UNCHANGED late /\ Rows \subseteq Links
  BY LinkTypes DEF LinksInv, TryCode, FailTry, AbandonTry, Trying, Asking, Request
<1>1. r \in Request /\ r.link = l /\ r.found = request[w].found
  BY <1>0 DEF Request
<1>2. CASE TryCode(w) /\ Refused(request[w])
  <2>1. ASSUME request[w].found
        PROVE  CodeTaken(l, a)
    BY <1>2, <2>1 DEF Refused
  <2> QED
    BY <1>0, <1>2, <2>1, NextCodeKeeps DEF TryCode
<1>3. CASE TryCode(w) /\ ~Refused(request[w])
  <2>1. /\ Write(l, a) /\ request' = [request EXCEPT ![w] = NoRequest]
        /\ printed' = printed \cup {<<l, a>>} /\ skipped' = skipped
    BY <1>0, <1>3 DEF TryCode, Answer, Done
  <2> QED
    BY <1>0, <1>3, <2>1, WriteKeeps
<1>4. CASE FailTry(w) /\ UNCHANGED slug
  BY <1>0, <1>4, NextCodeKeeps DEF FailTry
<1>5. CASE FailTry(w) /\ ~Refused(request[w]) /\ Write(l, a)
  <2>1. /\ request' = [request EXCEPT ![w] = r] /\ printed' = printed
        /\ skipped' = (skipped \/ request[w].found)
    BY <1>5 DEF FailTry
  <2> HIDE DEF r
  <2> QED
    BY <1>0, <1>1, <1>5, <2>1, WriteKeeps
<1>6. CASE AbandonTry(w) /\ UNCHANGED slug
  <2>1. request' = [request EXCEPT ![w] = NoRequest] /\ UNCHANGED <<printed, skipped>>
    BY <1>6 DEF AbandonTry, Done
  <2> QED
    BY <1>0, <1>6, <2>1, ReadKeeps
<1>7. CASE AbandonTry(w) /\ ~Refused(request[w]) /\ Write(l, a)
  <2>1. request' = [request EXCEPT ![w] = NoRequest] /\ UNCHANGED <<printed, skipped>>
    BY <1>7 DEF AbandonTry, Done
  <2> QED
    BY <1>0, <1>7, <2>1, WriteKeeps
<1> QED
  BY <1>2, <1>3, <1>4, <1>5, <1>6, <1>7 DEF FailTry, AbandonTry, MaybeWritten

\* Every step keeps the invariant: a look starts at the first code, and a row is
\* written with a code or, when there is none left, without.
LEMMA LinksKept == LinksInv /\ [CampaignLinksNext]_campaignLinksVars => LinksInv'
<1> SUFFICES ASSUME LinksInv, [CampaignLinksNext]_campaignLinksVars PROVE LinksInv'
    OBVIOUS
<1>0. /\ Rows \subseteq Links /\ \A k \in Rows : slug[k] \in 0..Attempts - 1 \cup {NoCode}
      /\ Attempts \in Nat /\ NoCode \notin Nat
      /\ \A w \in Screens : Asking(w) => request[w] \in Request
      /\ printed \subseteq Links \X (0..Attempts - 1) /\ skipped \in BOOLEAN
  BY LinkTypes DEF LinksInv
<1>1. ASSUME NEW w \in Screens, NEW l \in Links, FindLink(w, l) PROVE LinksInv'
  <2>0. UNCHANGED <<slug, late, skipped>>
    BY <1>1 DEF FindLink
  <2>1. CASE l \in Rows /\ slug[l] # NoCode
    <3>1. /\ request' = [request EXCEPT ![w] = NoRequest]
          /\ printed' = printed \cup {<<l, slug[l]>>}
      BY <1>1, <2>1 DEF FindLink, Answer, Done
    <3>2. /\ printed' \subseteq Links \X (0..Attempts - 1)
          /\ \A p \in printed' : p \in printed \/ (p[1] \in Rows /\ slug[p[1]] = p[2])
      BY <1>0, <2>1, <3>1
    <3> QED
      BY <1>0, <2>0, <3>1, <3>2, ReadKeeps
  <2>2. CASE ~(l \in Rows /\ slug[l] # NoCode)
    <3> DEFINE r == [link |-> l, found |-> l \in Rows, attempt |-> 0]
    <3>1. request' = [request EXCEPT ![w] = r] /\ printed' = printed
      BY <1>1, <2>2 DEF FindLink
    <3>2. r.link = l /\ (r.found <=> l \in Rows) /\ r.attempt = 0
      BY Zenon
    <3>3. r \in Request
      <4>1. (l \in Rows) \in BOOLEAN /\ 0 \in 0..Attempts
        BY <1>0
      <4> QED
        BY <4>1, Zenon DEF Request
    <3>4. r.found => r.link \in late /\ \A c \in 0..r.attempt - 1 : CodeTaken(r.link, c)
      BY <2>2, <3>2 DEF LinksInv, CodelessAreLate
    <3> HIDE DEF r
    <3> QED
      BY <1>0, <2>0, <3>1, <3>3, <3>4, ReadKeeps
  <2> QED
    BY <2>1, <2>2
<1>2. ASSUME NEW w \in Screens, TryCode(w) \/ FailTry(w) \/ AbandonTry(w) PROVE LinksInv'
  BY <1>2, TryKeeps
<1>3. ASSUME NEW w \in Screens, GoWithoutCode(w) PROVE LinksInv'
  <2>1. request[w].link \in Links /\ Done(w) /\ UNCHANGED <<printed, skipped>>
        /\ request' = [request EXCEPT ![w] = NoRequest]
    BY <1>0, <1>3 DEF GoWithoutCode, Request, Asking, Done
  <2>2. CASE UNCHANGED <<slug, late>>
    BY <1>0, <2>1, <2>2, ReadKeeps
  <2>3. CASE /\ request[w].link \notin Rows /\ Write(request[w].link, NoCode)
             /\ late' = late \cup {request[w].link}
    BY <2>1, <2>3, InsertionKeeps
  <2> QED
    BY <1>3, <2>2, <2>3 DEF GoWithoutCode
<1>4. CASE UNCHANGED campaignLinksVars
  BY <1>4 DEF campaignLinksVars, LinksInv, CampaignLinksTypeOK, FoundAreLate, CodelessAreLate, CodesDiffer,
              LowerAreTaken, TriedAreTaken, PrintedStand, MayUpdate, Asking, CodeTaken, Rows
<1> QED
  BY <1>1, <1>2, <1>3, <1>4 DEF CampaignLinksNext

\* A printed code leads to its own link and no other (registrarLink,
\* destinoDoCodigo), however many tabs create links at the same time and whatever
\* fails, save for links that were there before their code, once an attempt to
\* give one of them a code has failed by a fault.
THEOREM PrintedCodesLeadAlways == CampaignLinksSpec => []PrintedCodesLead
<1>1. CampaignLinksSpec => []LinksInv
  BY LinksInitially, LinksKept, PTL DEF CampaignLinksSpec
<1>2. LinksInv => PrintedCodesLead
  <2> SUFFICES ASSUME LinksInv, NEW p \in printed, ~(skipped /\ p[1] \in late)
               PROVE  DestinationsOf(p[2]) = {p[1]}
      BY DEF PrintedCodesLead
  <2>1. p[1] \in Rows /\ slug[p[1]] = p[2] /\ p[2] # NoCode
    BY LinkTypes DEF LinksInv, PrintedStand
  <2> QED
    BY <2>1 DEF DestinationsOf, LinksInv, CodesDiffer
<1> QED
  BY <1>1, <1>2, PTL

-----------------------------------------------------------------------------
(***************************************************************************)
(* Proofs about TableCards: no card that was ever issued is forgotten,     *)
(* for any number of tables, administrators and tokens.                    *)
(***************************************************************************)

\* The card of a table was issued for it.
CardsAreIssued == \A t \in Furniture : card[t] # 0 => <<t, card[t]>> \in issued

\* A token was issued once.
IssuedOnce == \A p, q \in issued : p[2] = q[2] => p = q

\* A card that is not its table's any more was revoked.
ReplacedAreRevoked == \A p \in issued : card[p[1]] # p[2] => p[2] \in revoked

\* What a rotation has read was a card.
RotationsReadCards ==
    \A a \in Admins : rotation[a] # NoRotation =>
        <<rotation[a].table, rotation[a].token>> \in issued

CardsInv == /\ TableCardsTypeOK
            /\ CardsAreIssued /\ IssuedOnce /\ ReplacedAreRevoked /\ RotationsReadCards

\* Initially no table has a card and none was issued.
LEMMA CardsInitially == TableCardsInit => CardsInv
<1> SUFFICES ASSUME TableCardsInit PROVE CardsInv
    OBVIOUS
<1>1. TableCardsTypeOK
  BY TableCardsAssumption DEF TableCardsInit, TableCardsTypeOK, Tokens
<1>2. CardsAreIssued /\ IssuedOnce /\ ReplacedAreRevoked
  BY DEF TableCardsInit, CardsAreIssued, IssuedOnce, ReplacedAreRevoked
<1>3. RotationsReadCards
  BY DEF TableCardsInit, RotationsReadCards
<1> QED
  BY <1>1, <1>2, <1>3 DEF CardsInv

\* A step that puts the next card on a table (for a new table, or in place of
\* one that it revokes) keeps the invariant.
LEMMA PutCardKeeps ==
    ASSUME CardsInv, NEW t \in Furniture, NEW fresh \in Tokens, PutCard(t, fresh),
           NEW gone \in {0} \cup Tokens, card[t] = gone,
           revoked' = IF gone = 0 THEN revoked ELSE revoked \cup {gone},
           inService' = inService,
           rotation' \in [Admins -> [table : Furniture, token : Tokens] \cup {NoRotation}],
           \A a \in Admins : rotation'[a] \in {rotation[a], NoRotation}
    PROVE  CardsInv'
<1> USE DEF CardsInv
<1>0. /\ card \in [Furniture -> 0..MaxTokens] /\ issued \subseteq Furniture \X Tokens
      /\ Tokens \subseteq 0..MaxTokens /\ 0 \notin Tokens
  BY TableCardsAssumption DEF TableCardsTypeOK, Tokens
<1>1. /\ card' = [card EXCEPT ![t] = fresh] /\ issued' = issued \cup {<<t, fresh>>}
      /\ \A p \in issued : p[2] # fresh
  BY DEF PutCard, FreshToken
<1>2. TableCardsTypeOK'
  <2>1. revoked' \subseteq Tokens
    BY DEF TableCardsTypeOK
  <2>2. /\ card' \in [Furniture -> 0..MaxTokens] /\ issued' \subseteq Furniture \X Tokens
    <3>1. fresh \in 0..MaxTokens /\ <<t, fresh>> \in Furniture \X Tokens
      BY <1>0
    <3> QED
      BY <1>0, <1>1, <3>1
  <2> QED
    BY <2>1, <2>2 DEF TableCardsTypeOK
<1>3. CardsAreIssued'
  BY <1>0, <1>1 DEF CardsAreIssued
<1>4. IssuedOnce'
  <2> SUFFICES ASSUME NEW p \in issued', NEW q \in issued', p[2] = q[2]
               PROVE  p = q
      BY DEF IssuedOnce
  <2> QED
    BY <1>1 DEF IssuedOnce
<1>5. ReplacedAreRevoked'
  <2> SUFFICES ASSUME NEW p \in issued', card'[p[1]] # p[2]
               PROVE  p[2] \in revoked'
      BY DEF ReplacedAreRevoked
  <2>1. p \in issued /\ p[1] \in Furniture /\ p[2] \in Tokens
    BY <1>0, <1>1
  <2>2. CASE card[p[1]] # p[2]
    BY <2>1, <2>2 DEF ReplacedAreRevoked
  <2>3. CASE card[p[1]] = p[2]
    <3>1. p[1] = t
      BY <1>0, <1>1, <2>1, <2>3
    <3> QED
      BY <1>0, <2>1, <2>3, <3>1
  <2> QED
    BY <2>2, <2>3
<1>6. RotationsReadCards'
  BY <1>1 DEF RotationsReadCards
<1> QED
  BY <1>2, <1>3, <1>4, <1>5, <1>6

\* Every step keeps the invariant.
LEMMA CardsKept == CardsInv /\ [TableCardsNext]_tableCardsVars => CardsInv'
<1> SUFFICES ASSUME CardsInv, [TableCardsNext]_tableCardsVars PROVE CardsInv'
    OBVIOUS
<1>0. /\ card \in [Furniture -> 0..MaxTokens]
      /\ rotation \in [Admins -> [table : Furniture, token : Tokens] \cup {NoRotation}]
      /\ Tokens = 1..MaxTokens /\ 0..MaxTokens = {0} \cup Tokens
  BY TableCardsAssumption DEF CardsInv, TableCardsTypeOK, Tokens
<1>1. ASSUME NEW t \in Furniture, NEW fresh \in Tokens, CreateTable(t, fresh)
      PROVE  CardsInv'
  <2>1. /\ PutCard(t, fresh) /\ card[t] = 0 /\ revoked' = revoked
        /\ inService' = inService /\ rotation' = rotation
    BY <1>1 DEF CreateTable
  <2> QED
    BY <1>0, <2>1, PutCardKeeps
<1>2. ASSUME NEW t \in Furniture, UpdateTable(t) PROVE CardsInv'
  <2>1. /\ inService' \in [Furniture -> BOOLEAN]
        /\ UNCHANGED <<card, revoked, rotation, issued>>
    BY <1>2 DEF UpdateTable, CardsInv, TableCardsTypeOK
  <2> QED
    BY <2>1 DEF CardsInv, TableCardsTypeOK, CardsAreIssued, IssuedOnce, ReplacedAreRevoked,
                RotationsReadCards
<1>3. ASSUME NEW a \in Admins, NEW t \in Furniture, BeginRotation(a, t) PROVE CardsInv'
  <2>1. /\ card[t] \in Tokens /\ <<t, card[t]>> \in issued
        /\ rotation' = [rotation EXCEPT ![a] = [table |-> t, token |-> card[t]]]
        /\ UNCHANGED <<card, inService, revoked, issued>>
    BY <1>0, <1>3 DEF BeginRotation, CardsInv, CardsAreIssued
  <2>2. TableCardsTypeOK'
    BY <1>0, <2>1 DEF CardsInv, TableCardsTypeOK
  <2>3. RotationsReadCards'
    BY <1>0, <2>1 DEF CardsInv, RotationsReadCards
  <2> QED
    BY <2>1, <2>2, <2>3 DEF CardsInv, CardsAreIssued, IssuedOnce, ReplacedAreRevoked
<1>4. ASSUME NEW a \in Admins, NEW fresh \in Tokens, RotateToken(a, fresh) PROVE CardsInv'
  <2> DEFINE t == rotation[a].table
             k == rotation[a].token
  <2>1. /\ rotation[a] # NoRotation /\ k \notin revoked /\ PutCard(t, fresh)
        /\ revoked' = revoked \cup {k} /\ inService' = inService
        /\ rotation' = [rotation EXCEPT ![a] = NoRotation]
    BY <1>4 DEF RotateToken, RevokedTwice
  <2>2. t \in Furniture /\ k \in Tokens /\ k # 0
    BY <1>0, <2>1
  \* The card that was read is still on the table: else it would be revoked.
  <2>3. card[t] = k
    <3>1. <<t, k>> \in issued
      BY <2>1 DEF CardsInv, RotationsReadCards
    <3> QED
      BY <2>1, <3>1 DEF CardsInv, ReplacedAreRevoked
  <2>4. /\ rotation' \in [Admins -> [table : Furniture, token : Tokens] \cup {NoRotation}]
        /\ \A b \in Admins : rotation'[b] \in {rotation[b], NoRotation}
    BY <1>0, <2>1
  <2> HIDE DEF t, k
  <2> QED
    BY <2>1, <2>2, <2>3, <2>4, PutCardKeeps
<1>5. ASSUME NEW a \in Admins, FailRotation(a) PROVE CardsInv'
  <2>1. /\ rotation' = [rotation EXCEPT ![a] = NoRotation]
        /\ UNCHANGED <<card, inService, revoked, issued>>
    BY <1>5 DEF FailRotation
  <2>2. /\ rotation' \in [Admins -> [table : Furniture, token : Tokens] \cup {NoRotation}]
        /\ \A b \in Admins : rotation'[b] \in {rotation[b], NoRotation}
    BY <1>0, <2>1
  <2> QED
    BY <2>1, <2>2 DEF CardsInv, TableCardsTypeOK, CardsAreIssued, IssuedOnce, ReplacedAreRevoked,
                      RotationsReadCards
<1>6. CASE UNCHANGED tableCardsVars
  BY <1>6 DEF tableCardsVars, CardsInv, TableCardsTypeOK, CardsAreIssued, IssuedOnce,
              ReplacedAreRevoked, RotationsReadCards
<1> QED
  BY <1>1, <1>2, <1>3, <1>4, <1>5, <1>6 DEF TableCardsNext

\* The invariant says what every card leads to.
LEMMA CardsInvMeans == CardsInv => NoCardIsForgotten
<1> SUFFICES ASSUME CardsInv, NEW p \in issued
             PROVE  IF card[p[1]] = p[2] THEN inService[p[1]] => Resolve(p[2]) = [table |-> p[1]]
                                         ELSE Resolve(p[2]) = [error |-> "qr_revoked"]
    BY DEF NoCardIsForgotten
<1>1. p = <<p[1], p[2]>> /\ p[1] \in Furniture /\ p[2] \in Tokens /\ p[2] # 0
  BY TableCardsAssumption DEF CardsInv, TableCardsTypeOK, Tokens
<1>2. Current(p[2]) \subseteq {p[1]}
  <2> SUFFICES ASSUME NEW t \in Furniture, card[t] = p[2] PROVE t = p[1]
      BY DEF Current
  <2>1. <<t, p[2]>> \in issued
    BY <1>1 DEF CardsInv, CardsAreIssued
  <2>2. <<t, p[2]>> = p
    BY <2>1 DEF CardsInv, IssuedOnce
  <2> QED
    BY <1>1, <2>2
<1>3. CASE card[p[1]] = p[2]
  <2>1. Current(p[2]) = {p[1]}
    BY <1>1, <1>2, <1>3 DEF Current
  <2>2. (CHOOSE t \in Current(p[2]) : TRUE) = p[1]
    BY <2>1
  <2> QED
    BY <1>3, <2>1, <2>2 DEF Resolve
<1>4. CASE card[p[1]] # p[2]
  <2>1. Current(p[2]) = {}
    BY <1>2, <1>4 DEF Current
  <2>2. p[2] \in revoked
    BY <1>4 DEF CardsInv, ReplacedAreRevoked
  <2> QED
    BY <1>4, <2>1, <2>2 DEF Resolve
<1> QED
  BY <1>3, <1>4

\* Every card that was ever issued leads to its table or says that it was
\* replaced (tables.service.ts, public.module.ts), whoever replaced it when.
THEOREM NoCardIsForgottenAlways == TableCardsSpec => []NoCardIsForgotten
<1>1. TableCardsSpec => []CardsInv
  BY CardsInitially, CardsKept, PTL DEF TableCardsSpec
<1> QED
  BY <1>1, CardsInvMeans, PTL

-----------------------------------------------------------------------------
(***************************************************************************)
(* Proofs about Acquisition, for any restaurants, arrivals and sources.    *)
(***************************************************************************)

\* The sources and channels of an arrival make a touch.
LEMMA ClassifyType == \A a \in Arrivals : Classify(a) \in Touch
<1> SUFFICES ASSUME NEW a \in Arrivals PROVE Classify(a) \in Touch
  OBVIOUS
<1>1. a \in Arrival
  BY AcquisitionAssumption
<1>2. /\ a.medium \in MediumChannels \cup {None} /\ a.click \in ClickChannels \cup {None}
      /\ a.source \in Sources \cup {None}
  BY <1>1 DEF Arrival
<1>3. ReferrerChannel(a.referrer) \in Channels
  BY DEF ReferrerChannel, Channels
<1>4. MediumChannels \subseteq Channels /\ ClickChannels \subseteq Channels
      /\ "organic_social" \in Channels /\ "other" \in Channels
  BY DEF MediumChannels, ClickChannels, Channels
<1> DEFINE channel == IF a.medium # None THEN a.medium
                      ELSE IF a.click # None THEN a.click
                      ELSE IF a.fbclid THEN "organic_social"
                      ELSE IF a.utm THEN "other" ELSE ReferrerChannel(a.referrer)
<1>5. channel \in Channels
  BY <1>2, <1>3, <1>4
<1>6. Classify(a) = [channel |-> channel, source |-> a.source]
  BY DEF Classify
<1> HIDE DEF channel
<1> QED
  BY <1>2, <1>5, <1>6 DEF Touch

\* What the server reads from two cookies is a row of attribution.
LEMMA ReadOriginType ==
    ASSUME NEW first \in Touch \cup {None}, NEW last \in Touch \cup {None}
    PROVE  ReadOrigin(first, last) \in AttributionRow
<1>1. Unknown \in Touch
  BY DEF Unknown, Touch, Channels
<1> DEFINE f == IF first # None THEN first ELSE IF last # None THEN last ELSE Unknown
           l == IF last # None THEN last ELSE IF first # None THEN first ELSE Unknown
<1>2. f \in Touch /\ l \in Touch
  BY <1>1
<1>3. ReadOrigin(first, last) = [first |-> f, last |-> l]
  BY DEF ReadOrigin
<1> HIDE DEF f, l
<1> QED
  BY <1>2, <1>3 DEF AttributionRow

\* Every step keeps the types.
LEMMA AcquisitionKept ==
    AcquisitionTypeOK /\ [AcquisitionNext]_acquisitionVars => AcquisitionTypeOK'
<1> SUFFICES ASSUME AcquisitionTypeOK, [AcquisitionNext]_acquisitionVars PROVE AcquisitionTypeOK'
  OBVIOUS
<1>1. /\ firstTouch \in [Tenants -> Touch \cup {None}] /\ lastTouch \in [Tenants -> Touch \cup {None}]
      /\ attribution \in [Tenants -> AttributionRow \cup {None}]
      /\ signup \in [Tenants -> {"none", "account", "attributed", "done"}]
      /\ milestones \subseteq MilestoneRow /\ spendings \in Seq(AdSpend)
  BY DEF AcquisitionTypeOK
<1>2. ASSUME NEW t \in Tenants, NEW a \in Arrivals, Capture(t, a)
      PROVE  AcquisitionTypeOK'
  <2> DEFINE touch == Classify(a)
  <2>1. touch \in Touch
    BY ClassifyType
  <2>2. /\ firstTouch' = [firstTouch EXCEPT ![t] = IF @ = None THEN touch ELSE @]
        /\ lastTouch' = [lastTouch EXCEPT ![t] = IF ReplacesLastTouch(touch) THEN touch ELSE @]
        /\ UNCHANGED <<signup, attribution, milestones, spendings>>
    BY <1>2 DEF Capture
  <2> HIDE DEF touch
  <2>3. firstTouch' \in [Tenants -> Touch \cup {None}] /\ lastTouch' \in [Tenants -> Touch \cup {None}]
    BY <1>1, <2>1, <2>2
  <2> QED
    BY <1>1, <2>2, <2>3 DEF AcquisitionTypeOK
<1>3. ASSUME NEW t \in Tenants, Outlive(t) \/ Esquecer(t)
      PROVE  AcquisitionTypeOK'
  BY <1>1, <1>3 DEF Outlive, Esquecer, AcquisitionTypeOK
<1>4. ASSUME NEW t \in Tenants, CreateAccount(t) \/ GiveUpRecording(t)
      PROVE  AcquisitionTypeOK'
  BY <1>1, <1>4 DEF CreateAccount, GiveUpRecording, cookies, AcquisitionTypeOK
<1>5. ASSUME NEW t \in Tenants, RecordAttribution(t)
      PROVE  AcquisitionTypeOK'
  <2>1. Origin(t) \in AttributionRow
    BY <1>1, ReadOriginType DEF Origin
  <2>2. ASSUME attribution[t] # None
        PROVE  [attribution[t] EXCEPT !.last = Origin(t).last] \in AttributionRow
    <3>1. attribution[t] \in AttributionRow
      BY <1>1, <2>2
    <3> QED
      BY <2>1, <3>1 DEF AttributionRow
  <2>3. attribution' \in [Tenants -> AttributionRow \cup {None}]
    BY <1>1, <1>5, <2>1, <2>2 DEF RecordAttribution
  <2> QED
    BY <1>1, <1>5, <2>3 DEF RecordAttribution, cookies, AcquisitionTypeOK
<1>6. ASSUME NEW t \in Tenants, NEW m \in Milestones, RecordSignup(t) \/ Mark(t, m)
      PROVE  AcquisitionTypeOK'
  <2>1. "cadastrou" \in Milestones
    BY DEF Milestones
  <2> QED
    BY <1>1, <1>6, <2>1 DEF RecordSignup, Mark, RecordMilestone, MilestoneRow, cookies, AcquisitionTypeOK
<1>7. ASSUME NEW a \in Arrivals, EnterSpending(Classify(a), 1)
      PROVE  AcquisitionTypeOK'
  <2>1. Classify(a) \in Touch
    BY ClassifyType
  <2>2. [touch |-> Classify(a), amount |-> 1] \in AdSpend
    BY <2>1 DEF AdSpend
  <2>3. spendings' \in Seq(AdSpend)
    BY <1>1, <1>7, <2>2 DEF EnterSpending
  <2> QED
    BY <1>1, <1>7, <2>3 DEF EnterSpending, cookies, AcquisitionTypeOK
<1>8. CASE UNCHANGED acquisitionVars
  BY <1>1, <1>8 DEF acquisitionVars, AcquisitionTypeOK
<1>9. "cadastrou" \in Milestones
  BY DEF Milestones
<1> QED
  BY <1>2, <1>3, <1>4, <1>5, <1>6, <1>7, <1>8, <1>9 DEF AcquisitionNext

\* Cookies, rows and milestones keep their types.
THEOREM AcquisitionTypes == AcquisitionSpec => []AcquisitionTypeOK
<1>1. AcquisitionInit => AcquisitionTypeOK
  <2> SUFFICES ASSUME AcquisitionInit PROVE AcquisitionTypeOK
    OBVIOUS
  <2>1. <<>> \in Seq(AdSpend)
    OBVIOUS
  <2> QED
    BY <2>1 DEF AcquisitionInit, AcquisitionTypeOK
<1> QED
  BY <1>1, AcquisitionKept, PTL DEF AcquisitionSpec

\* What the two cookies of one browser become in a step: another touch, or less.
LEMMA CookiesStep ==
    ASSUME AcquisitionTypeOK, [AcquisitionNext]_acquisitionVars, NEW t \in Tenants
    PROVE  \/ firstTouch'[t] = firstTouch[t] /\ lastTouch'[t] = lastTouch[t]
           \/ firstTouch'[t] = None /\ lastTouch'[t] \in {lastTouch[t], None}
           \/ firstTouch'[t] = firstTouch[t] /\ lastTouch'[t] = None
           \/ \E a \in Arrivals :
                 /\ firstTouch'[t] = IF firstTouch[t] = None THEN Classify(a) ELSE firstTouch[t]
                 /\ lastTouch'[t] = IF ReplacesLastTouch(Classify(a)) THEN Classify(a) ELSE lastTouch[t]
<1>1. firstTouch \in [Tenants -> Touch \cup {None}] /\ lastTouch \in [Tenants -> Touch \cup {None}]
  BY DEF AcquisitionTypeOK
<1>2. ASSUME NEW s \in Tenants, NEW a \in Arrivals, Capture(s, a)
      PROVE  \/ firstTouch'[t] = firstTouch[t] /\ lastTouch'[t] = lastTouch[t]
             \/ /\ firstTouch'[t] = IF firstTouch[t] = None THEN Classify(a) ELSE firstTouch[t]
                /\ lastTouch'[t] = IF ReplacesLastTouch(Classify(a)) THEN Classify(a) ELSE lastTouch[t]
  <2> DEFINE touch == Classify(a)
  <2>1. /\ firstTouch' = [firstTouch EXCEPT ![s] = IF @ = None THEN touch ELSE @]
        /\ lastTouch' = [lastTouch EXCEPT ![s] = IF ReplacesLastTouch(touch) THEN touch ELSE @]
    BY <1>2 DEF Capture
  <2> HIDE DEF touch
  <2>2. CASE s = t
    BY <1>1, <2>1, <2>2 DEF touch
  <2>3. CASE s # t
    BY <1>1, <2>1, <2>3
  <2> QED
    BY <2>2, <2>3
<1>3. ASSUME NEW s \in Tenants, Outlive(s) \/ Esquecer(s)
      PROVE  \/ firstTouch'[t] = firstTouch[t] /\ lastTouch'[t] = lastTouch[t]
             \/ firstTouch'[t] = None /\ lastTouch'[t] \in {lastTouch[t], None}
             \/ firstTouch'[t] = firstTouch[t] /\ lastTouch'[t] = None
  BY <1>1, <1>3 DEF Outlive, Esquecer
<1>4. CASE UNCHANGED cookies
  BY <1>4 DEF cookies
<1>5. ASSUME AcquisitionNext
      PROVE  \/ \E s \in Tenants, a \in Arrivals : Capture(s, a)
             \/ \E s \in Tenants : Outlive(s) \/ Esquecer(s)
             \/ UNCHANGED cookies
  BY <1>5 DEF AcquisitionNext, CreateAccount, RecordAttribution, RecordSignup, GiveUpRecording, Mark,
              EnterSpending
<1>6. CASE UNCHANGED acquisitionVars
  BY <1>6 DEF acquisitionVars, cookies
<1> QED
  BY <1>2, <1>3, <1>4, <1>5, <1>6

\* Visiting again does not forget what brought a visitor: only a cookie that is
\* lost turns the origin back to "direct".
THEOREM CampaignIsRememberedAlways == AcquisitionSpec => CampaignIsRemembered
<1>1. ASSUME AcquisitionTypeOK, [AcquisitionNext]_acquisitionVars, NEW t \in Tenants,
             Origin(t).last.channel # "direct", Origin(t)'.last.channel = "direct"
      PROVE  \/ firstTouch[t] # None /\ firstTouch'[t] = None
             \/ lastTouch[t] # None /\ lastTouch'[t] = None
  <2> DEFINE f == firstTouch[t]
             l == lastTouch[t]
             g == firstTouch'[t]
             m == lastTouch'[t]
             before == IF l # None THEN l ELSE IF f # None THEN f ELSE Unknown
             after == IF m # None THEN m ELSE IF g # None THEN g ELSE Unknown
  <2>1. before.channel # "direct" /\ after.channel = "direct" /\ Unknown.channel = "direct"
    BY <1>1 DEF Origin, ReadOrigin, Unknown
  <2>2. \/ g = f /\ m = l
        \/ g = None /\ m \in {l, None}
        \/ g = f /\ m = None
        \/ \E touch : /\ g = IF f = None THEN touch ELSE f
                      /\ m = IF touch.channel # "direct" THEN touch ELSE l
    BY <1>1, CookiesStep DEF ReplacesLastTouch
  <2> HIDE DEF f, l, g, m
  <2>3. (f # None /\ g = None) \/ (l # None /\ m = None)
    BY <2>1, <2>2
  <2> QED
    BY <2>3 DEF f, l, g, m
<1>2. ASSUME AcquisitionTypeOK, [AcquisitionNext]_acquisitionVars
      PROVE  [\A t \in Tenants :
                Origin(t).last.channel # "direct" /\ Origin(t)'.last.channel = "direct" =>
                    \/ firstTouch[t] # None /\ firstTouch'[t] = None
                    \/ lastTouch[t] # None /\ lastTouch'[t] = None]_acquisitionVars
  BY <1>1, <1>2
<1> QED
  BY <1>2, AcquisitionTypes, PTL DEF AcquisitionSpec, CampaignIsRemembered

-----------------------------------------------------------------------------
(***************************************************************************)
(* Sums over finite sets: what Total computes, for every set and every     *)
(* amount.  The library states induction with an operator as a parameter,  *)
(* which no lemma here can be given; each proof takes instead the least    *)
(* counterexample, a number or a subset that contains no other, and finds  *)
(* a lesser one.                                                           *)
(***************************************************************************)

\* A family of subsets of a finite set has one that contains no other of them.
LEMMA MinimalSubset ==
    ASSUME NEW S, IsFiniteSet(S), NEW F, F \subseteq SUBSET S, F # {}
    PROVE  \E m \in F : \A s \in F : s \subseteq m => s = m
<1>1. F \subseteq FiniteSubsetsOf(S)
  BY FS_Subset DEF FiniteSubsetsOf
<1>2. PICK m \in F : \A s \in F : ~(<<s, m>> \in StrictSubsetOrdering(S))
  BY <1>1, FS_StrictSubsetOrderingWellFounded, WFMin
<1> QED
  BY <1>2 DEF StrictSubsetOrdering

\* A set of numbers has a least one.
LEMMA LeastNumber ==
    ASSUME NEW N \in SUBSET Nat, N # {}
    PROVE  \E m \in N : \A n \in N : m <= n
<1>1. PICK m \in N : \A n \in N : ~(<<n, m>> \in OpToRel(<, Nat))
  BY NatLessThanWellFounded, WFMin
<1>2. \A n \in N : ~(n < m)
  BY <1>1 DEF OpToRel
<1> QED
  BY <1>2

\* The element that the fold takes first.
Picked(s) == CHOOSE x \in s : TRUE

\* What the sum of a set has to be, where g holds the sums of smaller ones.
NextSum(g, s, amount) == IF s = {} THEN 0 ELSE amount[Picked(s)] + g[s \ {Picked(s)}]

\* g holds the sums of all the subsets of S.
AddsUp(g, S, amount) == \A s \in SUBSET S : g[s] = NextSum(g, s, amount)

\* The first element of a set that is not empty belongs to it.
LEMMA PickedIsThere == ASSUME NEW s, s # {} PROVE Picked(s) \in s
BY DEF Picked

\* The sums of all the subsets of a finite set exist.
LEMMA SumsExist ==
    ASSUME NEW S, IsFiniteSet(S), NEW amount, \A x \in S : amount[x] \in Int
    PROVE  \E g \in [SUBSET S -> Int] : AddsUp(g, S, amount)
<1> DEFINE UpTo(g, n) == \A s \in SUBSET S : Cardinality(s) <= n => g[s] = NextSum(g, s, amount)
           SumsUpTo(n) == \E g \in [SUBSET S -> Int] : UpTo(g, n)
           Without == {n \in Nat : ~SumsUpTo(n)}
<1>1. \A s \in SUBSET S : IsFiniteSet(s) /\ Cardinality(s) \in Nat /\ Cardinality(s) <= Cardinality(S)
  BY FS_Subset, FS_CardinalityType
<1>2. \A s \in SUBSET S : s # {} =>
         /\ amount[Picked(s)] \in Int /\ s \ {Picked(s)} \in SUBSET S
         /\ Cardinality(s \ {Picked(s)}) = Cardinality(s) - 1
  BY <1>1, PickedIsThere, FS_RemoveElement
<1>3. SumsUpTo(0)
  <2> DEFINE g == [s \in SUBSET S |-> 0]
  <2>1. \A s \in SUBSET S : Cardinality(s) <= 0 => s = {}
    BY <1>1, FS_EmptySet
  <2>2. UpTo(g, 0) /\ g \in [SUBSET S -> Int]
    BY <2>1 DEF NextSum
  <2> HIDE DEF g, UpTo
  <2> QED
    BY <2>2
<1>4. ASSUME NEW n \in Nat, NEW g \in [SUBSET S -> Int], UpTo(g, n)
      PROVE  SumsUpTo(n + 1)
  <2> DEFINE h == [s \in SUBSET S |-> IF Cardinality(s) <= n THEN g[s] ELSE NextSum(g, s, amount)]
  <2>1. h \in [SUBSET S -> Int]
    <3>1. ASSUME NEW s \in SUBSET S PROVE NextSum(g, s, amount) \in Int
      <4>1. s # {} => amount[Picked(s)] \in Int /\ g[s \ {Picked(s)}] \in Int
        BY <1>2, <1>4
      <4> QED
        BY <4>1 DEF NextSum
    <3> QED
      BY <1>4, <3>1
  <2>2. \A s \in SUBSET S : h[s] = IF Cardinality(s) <= n THEN g[s] ELSE NextSum(g, s, amount)
    OBVIOUS
  <2> HIDE DEF h
  <2>3. ASSUME NEW s \in SUBSET S, Cardinality(s) <= n + 1
        PROVE  h[s] = NextSum(h, s, amount)
    <3>1. h[s] = NextSum(g, s, amount)
      BY <1>4, <2>2
    <3>2. s # {} => h[s \ {Picked(s)}] = g[s \ {Picked(s)}]
      BY <1>1, <1>2, <2>2, <2>3
    <3> QED
      BY <3>1, <3>2 DEF NextSum
  <2> QED
    BY <2>1, <2>3
<1> HIDE DEF UpTo, SumsUpTo
<1>5. Without = {}
  <2> SUFFICES ASSUME Without # {} PROVE FALSE
    OBVIOUS
  <2>1. PICK m \in Without : \A n \in Without : m <= n
    BY LeastNumber
  <2>2. m # 0 /\ m \in Nat /\ ~SumsUpTo(m)
    BY <1>3, <2>1
  <2>3. m - 1 \in Nat /\ m - 1 \notin Without /\ (m - 1) + 1 = m
    BY <2>1, <2>2
  <2>4. SumsUpTo(m - 1)
    BY <2>3
  <2>5. SumsUpTo((m - 1) + 1)
    BY <1>4, <2>3, <2>4 DEF SumsUpTo
  <2> QED
    BY <2>2, <2>3, <2>5
<1>6. PICK g \in [SUBSET S -> Int] : UpTo(g, Cardinality(S))
  BY <1>1, <1>5 DEF SumsUpTo
<1> QED
  BY <1>1, <1>6 DEF UpTo, AddsUp

\* They are the same whatever larger set they are taken in.
LEMMA SumsAgree ==
    ASSUME NEW S, IsFiniteSet(S), NEW T \in SUBSET S, NEW amount, NEW g, NEW h,
           AddsUp(g, S, amount), AddsUp(h, T, amount)
    PROVE  g[T] = h[T]
<1> DEFINE Differ == {s \in SUBSET T : g[s] # h[s]}
<1> SUFFICES ASSUME Differ # {} PROVE FALSE
  OBVIOUS
<1>1. IsFiniteSet(T)
  BY FS_Subset
<1>2. PICK m \in Differ : \A s \in Differ : s \subseteq m => s = m
  <2>1. Differ \subseteq SUBSET T
    OBVIOUS
  <2> HIDE DEF Differ
  <2> QED
    BY <1>1, <2>1, MinimalSubset
<1>3. m # {} => m \ {Picked(m)} \notin Differ
  BY <1>2, PickedIsThere
<1>4. m # {} => g[m \ {Picked(m)}] = h[m \ {Picked(m)}]
  BY <1>2, <1>3
<1> QED
  BY <1>2, <1>4 DEF AddsUp, NextSum

\* Total is a sum of integers, and satisfies the equation that it is written with.
LEMMA TotalAddsUp ==
    ASSUME NEW S, IsFiniteSet(S), NEW amount, \A x \in S : amount[x] \in Int
    PROVE  /\ Total(S, amount) \in Int
           /\ S = {} => Total(S, amount) = 0
           /\ S # {} => Total(S, amount) = amount[Picked(S)] + Total(S \ {Picked(S)}, amount)
<1> DEFINE sums(T) == CHOOSE g : g = [s \in SUBSET T |-> NextSum(g, s, amount)]
<1>1. \A T : Total(T, amount) = sums(T)[T]
  BY DEF Total, FoldFunctionOnSet, MapThenFoldSet, NextSum, Picked
<1>2. ASSUME NEW T \in SUBSET S
      PROVE  AddsUp(sums(T), T, amount) /\ sums(T) \in [SUBSET T -> Int]
  <2>1. PICK g \in [SUBSET T -> Int] : AddsUp(g, T, amount)
    BY SumsExist, FS_Subset
  <2>2. g = [s \in SUBSET T |-> NextSum(g, s, amount)]
    BY <2>1 DEF AddsUp
  <2>3. sums(T) = [s \in SUBSET T |-> NextSum(sums(T), s, amount)]
    BY <2>2
  <2> DEFINE h == sums(T)
  <2>4. h = [s \in SUBSET T |-> NextSum(h, s, amount)]
    BY <2>3
  <2> HIDE DEF h
  <2>5. AddsUp(h, T, amount)
    BY <2>4 DEF AddsUp
  <2>6. \A s \in SUBSET T : h[s] = g[s]
    <3>1. ASSUME NEW s \in SUBSET T PROVE h[s] = g[s]
      <4>1. AddsUp(g, s, amount)
        BY <2>1 DEF AddsUp
      <4> QED
        <5>1. IsFiniteSet(T)
          BY FS_Subset
        <5> QED
          BY <2>5, <4>1, <5>1, SumsAgree
    <3> QED
      BY <3>1
  <2>7. h \in [SUBSET T -> Int]
    BY <2>4, <2>6
  <2> QED
    BY <2>5, <2>7 DEF h
<1> HIDE DEF sums
<1>3. Total(S, amount) \in Int
  <2>1. sums(S) \in [SUBSET S -> Int]
    BY <1>2
  <2> QED
    BY <1>1, <2>1
<1>4. S = {} => Total(S, amount) = 0
  BY <1>1, <1>2 DEF AddsUp, NextSum
<1>5. ASSUME S # {}
      PROVE  Total(S, amount) = amount[Picked(S)] + Total(S \ {Picked(S)}, amount)
  <2> DEFINE rest == S \ {Picked(S)}
  <2>1. sums(S)[S] = amount[Picked(S)] + sums(S)[rest]
    BY <1>2, <1>5 DEF AddsUp, NextSum
  <2>2. sums(S)[rest] = sums(rest)[rest]
    <3>1. rest \in SUBSET S
      OBVIOUS
    <3>2. AddsUp(sums(S), S, amount) /\ AddsUp(sums(rest), rest, amount)
      BY <1>2, <3>1
    <3> QED
      BY <3>1, <3>2, SumsAgree
  <2> QED
    BY <1>1, <2>1, <2>2
<1> QED
  BY <1>3, <1>4, <1>5

\* Any element may be taken out first.
LEMMA TotalWithout ==
    ASSUME NEW S, IsFiniteSet(S), NEW amount, \A x \in S : amount[x] \in Int, NEW y \in S
    PROVE  Total(S, amount) = amount[y] + Total(S \ {y}, amount)
<1> DEFINE Wrong == {s \in SUBSET S : \E x \in s : Total(s, amount) # amount[x] + Total(s \ {x}, amount)}
<1> SUFFICES ASSUME Wrong # {} PROVE FALSE
  OBVIOUS
<1>1. PICK m \in Wrong : \A s \in Wrong : s \subseteq m => s = m
  <2>1. Wrong \subseteq SUBSET S
    OBVIOUS
  <2> HIDE DEF Wrong
  <2> QED
    BY <2>1, MinimalSubset
<1>2. PICK x \in m : Total(m, amount) # amount[x] + Total(m \ {x}, amount)
  BY <1>1
<1> DEFINE p == Picked(m)
           both == m \ {x, p}
<1>3. p \in m /\ IsFiniteSet(m) /\ IsFiniteSet(both)
  BY <1>1, <1>2, PickedIsThere, FS_Subset
<1>4. /\ amount[p] \in Int /\ amount[x] \in Int /\ Total(both, amount) \in Int
      /\ Total(m, amount) = amount[p] + Total(m \ {p}, amount)
  BY <1>1, <1>2, <1>3, TotalAddsUp
<1>5. p # x
  BY <1>2, <1>4
<1>6. m \ {p} \notin Wrong /\ m \ {x} \notin Wrong
  BY <1>1, <1>2, <1>3
<1>7. (m \ {p}) \ {x} = both /\ (m \ {x}) \ {p} = both
  OBVIOUS
<1>8. x \in m \ {p} /\ p \in m \ {x} /\ m \ {p} \in SUBSET S /\ m \ {x} \in SUBSET S
  BY <1>1, <1>2, <1>3, <1>5
<1> HIDE DEF p, both
<1>9. /\ Total(m \ {p}, amount) = amount[x] + Total(both, amount)
      /\ Total(m \ {x}, amount) = amount[p] + Total(both, amount)
  BY <1>6, <1>7, <1>8
<1> QED
  BY <1>2, <1>4, <1>9

\* What the elements count is all that matters.
LEMMA TotalSame ==
    ASSUME NEW S, IsFiniteSet(S), NEW f, NEW g, \A x \in S : f[x] \in Int /\ g[x] = f[x]
    PROVE  Total(S, g) = Total(S, f)
<1> DEFINE Differ == {s \in SUBSET S : Total(s, g) # Total(s, f)}
<1> SUFFICES ASSUME Differ # {} PROVE FALSE
  OBVIOUS
<1>1. PICK m \in Differ : \A s \in Differ : s \subseteq m => s = m
  <2>1. Differ \subseteq SUBSET S
    OBVIOUS
  <2> HIDE DEF Differ
  <2> QED
    BY <2>1, MinimalSubset
<1>2. IsFiniteSet(m)
  BY <1>1, FS_Subset
<1>3. /\ m = {} => Total(m, g) = 0 /\ Total(m, f) = 0
      /\ m # {} => /\ Total(m, g) = g[Picked(m)] + Total(m \ {Picked(m)}, g)
                   /\ Total(m, f) = f[Picked(m)] + Total(m \ {Picked(m)}, f)
  BY <1>1, <1>2, TotalAddsUp
<1>4. m # {} => Picked(m) \in S /\ m \ {Picked(m)} \notin Differ
  BY <1>1, PickedIsThere
<1> QED
  BY <1>1, <1>3, <1>4

\* As many as there are: what counts for one, and what counts for nothing.
LEMMA TotalOfOnes ==
    ASSUME NEW S, IsFiniteSet(S), NEW n \in {0, 1}, NEW f, \A x \in S : f[x] = n
    PROVE  Total(S, f) = n * Cardinality(S)
<1> DEFINE Wrong == {s \in SUBSET S : Total(s, f) # n * Cardinality(s)}
<1> SUFFICES ASSUME Wrong # {} PROVE FALSE
  OBVIOUS
<1>1. PICK m \in Wrong : \A s \in Wrong : s \subseteq m => s = m
  <2>1. Wrong \subseteq SUBSET S
    OBVIOUS
  <2> HIDE DEF Wrong
  <2> QED
    BY <2>1, MinimalSubset
<1>2. IsFiniteSet(m) /\ Cardinality(m) \in Nat
  BY <1>1, FS_Subset, FS_CardinalityType
<1>3. /\ m = {} => Total(m, f) = 0 /\ Cardinality(m) = 0
      /\ m # {} => Total(m, f) = f[Picked(m)] + Total(m \ {Picked(m)}, f)
  <2>1. \A x \in m : f[x] \in Int
    BY <1>1
  <2> QED
    BY <1>2, <2>1, TotalAddsUp, FS_EmptySet
<1>4. m # {} => /\ f[Picked(m)] = n /\ m \ {Picked(m)} \notin Wrong
                /\ Cardinality(m \ {Picked(m)}) = Cardinality(m) - 1
  BY <1>1, <1>2, PickedIsThere, FS_RemoveElement
<1>5. m # {} => Total(m \ {Picked(m)}, f) = n * Cardinality(m \ {Picked(m)})
  BY <1>1, <1>4
<1> QED
  BY <1>1, <1>2, <1>3, <1>4, <1>5

\* One element that counts for more or less changes the sum by as much.
LEMMA TotalChanges ==
    ASSUME NEW S, IsFiniteSet(S), NEW f, NEW g, NEW y \in S,
           \A x \in S : f[x] \in Int /\ g[x] \in Int,
           \A x \in S \ {y} : g[x] = f[x]
    PROVE  Total(S, g) = Total(S, f) + (g[y] - f[y])
<1>1. IsFiniteSet(S \ {y})
  BY FS_RemoveElement
<1>2. Total(S, f) = f[y] + Total(S \ {y}, f) /\ Total(S, g) = g[y] + Total(S \ {y}, g)
  BY TotalWithout
<1>3. Total(S \ {y}, g) = Total(S \ {y}, f)
  BY <1>1, TotalSame
<1>4. Total(S \ {y}, f) \in Int
  BY <1>1, TotalAddsUp
<1> QED
  BY <1>2, <1>3, <1>4

\* The elements of S that belong to group k.
Group(S, group, k) == {x \in S : group[x] = k}

\* The sums of the groups of a partition add up to the sum of all.
LEMMA TotalOfGroups ==
    ASSUME NEW S, IsFiniteSet(S), NEW K, IsFiniteSet(K), NEW group, \A x \in S : group[x] \in K,
           NEW f, \A x \in S : f[x] \in Int,
           NEW g, \A k \in K : g[k] = Total(Group(S, group, k), f)
    PROVE  Total(K, g) = Total(S, f)
<1> DEFINE of(s, k) == Group(s, group, k)
           sums(s) == [k \in K |-> Total(of(s, k), f)]
           Wrong == {s \in SUBSET S : Total(K, sums(s)) # Total(s, f)}
<1>1. \A s \in SUBSET S, k \in K : IsFiniteSet(of(s, k)) /\ Total(of(s, k), f) \in Int
  <2> SUFFICES ASSUME NEW s \in SUBSET S, NEW k \in K
               PROVE  IsFiniteSet(of(s, k)) /\ Total(of(s, k), f) \in Int
    OBVIOUS
  <2>1. of(s, k) \in SUBSET S
    BY DEF Group
  <2>2. IsFiniteSet(of(s, k))
    BY <2>1, FS_Subset
  <2> QED
    BY <2>1, <2>2, TotalAddsUp
<1>2. Total(K, g) = Total(K, sums(S))
  BY <1>1, TotalSame
<1>3. ASSUME Wrong # {} PROVE FALSE
  <2>1. PICK m \in Wrong : \A s \in Wrong : s \subseteq m => s = m
    <3>1. Wrong \subseteq SUBSET S
      OBVIOUS
    <3> HIDE DEF Wrong
    <3> QED
      BY <1>3, <3>1, MinimalSubset
  <2>2. m \in SUBSET S /\ IsFiniteSet(m) /\ Total(K, sums(m)) # Total(m, f)
    BY <2>1, FS_Subset
  <2>3. CASE m = {}
    <3>1. of(m, 0) = {} /\ \A k \in K : of(m, k) = {}
      BY <2>3 DEF Group
    <3>2. Total({}, f) = 0
      BY FS_EmptySet, TotalAddsUp
    <3>3. \A k \in K : sums(m)[k] = 0
      BY <3>1, <3>2
    <3>4. Total(K, sums(m)) = 0 * Cardinality(K)
      BY <3>3, TotalOfOnes
    <3> QED
      BY <2>2, <2>3, <3>2, <3>4, FS_CardinalityType
  <2>4. CASE m # {}
    <3> DEFINE x == Picked(m)
               rest == m \ {x}
               k0 == group[x]
    <3>1. x \in m /\ x \in S /\ k0 \in K /\ rest \in SUBSET S /\ rest \notin Wrong
      BY <2>1, <2>2, <2>4, PickedIsThere
    <3>2. Total(m, f) = f[x] + Total(rest, f) /\ f[x] \in Int
      BY <2>2, <2>4, <3>1, TotalAddsUp
    <3>3. Total(K, sums(rest)) = Total(rest, f)
      BY <3>1
    <3>4. \A k \in K : k # k0 => of(m, k) = of(rest, k)
      BY DEF Group
    <3>5. of(rest, k0) = of(m, k0) \ {x} /\ x \in of(m, k0)
      BY <3>1 DEF Group
    <3>6. \A y \in of(m, k0) : f[y] \in Int
      BY <2>2 DEF Group
    <3>7. IsFiniteSet(of(m, k0))
      BY <1>1, <2>2, <3>1
    <3> HIDE DEF x, rest, k0, of
    <3>8. Total(of(m, k0), f) = f[x] + Total(of(rest, k0), f)
      BY <3>5, <3>6, <3>7, TotalWithout
    <3>9. \A k \in K : sums(rest)[k] \in Int /\ sums(m)[k] \in Int
      BY <1>1, <2>2, <3>1
    <3>10. /\ \A k \in K \ {k0} : sums(m)[k] = sums(rest)[k]
           /\ sums(m)[k0] = f[x] + sums(rest)[k0]
      BY <3>1, <3>4, <3>8
    <3>11. Total(K, sums(m)) = Total(K, sums(rest)) + (sums(m)[k0] - sums(rest)[k0])
      BY <3>1, <3>9, <3>10, TotalChanges
    <3>12. sums(rest)[k0] \in Int /\ Total(K, sums(rest)) \in Int
      BY <3>1, <3>9, TotalAddsUp
    <3> HIDE DEF sums
    <3> QED
      BY <2>2, <3>2, <3>3, <3>10, <3>11, <3>12
  <2> QED
    BY <2>3, <2>4
<1> QED
  BY <1>2, <1>3

-----------------------------------------------------------------------------
(***************************************************************************)
(* The report loses nothing: its lines are the groups of a partition, both *)
(* of the restaurants and of the spendings, under one set of keys.         *)
(***************************************************************************)

\* Restaurants of which it is known where they came from: one more at a time.
Attributed == {t \in Tenants : attribution[t] # None}

\* They are finitely many, though nothing bounds the restaurants that there may be.
AcquisitionInv == AcquisitionTypeOK /\ IsFiniteSet(Attributed)

\* Only an account that has just been opened is written a row of attribution.
LEMMA AcquisitionInvAlways == AcquisitionSpec => []AcquisitionInv
<1>1. AcquisitionInit => AcquisitionInv
  <2> SUFFICES ASSUME AcquisitionInit PROVE AcquisitionInv
    OBVIOUS
  <2>1. Attributed = {}
    BY DEF AcquisitionInit, Attributed
  <2>2. <<>> \in Seq(AdSpend)
    OBVIOUS
  <2> QED
    BY <2>1, <2>2, FS_EmptySet DEF AcquisitionInit, AcquisitionTypeOK, AcquisitionInv
<1>2. ASSUME AcquisitionInv, [AcquisitionNext]_acquisitionVars
      PROVE  AcquisitionInv'
  <2>1. AcquisitionTypeOK'
    BY <1>2, AcquisitionKept DEF AcquisitionInv
  <2>2. attribution \in [Tenants -> AttributionRow \cup {None}]
    BY <1>2 DEF AcquisitionInv, AcquisitionTypeOK
  <2>3. \/ attribution' = attribution
        \/ \E t \in Tenants : \E row : attribution' = [attribution EXCEPT ![t] = row]
    BY <1>2 DEF AcquisitionNext, acquisitionVars, Capture, Outlive, Esquecer, CreateAccount,
                RecordAttribution, RecordSignup, GiveUpRecording, Mark, EnterSpending
  <2>4. \E t : Attributed' \subseteq Attributed \cup {t}
    BY <2>2, <2>3 DEF Attributed
  <2>5. IsFiniteSet(Attributed')
    BY <1>2, <2>4, FS_AddElement, FS_Subset DEF AcquisitionInv
  <2> QED
    BY <2>1, <2>5 DEF AcquisitionInv
<1> QED
  BY <1>1, <1>2, PTL DEF AcquisitionSpec

\* The values that a function takes on a finite set are finitely many.
LEMMA ValuesAreFinite ==
    ASSUME NEW S, IsFiniteSet(S), NEW f
    PROVE  IsFiniteSet({f[x] : x \in S})
<1> DEFINE T == {f[x] : x \in S}
           h == [x \in S |-> f[x]]
<1>1. h \in Surjection(S, T)
  BY DEF Surjection
<1> HIDE DEF h
<1> QED
  BY <1>1, FS_Surjection

\* How many there are in the groups of a partition.
LEMMA GroupsAreCounted ==
    ASSUME NEW S, IsFiniteSet(S), NEW K, IsFiniteSet(K), NEW group, \A x \in S : group[x] \in K,
           NEW g, \A k \in K : g[k] = Cardinality(Group(S, group, k))
    PROVE  Total(K, g) = Cardinality(S)
<1> DEFINE one == [x \in S |-> 1]
<1>1. Total(S, one) = 1 * Cardinality(S)
  BY TotalOfOnes
<1>2. ASSUME NEW k \in K
      PROVE  g[k] = Total(Group(S, group, k), one)
  <2> DEFINE cell == Group(S, group, k)
  <2>1. IsFiniteSet(cell) /\ Cardinality(cell) \in Nat
    BY FS_Subset, FS_CardinalityType DEF Group
  <2>2. \A x \in cell : one[x] = 1
    BY DEF Group
  <2> HIDE DEF cell, one
  <2>3. Total(cell, one) = 1 * Cardinality(cell)
    BY <2>1, <2>2, TotalOfOnes
  <2> QED
    BY <2>1, <2>3 DEF cell
<1>3. \A x \in S : one[x] \in Int
  OBVIOUS
<1>4. Cardinality(S) \in Nat
  BY FS_CardinalityType
<1> HIDE DEF one
<1>5. Total(K, g) = Total(S, one)
  BY <1>2, <1>3, TotalOfGroups
<1> QED
  BY <1>1, <1>4, <1>5

\* The columns of the report add up to all the restaurants whose origin is known,
\* to all of those that paid, and to all that was spent, whatever it is grouped
\* by; and a line has a cost for each client only where it has clients.
THEOREM ReportIsComplete == AcquisitionSpec => []ReportLosesNothing
<1>1. ASSUME AcquisitionInv, NEW model \in {"first", "last"}, NEW groupBy \in {"channel", "source"}
      PROVE  LET rows == Report(model, groupBy)
                 Column(f) == Total(DOMAIN rows, [k \in DOMAIN rows |-> rows[k][f]]) IN
             /\ Column("signups") = Cardinality({t \in Tenants : attribution[t] # None})
             /\ Column("payers") = Cardinality({t \in Reached("pagou") : attribution[t] # None})
             /\ Column("spent") = Total(DOMAIN spendings, [i \in DOMAIN spendings |-> spendings[i].amount])
             /\ \A k \in DOMAIN rows : rows[k].cac # None => rows[k].payers > 0
  <2> DEFINE tenantKey == [t \in Tenants |-> ReportKey(TouchOf(t, model), groupBy)]
             spendingKey == [i \in DOMAIN spendings |-> ReportKey(spendings[i].touch, groupBy)]
             amount == [i \in DOMAIN spendings |-> spendings[i].amount]
             members(k) == Group(Attributed, tenantKey, k)
             paying(k) == Group(Attributed \cap Reached("pagou"), tenantKey, k)
             bills(k) == Group(DOMAIN spendings, spendingKey, k)
             keys == {tenantKey[t] : t \in Attributed} \cup {spendingKey[i] : i \in DOMAIN spendings}
             rows == Report(model, groupBy)
             Column(f) == Total(keys, [k \in keys |-> rows[k][f]])
  <2>1. /\ DOMAIN rows = keys
        /\ \A k \in keys : /\ rows[k].signups = Cardinality(members(k))
                           /\ rows[k].payers = Cardinality(members(k) \cap Reached("pagou"))
                           /\ rows[k].spent = Total(bills(k), amount)
                           /\ rows[k].cac = IF rows[k].spent > 0
                                            THEN Divide(rows[k].spent, rows[k].payers) ELSE None
    BY DEF Report, Attributed, Group
  <2>2. \A k \in keys : members(k) \cap Reached("pagou") = paying(k)
    BY DEF Group
  <2>3. IsFiniteSet(Attributed) /\ IsFiniteSet(Attributed \cap Reached("pagou"))
    BY <1>1, FS_Intersection DEF AcquisitionInv
  <2>4. IsFiniteSet(DOMAIN spendings) /\ \A i \in DOMAIN spendings : amount[i] \in Int
    <3>1. spendings \in Seq(AdSpend)
      BY <1>1 DEF AcquisitionInv, AcquisitionTypeOK
    <3>2. DOMAIN spendings = 1..Len(spendings) /\ Len(spendings) \in Nat
      BY <3>1
    <3>3. ASSUME NEW i \in DOMAIN spendings PROVE spendings[i].amount \in Nat
      <4>1. spendings[i] \in AdSpend
        BY <3>1
      <4> QED
        BY <4>1 DEF AdSpend
    <3>4. IsFiniteSet(1..Len(spendings))
      BY <3>2, FS_Interval
    <3> QED
      BY <3>2, <3>3, <3>4
  <2>5. IsFiniteSet(keys)
    <3> DEFINE A == {tenantKey[t] : t \in Attributed}
               B == {spendingKey[i] : i \in DOMAIN spendings}
    <3> HIDE DEF tenantKey, spendingKey
    <3>1. IsFiniteSet(A) /\ IsFiniteSet(B)
      BY <2>3, <2>4, ValuesAreFinite
    <3> HIDE DEF A, B
    <3>2. IsFiniteSet(A \cup B)
      BY <3>1, FS_Union
    <3> QED
      BY <3>2 DEF A, B
  <2>6. /\ \A t \in Attributed : tenantKey[t] \in keys
        /\ \A i \in DOMAIN spendings : spendingKey[i] \in keys
    OBVIOUS
  <2> HIDE DEF rows, keys, tenantKey, spendingKey, amount
  <2>7. Column("signups") = Cardinality(Attributed)
    <3> DEFINE column == [k \in keys |-> rows[k].signups]
    <3>1. \A k \in keys : column[k] = Cardinality(Group(Attributed, tenantKey, k))
      BY <2>1
    <3> HIDE DEF column
    <3>2. Total(keys, column) = Cardinality(Attributed)
      BY <2>3, <2>5, <2>6, <3>1, GroupsAreCounted
    <3> QED
      BY <3>2 DEF column
  <2>8. Column("payers") = Cardinality(Attributed \cap Reached("pagou"))
    <3> DEFINE column == [k \in keys |-> rows[k].payers]
    <3>1. \A k \in keys : column[k] = Cardinality(Group(Attributed \cap Reached("pagou"), tenantKey, k))
      BY <2>1, <2>2
    <3> HIDE DEF column
    <3>2. Total(keys, column) = Cardinality(Attributed \cap Reached("pagou"))
      <4> DEFINE payers == Attributed \cap Reached("pagou")
      <4>1. IsFiniteSet(payers) /\ \A t \in payers : tenantKey[t] \in keys
        BY <2>3, <2>6
      <4>2. \A k \in keys : column[k] = Cardinality(Group(payers, tenantKey, k))
        BY <3>1
      <4> HIDE DEF payers
      <4>3. Total(keys, column) = Cardinality(payers)
        BY <2>5, <4>1, <4>2, GroupsAreCounted
      <4> QED
        BY <4>3 DEF payers
    <3> QED
      BY <3>2 DEF column
  <2>9. Column("spent") = Total(DOMAIN spendings, amount)
    <3> DEFINE column == [k \in keys |-> rows[k].spent]
    <3>1. \A k \in keys : column[k] = Total(Group(DOMAIN spendings, spendingKey, k), amount)
      BY <2>1
    <3> HIDE DEF column
    <3>2. Total(keys, column) = Total(DOMAIN spendings, amount)
      BY <2>4, <2>5, <2>6, <3>1, TotalOfGroups
    <3> QED
      BY <3>2 DEF column
  <2>10. \A k \in keys : rows[k].cac # None => rows[k].payers > 0
    BY <2>1 DEF Divide
  <2>11. {t \in Reached("pagou") : attribution[t] # None} = Attributed \cap Reached("pagou")
    BY DEF Attributed, Reached
  <2> QED
    BY <2>1, <2>7, <2>8, <2>9, <2>10, <2>11 DEF rows, amount, Attributed
<1>2. AcquisitionInv => ReportLosesNothing
  BY <1>1 DEF ReportLosesNothing
<1> QED
  BY <1>2, AcquisitionInvAlways, PTL

-----------------------------------------------------------------------------
(***************************************************************************)
(* The parts in one run: they share no state, and each moves by itself.    *)
(***************************************************************************)

\* A step of the run is a step of each of its parts, or leaves that part alone.
LEMMA StepsOfParts ==
    ASSUME [SupportingNext]_supportingVars
    PROVE  /\ [StaffAccountsNext]_staffAccountsVars /\ [MembersNext]_membersVars
           /\ [CampaignLinksNext]_campaignLinksVars /\ [AcquisitionNext]_acquisitionVars
           /\ [TableAccessNext]_tableAccessVars /\ [SlidingWindowNext]_slidingWindowVars
           /\ [TableCardsNext]_tableCardsVars /\ [StaffPresenceNext]_staffPresenceVars
           /\ [CartOrdersNext]_cartOrdersVars /\ [StaffPanelNext]_staffPanelVars
<1>1. UNCHANGED supportingVars => UNCHANGED <<staffAccountsVars, membersVars, campaignLinksVars,
          acquisitionVars, tableAccessVars, slidingWindowVars, tableCardsVars, staffPresenceVars,
          cartOrdersVars, staffPanelVars>>
  BY DEF supportingVars
<1>2. TeamsNext => MembersNext
  BY DEF TeamsNext
<1>3. PanelNext => StaffPanelNext
  BY DEF PanelNext
<1>4. CartNext => CartOrdersNext
  BY DEF CartNext, Service, CatalogueNext, CartOrdersNext
<1>5. AccountsNext => StaffAccountsNext
  BY DEF AccountsNext
<1> QED
  BY <1>1, <1>2, <1>3, <1>4, <1>5 DEF SupportingNext

\* A behaviour of the run is a behaviour of each of its parts, so that whatever
\* is proved of a part holds in the run: the bounds that the run puts on its
\* states restrict the steps of a part and add none.
THEOREM RunIsOfItsParts ==
    SupportingSpec =>
        /\ StaffAccountsSpec /\ MembersSpec /\ CampaignLinksSpec /\ AcquisitionSpec /\ TableAccessSpec
        /\ SlidingWindowSpec /\ TableCardsSpec /\ StaffPresenceSpec /\ CatalogueSpec /\ CartOrdersSpec
        /\ StaffPanelSpec
<1>1. SupportingInit =>
        /\ StaffAccountsInit /\ MembersInit /\ CampaignLinksInit /\ AcquisitionInit /\ TableAccessInit
        /\ SlidingWindowInit /\ TableCardsInit /\ StaffPresenceInit /\ CatalogueInit /\ CartOrdersInit
        /\ StaffPanelInit
  BY DEF SupportingInit, CartOrdersInit
<1>2. [CartOrdersNext]_cartOrdersVars => [CatalogueNext]_catalogueVars
  BY CatalogueInCart DEF cartOrdersVars
<1> QED
  BY <1>1, <1>2, StepsOfParts, PTL
     DEF SupportingSpec, StaffAccountsSpec, MembersSpec, CampaignLinksSpec, AcquisitionSpec, TableAccessSpec,
         SlidingWindowSpec, TableCardsSpec, StaffPresenceSpec, CatalogueSpec, CartOrdersSpec, StaffPanelSpec

\* The type invariants that are conjuncts of an inductive invariant.
LEMMA TypesOfParts ==
    /\ StaffAccountsSpec => []StaffAccountsTypeOK
    /\ MembersSpec => []MembersTypeOK
    /\ CampaignLinksSpec => []CampaignLinksTypeOK
    /\ TableAccessSpec => []TableAccessTypeOK
    /\ SlidingWindowSpec => []SlidingWindowTypeOK
    /\ TableCardsSpec => []TableCardsTypeOK
    /\ CatalogueSpec => []CatalogueTypeOK
<1>1. AccountsInv => StaffAccountsTypeOK
  BY DEF AccountsInv
<1>2. MembersInv => MembersTypeOK
  BY DEF MembersInv, MembersRows, MembersTypeOK
<1>3. LinksInv => CampaignLinksTypeOK
  BY DEF LinksInv
<1>4. AccessInv => TableAccessTypeOK
  BY DEF AccessInv
<1>5. WindowInv => SlidingWindowTypeOK
  BY DEF WindowInv
<1>6. CardsInv => TableCardsTypeOK
  BY DEF CardsInv
<1>7. RowsOK => CatalogueTypeOK
  BY DEF RowsOK
<1>8. StaffAccountsSpec => []StaffAccountsTypeOK
  BY <1>1, AccountsInvariant, PTL
<1>9. MembersSpec => []MembersTypeOK
  BY <1>2, MembersInitially, MembersKept, PTL DEF MembersSpec
<1>10. CampaignLinksSpec => []CampaignLinksTypeOK
  BY <1>3, LinksInitially, LinksKept, PTL DEF CampaignLinksSpec
<1>11. TableAccessSpec => []TableAccessTypeOK
  BY <1>4, AccessInvariant, PTL
<1>12. SlidingWindowSpec => []SlidingWindowTypeOK
  BY <1>5, WindowInitially, WindowKept, PTL DEF SlidingWindowSpec
<1>13. TableCardsSpec => []TableCardsTypeOK
  BY <1>6, CardsInitially, CardsKept, PTL DEF TableCardsSpec
<1>14. CatalogueSpec => []CatalogueTypeOK
  BY <1>7, CatalogueInitially, CatalogueKept, PTL DEF CatalogueSpec
<1> QED
  BY <1>8, <1>9, <1>10, <1>11, <1>12, <1>13, <1>14

\* Whatever part a behaviour is of, every row and every answer under way keeps
\* its type, and no cart or order holds more of a product than the server accepts.
THEOREM SupportingTypesAlwaysOK == SupportingSpec => []SupportingTypesOK
<1> DEFINE Chosen == chosen \in {"accounts", "members", "links", "acquisition", "access",
                                 "window", "cards", "presence", "cart", "panel"}
           AllTypes == /\ StaffAccountsTypeOK /\ MembersTypeOK /\ CampaignLinksTypeOK /\ AcquisitionTypeOK
                       /\ TableAccessTypeOK /\ SlidingWindowTypeOK /\ TableCardsTypeOK /\ StaffPresenceTypeOK
                       /\ CatalogueTypeOK /\ CartOrdersTypeOK /\ StaffPanelTypeOK
<1>1. SupportingInit => Chosen
  BY DEF SupportingInit
<1>2. Chosen /\ [SupportingNext]_supportingVars => Chosen'
  BY DEF SupportingNext, supportingVars
<1>3. SupportingSpec => []Chosen
  BY <1>1, <1>2, PTL DEF SupportingSpec
<1>4. Chosen /\ AllTypes => SupportingTypesOK
  BY DEF SupportingTypesOK
<1>5. SupportingSpec => []AllTypes
  BY RunIsOfItsParts, TypesOfParts, AcquisitionTypes, StaffPresenceTypes, CartStaysWithinLimits,
     StaffPanelTypes, PTL
<1> QED
  BY <1>3, <1>4, <1>5, PTL
=============================================================================
