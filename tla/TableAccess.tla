---------------------------- MODULE TableAccess ----------------------------
(***************************************************************************)
(* How a phone comes to ask for service at one table: the signed cookie    *)
(* that names its device, and the limits on requests over time             *)
(* (customer-context.service.ts, service-request.ts, session.service.ts).  *)
(* What becomes of a session is the subject of TableService; here it is    *)
(* only there or not.                                                      *)
(***************************************************************************)
EXTENDS Integers, Sequences, FiniteSets

CONSTANTS Phones,
          RequestTTL, TableLimit, LimitWindow,
          BlockAfter, RejectionWindow, BlockTime,
          MaxMinutes, MaxAsked   \* bounds of the runs

ASSUME TableAccessAssumption ==
    {RequestTTL, TableLimit, LimitWindow, BlockAfter, RejectionWindow, BlockTime,
     MaxMinutes, MaxAsked} \subseteq Nat /\ BlockAfter \in 1..2

VARIABLES minute,
          live,      \* the live session of the table, or "none"
          enabled,   \* tables.is_active
          asked,     \* the rows of service_requests
          blocks,    \* the rows of device_blocks
          known,     \* how many rows devices has
          cookie     \* the device that the cookie of a phone names, 0 for none

tableAccessVars == <<minute, live, enabled, asked, blocks, known, cookie>>

Asked == [device : 1..MaxAsked, type : {"open_session", "resume_session"}, at : Nat,
          status : {"pending", "approved", "rejected", "expired"}, resolvedAt : Nat]

BlockRow == [device : 1..MaxAsked, until : Nat]

TableAccessTypeOK ==
    /\ minute \in 0..MaxMinutes
    /\ live \in {"none", "active", "inactive"}
    /\ enabled \in BOOLEAN
    /\ asked \in Seq(Asked)
    /\ blocks \subseteq BlockRow
    /\ known \in 0..MaxAsked
    /\ cookie \in [Phones -> 0..known]

TableAccessInit ==
    /\ minute = 0 /\ live = "none" /\ enabled = TRUE
    /\ asked = <<>> /\ blocks = {} /\ known = 0
    /\ cookie = [p \in Phones |-> 0]

-----------------------------------------------------------------------------
\* A table is disabled only without a live session.
Enable(on) ==
    /\ ~on => live = "none"
    /\ enabled' = on
    /\ UNCHANGED <<minute, live, asked, blocks, known, cookie>>

-----------------------------------------------------------------------------
(* Requests.                                                                 *)

Pending(d) == {i \in DOMAIN asked : asked[i].device = d /\ asked[i].status = "pending"}

\* variant InLimitWindow: only what still waits
PendingInLimitWindow ==
    {i \in DOMAIN asked : asked[i].type = "open_session" /\ asked[i].status = "pending"
                          /\ asked[i].at > minute - LimitWindow}

InLimitWindow ==
    {i \in DOMAIN asked : asked[i].type = "open_session" /\ asked[i].at > minute - LimitWindow}

Blocked(d) == \E b \in blocks : b.device = d /\ b.until > minute

\* In the order of the code: an answer for each reason not to notify the staff.
DecideOpenRequest(d) ==
    CASE ~enabled                                   -> "table_not_available"
      [] enabled /\ Blocked(d)                      -> "device_blocked"
      [] enabled /\ ~Blocked(d) /\ Pending(d) # {}  -> "reuse_pending"
      [] enabled /\ ~Blocked(d) /\ Pending(d) = {} /\ Cardinality(InLimitWindow) >= TableLimit
                                                    -> "table_rate_limited"
      [] enabled /\ ~Blocked(d) /\ Pending(d) = {} /\ Cardinality(InLimitWindow) < TableLimit
         /\ live = "active"                         -> "session_active"
      [] OTHER                                      -> "create"

Ask(d, type) ==
    /\ Len(asked) < MaxAsked
    /\ asked' = Append(asked, [device |-> d, type |-> type, at |-> minute,
                               status |-> "pending", resolvedAt |-> 0])

\* The device of the cookie, or a row of its own for a phone without one, which
\* stays when the answer with the cookie is lost.
EnsureDevice(p, d, answered) ==
    /\ IF cookie[p] # 0 THEN d = cookie[p] /\ UNCHANGED known
       ELSE known < MaxAsked /\ d = known + 1 /\ known' = d
    /\ cookie' = IF answered THEN [cookie EXCEPT ![p] = d] ELSE cookie

RequestService(p, answered) ==
    \E d \in 1..known + 1 :
        /\ enabled
        /\ EnsureDevice(p, d, answered)
        /\ IF DecideOpenRequest(d) = "create" THEN Ask(d, "open_session") ELSE UNCHANGED asked
        /\ UNCHANGED <<minute, live, enabled, blocks>>

\* An order at an inactive session, which looks at no block.
RequestResume(d) ==
    /\ live = "inactive"
    /\ Pending(d) = {}
    /\ Ask(d, "resume_session")
    /\ UNCHANGED <<minute, live, enabled, blocks, known, cookie>>

ForgetCookie(p) ==
    /\ cookie[p] # 0
    /\ cookie' = [cookie EXCEPT ![p] = 0]
    /\ UNCHANGED <<minute, live, enabled, asked, blocks, known>>

\* The time is kept for a rejection; nothing reads that of the others.
Resolved(row, status) ==
    [row EXCEPT !.status = status, !.resolvedAt = IF status = "rejected" THEN minute ELSE 0]

\* The request becomes a session, and the others for one fall.
Approve(i) ==
    /\ asked[i].status = "pending" /\ (live # "active" \/ asked[i].type = "resume_session")
    /\ live' = "active"
    /\ asked' = [j \in DOMAIN asked |->
                    IF j = i THEN Resolved(asked[j], "approved")
                    ELSE IF asked[j].status = "pending" /\ asked[j].type = "open_session"
                         THEN Resolved(asked[j], "expired") ELSE asked[j]]
    /\ UNCHANGED <<minute, enabled, blocks, known, cookie>>

\* What was rejected of late, this rejection included.
Rejections(rows, d) ==
    {i \in DOMAIN rows : rows[i].device = d /\ rows[i].status = "rejected"
                         /\ rows[i].resolvedAt > minute - RejectionWindow}

\* variant ShouldBlockDevice: one rejection more
ShouldBlockLater(rejections) == Cardinality(rejections) > BlockAfter

ShouldBlockDevice(rejections) == Cardinality(rejections) >= BlockAfter

Reject(i) ==
    LET d == asked[i].device IN
    /\ asked[i].status = "pending"
    /\ asked' = [asked EXCEPT ![i] = Resolved(@, "rejected")]
    /\ blocks' = IF ShouldBlockDevice(Rejections(asked', d))
                 THEN blocks \cup {[device |-> d, until |-> minute + BlockTime]} ELSE blocks
    /\ UNCHANGED <<minute, live, enabled, known, cookie>>

\* The job, some time after a request has passed its time.
ExpireRequests ==
    /\ asked' = [i \in DOMAIN asked |->
                    IF asked[i].status = "pending" /\ asked[i].at + RequestTTL < minute
                    THEN Resolved(asked[i], "expired") ELSE asked[i]]
    /\ UNCHANGED <<minute, live, enabled, blocks, known, cookie>>

\* The session falls asleep or ends, as TableService says.
MoveSession ==
    /\ live # "none"
    /\ live' \in {"inactive", "none"} \ {live}
    /\ UNCHANGED <<minute, enabled, asked, blocks, known, cookie>>

Wait ==
    /\ minute < MaxMinutes
    /\ minute' = minute + 1
    /\ UNCHANGED <<live, enabled, asked, blocks, known, cookie>>

TableAccessNext ==
    \/ \E on \in BOOLEAN : Enable(on)
    \/ \E p \in Phones, answered \in BOOLEAN : RequestService(p, answered)
    \/ \E p \in Phones : ForgetCookie(p)
    \/ \E d \in 1..known : RequestResume(d)
    \/ \E i \in DOMAIN asked : Approve(i) \/ Reject(i)
    \/ ExpireRequests \/ MoveSession \/ Wait

TableAccessSpec == TableAccessInit /\ [][TableAccessNext]_tableAccessVars

-----------------------------------------------------------------------------
(* Properties. *)

\* A device that was rejected twice within the window asks for no session until
\* the block is over, whatever else of it was pending, expired or approved.
RejectedTwiceIsQuiet ==
    \A i, j, k \in DOMAIN asked :
        /\ i # j
        /\ {asked[i].status, asked[j].status} = {"rejected"}
        /\ asked[i].device = asked[j].device /\ asked[k].device = asked[j].device
        /\ asked[j].resolvedAt - asked[i].resolvedAt \in 0..RejectionWindow - 1
        /\ k > i /\ k > j /\ asked[k].type = "open_session"
        => asked[k].at >= asked[j].resolvedAt + BlockTime

\* However many phones ask to open a table, or one phone that throws its cookie
\* away, the staff hears no more than the limit of them within any window
\* (requests to resume a session are not limited).
TableIsNotFlooded ==
    \A from \in 0..minute :
        Cardinality({i \in DOMAIN asked : asked[i].type = "open_session"
                                          /\ asked[i].at \in from..from + LimitWindow - 1}) <= TableLimit
=============================================================================
