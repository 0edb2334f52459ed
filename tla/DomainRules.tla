---------------------------- MODULE DomainRules ----------------------------
(***************************************************************************)
(* The pure decisions of packages/domain that the services take inside     *)
(* their transactions: the derived state of a table, what a request to     *)
(* open a table leads to, where a new order goes, and whether a session    *)
(* may be closed.  Time windows (anti-spam, PIN lock) are not here: they   *)
(* are inputs of the decisions and only decide whether a request is        *)
(* refused, which changes no state.                                        *)
(***************************************************************************)

LiveStatuses == {"active", "inactive"}
RequestStatuses == {"pending", "approved", "rejected", "expired", "cancelled"}
RequestTypes == {"open_session", "resume_session"}
OrderStatuses == {"pending_confirmation", "submitted", "acknowledged", "cancelled"}

\* The state of a table is derived, never stored.  `live` is the status of its
\* live session, or "none".
DeriveTableState(isActive, live, hasPendingOpenRequest) ==
  CASE ~isActive            -> "disabled"
    [] isActive /\ live = "active"   -> "occupied"
    [] isActive /\ live = "inactive" -> "inactive"
    [] isActive /\ live = "none" /\ hasPendingOpenRequest  -> "requested"
    [] isActive /\ live = "none" /\ ~hasPendingOpenRequest -> "free"

\* What a customer's request to open a table leads to.  The refusals for a
\* blocked tenant and a blocked device come before the second alternative, that
\* for a rate-limited table before the third; they change nothing.
DecideOpenRequest(tableState, hasPendingRequest) ==
  IF tableState = "disabled" THEN "reject"
  ELSE IF hasPendingRequest THEN "reuse_pending"
  ELSE IF tableState = "occupied" THEN "reject"
  ELSE "create"

\* What happens to an order, from the status of its session and who places it.
DecideOrderPlacement(sessionStatus, actorKind) ==
  CASE sessionStatus = "active"   -> "submit"
    [] sessionStatus = "inactive" ->
         IF actorKind = "staff" THEN "submit" ELSE "await_confirmation"
    [] OTHER -> "error"

\* Closing a session that still has orders nobody acknowledged needs `force`.
DecideCloseSession(unacknowledged, force) ==
  IF unacknowledged = {} THEN "manual"
  ELSE IF force THEN "forced_with_pending"
  ELSE "blocked"

=============================================================================
