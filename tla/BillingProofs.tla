--------------------------- MODULE BillingProofs ---------------------------
(***************************************************************************)
(* Proofs about Billing: no charge is credited twice or without money, and *)
(* no milestone is set without a payment, for any number of tenants, calls *)
(* under way, errors and crashes.  The argument: the row of a charge is    *)
(* locked from the settlement's conditional update to its commit, so that  *)
(* one call at most has found it pending and not yet credited it; nothing  *)
(* ever makes a charge pending again.                                      *)
(***************************************************************************)
EXTENDS BillingLedger, FiniteSetTheorems, TLAPS

Settling(w) == op[w].pc \in {"extend", "commit"}

\* What a call knows of the charges that it names.
CallerRight(o) ==
    /\ o.todo \subseteq Ids
    /\ o.pc = "expire" => o.charge \in Ids
    /\ o.pc \in {"extend", "commit"} =>
           /\ o.charge \in Ids
           /\ o.tenant = charges[o.charge].tenant
           /\ charges[o.charge].status = "pending"
           /\ paid[o.charge]

CallersRight == \A w \in Callers : CallerRight(op[w])

\* The lock of the row.
OneSettles ==
    \A v, w \in Callers : Settling(v) /\ Settling(w) /\ op[v].charge = op[w].charge => v = w

\* A charge is credited when it becomes paid, and never becomes pending again.
CreditsRight ==
    /\ \A c \in 1..MaxCharges : c \notin Ids => credited[c] = 0
    /\ \A c \in Ids : /\ credited[c] \in {0, 1}
                      /\ credited[c] = 1 => paid[c]
                      /\ charges[c].status = "pending" => credited[c] = 0
                      /\ charges[c].status = "paid" => credited[c] = 1

\* The charges that calls are about to insert have room.
Reserved == UNION {{w} \X DOMAIN op[w].creating : w \in Callers}

RoomKept == IsFiniteSet(Reserved) /\ Len(charges) + Cardinality(Reserved) <= MaxCharges

RowsRight == CallersRight /\ OneSettles /\ CreditsRight /\ PaidMilestoneMeansMoney

BillingInv == BillingTypeOK /\ RoomKept /\ RowsRight

-----------------------------------------------------------------------------
(* Types. *)

\* The call that does nothing.
LEMMA IdleIsOp ==
    /\ Idle \in Op /\ Idle.pc = "idle" /\ Idle.todo = {} /\ DOMAIN Idle.creating = {}
    /\ \A w \in Callers : op[w] = Idle => ~Settling(w)
<1>1. [t \in {} |-> DefaultPlan] \in Creations
  <2>1. [t \in {} |-> DefaultPlan] \in [{} -> Plans]
    OBVIOUS
  <2>2. {} \in SUBSET Tenants
    OBVIOUS
  <2> QED
    BY <2>1, <2>2 DEF Creations
<1>2. Idle \in Op /\ Idle.pc = "idle" /\ Idle.todo = {}
  BY <1>1 DEF Idle, Op, NoDate
<1>3. DOMAIN Idle.creating = {}
  BY DEF Idle
<1> QED
  BY <1>2, <1>3 DEF Settling

\* A call that asks for charges, or is done.
LEMMA ContinueIsOp ==
    ASSUME NEW todo \in SUBSET Nat
    PROVE  /\ Continue(todo) \in Op /\ Continue(todo).todo \subseteq todo
           /\ Continue(todo).pc \in {"idle", "ask"} /\ DOMAIN Continue(todo).creating = {}
<1>1. [t \in {} |-> DefaultPlan] \in Creations
  <2>1. [t \in {} |-> DefaultPlan] \in [{} -> Plans]
    OBVIOUS
  <2>2. {} \in SUBSET Tenants
    OBVIOUS
  <2> QED
    BY <2>1, <2>2 DEF Creations
<1>2. CASE todo = {}
  BY <1>2, IdleIsOp DEF Continue
<1>3. CASE todo # {}
  <2>1. Continue(todo) = [pc |-> "ask", creating |-> [t \in {} |-> DefaultPlan], tenant |-> None,
                          charge |-> 0, at |-> NoDate, base |-> NoDate, todo |-> todo]
    BY <1>3 DEF Continue, Idle
  <2>2. Continue(todo) \in Op
    BY <1>1, <2>1 DEF Op, NoDate
  <2> QED
    BY <2>1, <2>2
<1> QED
  BY <1>2, <1>3

\* The rows are what they are declared to be.
LEMMA BillingTypes ==
    ASSUME BillingTypeOK
    PROVE  /\ charges \in Seq(ChargeRow) /\ Len(charges) \in Nat /\ Ids = 1..Len(charges)
           /\ \A c \in Ids : charges[c] \in ChargeRow /\ c \in Nat
           /\ \A w \in Callers : op[w] \in Op
           /\ op \in [Callers -> Op]
           /\ now \in Nat /\ \A t \in Tenants : tenants[t] \in TenantRow
           /\ credited \in [1..MaxCharges -> Nat] /\ paid \in [1..MaxCharges -> BOOLEAN]
           /\ MaxCharges \in Nat
  BY BillingAssumption DEF BillingTypeOK, Ids

-----------------------------------------------------------------------------
(* Room for charges. *)

\* Who reserves what.
LEMMA ReservedPairs ==
    /\ \A x : x \in Reserved <=> \E w \in Callers : x \in {w} \X DOMAIN op[w].creating
    /\ \A x : x \in Reserved' <=> \E w \in Callers : x \in {w} \X DOMAIN op'[w].creating
  BY DEF Reserved

\* The room, as numbers.
LEMMA RoomTypes ==
    ASSUME BillingInv
    PROVE  /\ IsFiniteSet(Reserved) /\ Cardinality(Reserved) \in Nat
           /\ Len(charges) \in Nat /\ MaxCharges \in Nat
           /\ Len(charges) + Cardinality(Reserved) <= MaxCharges
  BY BillingTypes, FS_CardinalityType DEF BillingInv, RoomKept

\* Calls that reserve nothing more leave the room that there was.
LEMMA RoomStays ==
    ASSUME BillingInv, Len(charges') = Len(charges),
           \A v \in Callers : DOMAIN op'[v].creating \subseteq DOMAIN op[v].creating
    PROVE  RoomKept'
<1>1. Reserved' \subseteq Reserved
  <2> SUFFICES ASSUME NEW x \in Reserved' PROVE x \in Reserved
      OBVIOUS
  <2>1. PICK v \in Callers : x \in {v} \X DOMAIN op'[v].creating
    BY ReservedPairs
  <2>2. x \in {v} \X DOMAIN op[v].creating
    BY <2>1
  <2> QED
    BY <2>2, ReservedPairs
<1>2. IsFiniteSet(Reserved') /\ Cardinality(Reserved') <= Cardinality(Reserved)
  BY <1>1, RoomTypes, FS_Subset
<1>3. Cardinality(Reserved') \in Nat
  BY <1>2, FS_CardinalityType
<1> QED
  BY <1>2, <1>3, RoomTypes DEF RoomKept

\* What one call reserves.
LEMMA ReservedByOne ==
    ASSUME NEW w, NEW some \in SUBSET Tenants
    PROVE  /\ IsFiniteSet(some) /\ Cardinality(some) \in Nat
           /\ IsFiniteSet({w} \X some) /\ Cardinality({w} \X some) = Cardinality(some)
<1>1. IsFiniteSet(some) /\ Cardinality(some) \in Nat
  BY BillingAssumption, FS_Subset, FS_CardinalityType
<1>2. IsFiniteSet({w}) /\ Cardinality({w}) = 1
  BY FS_Singleton
<1>3. IsFiniteSet({w} \X some) /\ Cardinality({w} \X some) = 1 * Cardinality(some)
  BY <1>1, <1>2, FS_Product
<1> QED
  BY <1>1, <1>3

\* A call that begins to create charges has looked for room.
LEMMA RoomReserved ==
    ASSUME BillingInv, NEW w \in Callers, NEW some \in SUBSET Tenants, BeginCharges(w, some)
    PROVE  RoomKept'
<1> DEFINE own == {w} \X some
<1>1. /\ Len(charges) + Cardinality(Reserved) + Cardinality(some) <= MaxCharges
      /\ charges' = charges
  BY DEF BeginCharges, Room, Reserved
<1>2. \A v \in Callers : DOMAIN op'[v].creating = IF v = w THEN some ELSE DOMAIN op[v].creating
  <2> DEFINE next == [Idle EXCEPT !.pc = "create", !.creating = [t \in some |-> ChosenPlan(t)],
                                  !.at = now + ChargeTTL]
  <2>1. op' = [op EXCEPT ![w] = next]
    BY DEF BeginCharges, Step
  <2>2. DOMAIN next.creating = some
    BY DEF Idle
  <2>3. \A v \in Callers : op'[v] = IF v = w THEN next ELSE op[v]
    BY <2>1, BillingTypes DEF BillingInv
  <2> HIDE DEF next
  <2> QED
    BY <2>2, <2>3
<1>3. Reserved' \subseteq Reserved \cup own
  <2> SUFFICES ASSUME NEW x \in Reserved' PROVE x \in Reserved \cup own
      OBVIOUS
  <2>1. PICK v \in Callers : x \in {v} \X DOMAIN op'[v].creating
    BY ReservedPairs
  <2>2. CASE v = w
    BY <1>2, <2>1, <2>2
  <2>3. CASE v # w
    <3>1. x \in {v} \X DOMAIN op[v].creating
      BY <1>2, <2>1, <2>3
    <3> QED
      BY <3>1, ReservedPairs
  <2> QED
    BY <2>2, <2>3
<1>4. IsFiniteSet(own) /\ Cardinality(own) = Cardinality(some) /\ Cardinality(some) \in Nat
  BY ReservedByOne
<1> HIDE DEF own
<1>5. /\ IsFiniteSet(Reserved \cup own)
      /\ Cardinality(Reserved \cup own) =
            Cardinality(Reserved) + Cardinality(own) - Cardinality(Reserved \cap own)
  BY <1>4, RoomTypes, FS_Union
<1>6. Cardinality(Reserved \cap own) \in Nat
  <2>1. Reserved \cap own \in SUBSET Reserved
    OBVIOUS
  <2>2. IsFiniteSet(Reserved \cap own)
    BY <2>1, RoomTypes, FS_Subset
  <2> QED
    BY <2>2, FS_CardinalityType
<1>7. IsFiniteSet(Reserved') /\ Cardinality(Reserved') <= Cardinality(Reserved \cup own)
  BY <1>3, <1>5, FS_Subset
<1>8. Cardinality(Reserved') \in Nat /\ Cardinality(Reserved \cup own) \in Nat
  BY <1>5, <1>7, FS_CardinalityType
<1> QED
  BY <1>1, <1>4, <1>5, <1>6, <1>7, <1>8, RoomTypes DEF RoomKept

\* Charges that are inserted take the room that was theirs.
LEMMA RoomTaken ==
    ASSUME BillingInv, NEW w \in Callers, op' = [op EXCEPT ![w] = Idle],
           Len(charges') = Len(charges) + Cardinality(DOMAIN op[w].creating),
           DOMAIN op[w].creating \in SUBSET Tenants
    PROVE  RoomKept'
<1> DEFINE some == DOMAIN op[w].creating
           own == {w} \X some
<1>1. \A v \in Callers : op'[v] = IF v = w THEN Idle ELSE op[v]
  BY BillingTypes DEF BillingInv
<1>2. Reserved' \subseteq Reserved \ own
  <2> SUFFICES ASSUME NEW x \in Reserved' PROVE x \in Reserved \ own
      OBVIOUS
  <2>1. PICK v \in Callers : x \in {v} \X DOMAIN op'[v].creating
    BY ReservedPairs
  <2>2. v # w
    BY <1>1, <2>1, IdleIsOp
  <2>3. x \in {v} \X DOMAIN op[v].creating
    BY <1>1, <2>1, <2>2
  <2>4. x \notin own
    BY <2>2, <2>3
  <2> QED
    BY <2>3, <2>4, ReservedPairs
<1>3. own \subseteq Reserved
  <2> SUFFICES ASSUME NEW x \in own PROVE x \in Reserved
      OBVIOUS
  <2> QED
    BY ReservedPairs
<1>4. IsFiniteSet(own) /\ Cardinality(own) = Cardinality(some) /\ Cardinality(some) \in Nat
  BY ReservedByOne
<1>5. Len(charges') = Len(charges) + Cardinality(some)
  OBVIOUS
<1> HIDE DEF own, some
<1>6. Reserved \cap own = own
  BY <1>3
<1>7. IsFiniteSet(Reserved \ own) /\ Cardinality(Reserved \ own) = Cardinality(Reserved) - Cardinality(own)
  <2>1. /\ IsFiniteSet(Reserved \ own)
        /\ Cardinality(Reserved \ own) = Cardinality(Reserved) - Cardinality(Reserved \cap own)
    BY RoomTypes, FS_Difference, Zenon
  <2> QED
    BY <1>6, <2>1
<1>8. IsFiniteSet(Reserved') /\ Cardinality(Reserved') <= Cardinality(Reserved \ own)
  BY <1>2, <1>7, FS_Subset
<1>9. Cardinality(Reserved') \in Nat /\ Cardinality(Reserved \ own) \in Nat
  BY <1>7, <1>8, FS_CardinalityType
<1> QED
  BY <1>4, <1>5, <1>7, <1>8, <1>9, RoomTypes DEF RoomKept

-----------------------------------------------------------------------------
(* Steps that write no charge. *)

\* What the step of one call is to the others.
LEMMA StepOp ==
    ASSUME BillingTypeOK, NEW w \in Callers, NEW next \in Op, Step(w, next)
    PROVE  op' \in [Callers -> Op] /\ \A v \in Callers : op'[v] = IF v = w THEN next ELSE op[v]
  BY DEF BillingTypeOK, Step

\* A call moves on, knowing what it must of the charges; to settle one it takes
\* a lock that nobody has.
LEMMA RowsStay ==
    ASSUME BillingInv, NEW w \in Callers, NEW next \in Op, Step(w, next),
           UNCHANGED <<charges, paid, credited, milestone>>, CallerRight(next),
           next.pc \in {"extend", "commit"} =>
               \A v \in Callers : v # w /\ Settling(v) => op[v].charge # next.charge
    PROVE  RowsRight'
<1>1. \A v \in Callers : op'[v] = IF v = w THEN next ELSE op[v]
  BY StepOp DEF BillingInv
<1>2. CallersRight'
  <2> SUFFICES ASSUME NEW v \in Callers PROVE CallerRight(op[v])'
      BY DEF CallersRight
  <2>1. CallerRight(op'[v])
    BY <1>1 DEF BillingInv, RowsRight, CallersRight
  <2> QED
    BY <2>1 DEF CallerRight, Ids
<1>3. OneSettles'
  <2> SUFFICES ASSUME NEW u \in Callers, NEW v \in Callers,
                      op'[u].pc \in {"extend", "commit"}, op'[v].pc \in {"extend", "commit"},
                      op'[u].charge = op'[v].charge
               PROVE  u = v
      BY DEF OneSettles, Settling
  <2> QED
    BY <1>1 DEF BillingInv, RowsRight, OneSettles, Settling
<1>4. CreditsRight' /\ PaidMilestoneMeansMoney'
  BY DEF BillingInv, RowsRight, CreditsRight, PaidMilestoneMeansMoney, Ids
<1> QED
  BY <1>2, <1>3, <1>4 DEF RowsRight

\* The same, with what else there is.
LEMMA CallerMoves ==
    ASSUME BillingInv, NEW w \in Callers, NEW next \in Op, Step(w, next),
           UNCHANGED <<charges, paid, credited, milestone, tenants, now>>,
           jobStep' \in {"create", "confirm", "expire"}, faults' \in 0..MaxFaults,
           CallerRight(next), DOMAIN next.creating \subseteq DOMAIN op[w].creating,
           next.pc \in {"extend", "commit"} =>
               \A v \in Callers : v # w /\ Settling(v) => op[v].charge # next.charge
    PROVE  BillingInv'
<1>1. RowsRight'
  BY RowsStay
<1>2. op' \in [Callers -> Op] /\ \A v \in Callers : op'[v] = IF v = w THEN next ELSE op[v]
  BY StepOp DEF BillingInv
<1>3. RoomKept'
  BY <1>2, RoomStays
<1>4. BillingTypeOK'
  BY <1>2 DEF BillingInv, BillingTypeOK
<1> QED
  BY <1>1, <1>3, <1>4 DEF BillingInv

\* A call that is done, or goes on asking.
LEMMA CallerContinues ==
    ASSUME BillingInv, NEW w \in Callers, NEW todo \in SUBSET Ids, Step(w, Continue(todo)),
           UNCHANGED <<charges, paid, credited, milestone, tenants, now>>,
           jobStep' \in {"create", "confirm", "expire"}, faults' \in 0..MaxFaults
    PROVE  BillingInv'
<1> DEFINE next == Continue(todo)
<1>1. todo \in SUBSET Nat
  BY BillingTypes DEF BillingInv
<1>2. /\ next \in Op /\ next.todo \subseteq todo /\ next.pc \in {"idle", "ask"}
      /\ DOMAIN next.creating = {}
  BY <1>1, ContinueIsOp
<1>3. CallerRight(next)
  BY <1>2 DEF CallerRight
<1> HIDE DEF next
<1>4. Step(w, next)
  BY DEF next
<1> QED
  BY <1>2, <1>3, <1>4, CallerMoves

\* No call moves and no charge is written.
LEMMA NothingMoves ==
    ASSUME BillingInv, UNCHANGED <<charges, paid, credited, milestone, op>>,
           tenants' \in [Tenants -> TenantRow], now' \in Nat,
           jobStep' \in {"create", "confirm", "expire"}, faults' \in 0..MaxFaults
    PROVE  BillingInv'
<1>1. RoomKept'
  BY RoomStays
<1>2. BillingTypeOK'
  BY DEF BillingInv, BillingTypeOK
<1>3. RowsRight'
  BY DEF BillingInv, RowsRight, CallersRight, CallerRight, OneSettles, Settling, CreditsRight,
         PaidMilestoneMeansMoney, Ids
<1> QED
  BY <1>1, <1>2, <1>3 DEF BillingInv

\* Charges that nobody settles expire, and calls end.
LEMMA ChargesExpire ==
    ASSUME BillingInv, NEW stale \in SUBSET Ids, \A c \in stale : ~ChargeLocked(c),
           charges' \in Seq(ChargeRow), Ids' = Ids, Len(charges') = Len(charges),
           \A c \in Ids : /\ charges'[c].tenant = charges[c].tenant
                          /\ charges'[c].status = IF c \in stale THEN "expired" ELSE charges[c].status,
           op' \in [Callers -> Op], \A v \in Callers : op'[v] \in {op[v], Idle},
           UNCHANGED <<paid, credited, milestone, tenants, now>>,
           jobStep' \in {"create", "confirm", "expire"}, faults' \in 0..MaxFaults
    PROVE  BillingInv'
<1>1. RoomKept'
  <2>1. \A v \in Callers : DOMAIN op'[v].creating \subseteq DOMAIN op[v].creating
    BY IdleIsOp
  <2> QED
    BY <2>1, RoomStays
<1>2. BillingTypeOK'
  BY DEF BillingInv, BillingTypeOK
<1>3. CallersRight'
  <2> SUFFICES ASSUME NEW v \in Callers PROVE CallerRight(op[v])'
      BY DEF CallersRight
  <2>1. CASE op'[v] = Idle
    BY <2>1, IdleIsOp DEF CallerRight
  <2>2. CASE op'[v] = op[v]
    <3>1. CallerRight(op[v])
      BY DEF BillingInv, RowsRight, CallersRight
    <3>2. op[v].pc \in {"extend", "commit"} => op[v].charge \notin stale
      BY DEF ChargeLocked
    <3> QED
      BY <2>2, <3>1, <3>2 DEF CallerRight
  <2> QED
    BY <2>1, <2>2
<1>4. OneSettles'
  <2>1. \A v \in Callers : Settling(v)' => Settling(v) /\ op'[v] = op[v]
    BY IdleIsOp DEF Settling
  <2> QED
    BY <2>1 DEF BillingInv, RowsRight, OneSettles
<1>5. CreditsRight'
  BY DEF BillingInv, RowsRight, CreditsRight
<1>6. PaidMilestoneMeansMoney'
  BY DEF BillingInv, RowsRight, PaidMilestoneMeansMoney
<1> QED
  BY <1>1, <1>2, <1>3, <1>4, <1>5, <1>6 DEF BillingInv, RowsRight

-----------------------------------------------------------------------------
(* The creation of charges. *)

\* What the bounds of the constants are.
LEMMA Bounds ==
    /\ DefaultPlan \in Plans /\ \A p \in Plans : Cycle[p] \in Nat
    /\ TrialTime \in Nat /\ ChargeTTL \in Nat /\ MaxFaults \in Nat /\ MaxCharges \in Nat
    /\ Job \in Callers /\ Workers \subseteq Callers
  BY BillingAssumption DEF Callers

\* What a step leaves alone keeps its type.
LEMMA RestTypes ==
    ASSUME BillingTypeOK
    PROVE  /\ jobStep \in {"create", "confirm", "expire"} /\ faults \in 0..MaxFaults
           /\ tenants \in [Tenants -> TenantRow] /\ now \in Nat
  BY DEF BillingTypeOK

\* A call begins: the plans are those of the moment.
LEMMA ChargesBegin ==
    ASSUME BillingInv, NEW w \in Callers, NEW some \in SUBSET Tenants, BeginCharges(w, some),
           jobStep' \in {"create", "confirm", "expire"}
    PROVE  BillingInv'
<1> DEFINE plans == [t \in some |-> ChosenPlan(t)]
           at == now + ChargeTTL
           next == [Idle EXCEPT !.pc = "create", !.creating = plans, !.at = at]
<1>1. plans \in Creations
  <2>1. \A t \in some : ChosenPlan(t) \in Plans
    BY Bounds, BillingTypes DEF BillingInv, ChosenPlan, TenantRow
  <2>2. plans \in [some -> Plans]
    BY <2>1
  <2> QED
    BY <2>2 DEF Creations
<1>2. Step(w, next) /\ UNCHANGED <<milestone, now, tenants, charges, paid, credited, faults>>
  BY DEF BeginCharges
<1>3. at \in Nat
  BY Bounds, RestTypes DEF BillingInv
<1> HIDE DEF plans, at
<1>4. next \in Op /\ next.pc = "create" /\ next.todo = {}
  BY <1>1, <1>3, IdleIsOp DEF Op
<1> HIDE DEF next
<1>5. CallerRight(next)
  BY <1>4 DEF CallerRight
<1>6. RowsRight'
  BY <1>2, <1>4, <1>5, RowsStay
<1>7. BillingTypeOK'
  BY <1>2, <1>4, StepOp DEF BillingInv, BillingTypeOK
<1>8. RoomKept'
  BY RoomReserved
<1> QED
  BY <1>6, <1>7, <1>8 DEF BillingInv

\* New charges are pending and not credited, and nobody settles them yet.
LEMMA ChargesCommitted ==
    ASSUME BillingInv, NEW w \in Callers, CommitCharges(w)
    PROVE  BillingInv'
<1> DEFINE some == DOMAIN op[w].creating
           n == Cardinality(some)
<1>1. some \in SUBSET Tenants /\ \A t \in some : op[w].creating[t] \in Plans
  <2>1. op[w].creating \in Creations
    BY BillingTypes DEF BillingInv, Op
  <2> QED
    BY <2>1 DEF Creations
<1>2. n \in Nat
  BY <1>1, ReservedByOne
<1>3. PICK order \in [1..n -> some] :
          charges' = charges \o [i \in DOMAIN order |->
              [tenant |-> order[i], plan |-> op[w].creating[order[i]],
               status |-> "pending", expiresAt |-> op[w].at]]
  BY DEF CommitCharges
<1> DEFINE new == [i \in 1..n |-> [tenant |-> order[i], plan |-> op[w].creating[order[i]],
                                   status |-> "pending", expiresAt |-> op[w].at]]
<1>4. new \in Seq(ChargeRow) /\ Len(new) = n /\ \A i \in 1..n : new[i].status = "pending"
  <2>1. op[w].at \in Nat
    BY BillingTypes DEF BillingInv, Op
  <2>2. \A i \in 1..n : new[i] \in ChargeRow /\ new[i].status = "pending"
    BY <1>1, <2>1 DEF ChargeRow
  <2> QED
    BY <1>2, <2>2
<1>5. charges' = charges \o new
  BY <1>3
<1>6. /\ op' = [op EXCEPT ![w] = Idle]
      /\ UNCHANGED <<milestone, now, tenants, paid, credited, jobStep, faults>>
  BY DEF CommitCharges, Step
<1> HIDE DEF new
<1>7. /\ charges' \in Seq(ChargeRow) /\ Len(charges') = Len(charges) + n
      /\ Ids \subseteq Ids' /\ \A c \in Ids : charges'[c] = charges[c]
      /\ \A c \in Ids' \ Ids : charges'[c].status = "pending"
  <2>1. charges \in Seq(ChargeRow) /\ Ids = 1..Len(charges) /\ Len(charges) \in Nat
    BY BillingTypes DEF BillingInv
  <2>2. charges' \in Seq(ChargeRow) /\ Len(charges') = Len(charges) + n
    BY <1>4, <1>5, <2>1
  <2>3. Ids' = 1..Len(charges) + n
    BY <2>2 DEF Ids
  <2>4. \A c \in Ids : charges'[c] = charges[c]
    BY <1>4, <1>5, <2>1
  <2>5. ASSUME NEW c \in Ids' \ Ids PROVE charges'[c].status = "pending"
    <3>1. c - Len(charges) \in 1..n /\ charges'[c] = new[c - Len(charges)]
      BY <1>2, <1>4, <1>5, <2>1, <2>3
    <3> QED
      BY <1>4, <3>1
  <2> QED
    BY <1>2, <2>1, <2>2, <2>3, <2>4, <2>5
<1>8. \A v \in Callers : op'[v] = IF v = w THEN Idle ELSE op[v]
  BY <1>6, BillingTypes DEF BillingInv
<1>9. BillingTypeOK'
  BY <1>6, <1>7, IdleIsOp DEF BillingInv, BillingTypeOK
<1>10. RoomKept'
  BY <1>1, <1>6, <1>7, RoomTaken
<1>11. Ids' \subseteq 1..MaxCharges
  <2>1. Len(charges') \in Nat /\ Len(charges') <= MaxCharges
    <3>1. IsFiniteSet(Reserved') /\ Len(charges') + Cardinality(Reserved') <= MaxCharges
      BY <1>10 DEF RoomKept
    <3>2. Cardinality(Reserved') \in Nat /\ Len(charges') \in Nat
      BY <1>7, <3>1, FS_CardinalityType
    <3> QED
      BY <3>1, <3>2, Bounds
  <2> QED
    BY <1>7, <2>1, Bounds DEF Ids
<1>12. CallersRight' /\ OneSettles'
  <2>1. ASSUME NEW v \in Callers PROVE CallerRight(op[v])'
    <3>1. CASE v = w
      BY <1>8, <3>1, IdleIsOp DEF CallerRight
    <3>2. CASE v # w
      <4>1. CallerRight(op[v]) /\ op'[v] = op[v]
        BY <1>8, <3>2 DEF BillingInv, RowsRight, CallersRight
      <4> QED
        BY <1>6, <1>7, <4>1 DEF CallerRight
    <3> QED
      BY <3>1, <3>2
  <2>2. \A v \in Callers : Settling(v)' => Settling(v) /\ op'[v] = op[v]
    BY <1>8, IdleIsOp DEF Settling
  <2> QED
    BY <2>1, <2>2 DEF BillingInv, RowsRight, CallersRight, OneSettles
<1>13. CreditsRight'
  BY <1>6, <1>7, <1>11 DEF BillingInv, RowsRight, CreditsRight
<1>14. PaidMilestoneMeansMoney'
  BY <1>6, <1>7 DEF BillingInv, RowsRight, PaidMilestoneMeansMoney
<1> QED
  BY <1>9, <1>10, <1>12, <1>13, <1>14 DEF BillingInv, RowsRight

\* Money arrives.
LEMMA ChargePaid ==
    ASSUME BillingInv, NEW c \in Ids, Pay(c)
    PROVE  BillingInv'
<1>1. /\ paid' = [paid EXCEPT ![c] = TRUE]
      /\ UNCHANGED <<milestone, now, tenants, charges, credited, op, jobStep, faults>>
  BY DEF Pay
<1>2. paid' \in [1..MaxCharges -> BOOLEAN] /\ \A d : d \in 1..MaxCharges /\ paid[d] => paid'[d]
  BY <1>1, BillingTypes, Zenon DEF BillingInv
<1>3. Ids \subseteq 1..MaxCharges
  BY BillingTypes, RoomTypes DEF BillingInv
<1>4. BillingTypeOK' /\ RoomKept'
  BY <1>1, <1>2, RoomStays DEF BillingInv, BillingTypeOK
<1>5. CallersRight' /\ OneSettles'
  BY <1>1, <1>2, <1>3 DEF BillingInv, RowsRight, CallersRight, CallerRight, OneSettles, Settling, Ids
<1>6. CreditsRight' /\ PaidMilestoneMeansMoney'
  BY <1>1, <1>2, <1>3 DEF BillingInv, RowsRight, CreditsRight, PaidMilestoneMeansMoney, Ids
<1> QED
  BY <1>4, <1>5, <1>6 DEF BillingInv, RowsRight

-----------------------------------------------------------------------------
(* Confirmation and expiry. *)

\* A charge that was seen past its time will be written as expired, others are
\* asked about.
LEMMA ChargeVerified ==
    ASSUME BillingInv, NEW w \in Workers, NEW c \in Ids, VerifyCharge(w, c)
    PROVE  BillingInv'
<1>1. w \in Callers /\ UNCHANGED <<milestone, now, tenants, charges, paid, credited, jobStep, faults>>
  BY Bounds DEF VerifyCharge
<1>2. CASE charges[c].expiresAt < now
  <2> DEFINE next == [Idle EXCEPT !.pc = "expire", !.charge = c]
  <2>1. Step(w, next)
    BY <1>2 DEF VerifyCharge
  <2>2. c \in Nat
    BY BillingTypes DEF BillingInv
  <2>3. next \in Op /\ next.pc = "expire" /\ next.todo = {} /\ next.charge = c
        /\ next.creating = Idle.creating
    BY <2>2, IdleIsOp DEF Op
  <2> HIDE DEF next
  <2>4. CallerRight(next) /\ DOMAIN next.creating = {}
    BY <2>3, IdleIsOp DEF CallerRight
  <2> QED
    BY <1>1, <2>1, <2>3, <2>4, CallerMoves, RestTypes DEF BillingInv
<1>3. CASE ~(charges[c].expiresAt < now)
  <2>1. Step(w, Continue({c}))
    BY <1>3 DEF VerifyCharge
  <2> QED
    BY <1>1, <2>1, CallerContinues, RestTypes DEF BillingInv
<1> QED
  BY <1>2, <1>3

\* The write by id, of a charge that nobody settles at that moment.
LEMMA VerifiedExpires ==
    ASSUME BillingInv, NEW w \in Callers, ExpireVerified(w)
    PROVE  BillingInv'
<1> DEFINE c == op[w].charge
           stale == {c}
<1>1. /\ op[w].pc = "expire" /\ ~ChargeLocked(c)
      /\ charges' = [charges EXCEPT ![c].status = "expired"]
      /\ op' = [op EXCEPT ![w] = Idle]
      /\ UNCHANGED <<milestone, now, tenants, paid, credited, jobStep, faults>>
  BY DEF ExpireVerified, Step
<1>2. c \in Ids
  BY <1>1 DEF BillingInv, RowsRight, CallersRight, CallerRight
<1> HIDE DEF c
<1>3. charges \in Seq(ChargeRow) /\ charges[c] \in ChargeRow /\ Ids = 1..Len(charges) /\ Len(charges) \in Nat
  BY <1>2, BillingTypes DEF BillingInv
<1>4. /\ charges' \in Seq(ChargeRow) /\ Len(charges') = Len(charges) /\ Ids' = Ids
      /\ \A d \in Ids : charges'[d] = IF d = c THEN [charges[d] EXCEPT !.status = "expired"]
                                               ELSE charges[d]
  <2>1. [charges[c] EXCEPT !.status = "expired"] \in ChargeRow
    BY <1>3 DEF ChargeRow
  <2> QED
    BY <1>1, <1>2, <1>3, <2>1 DEF Ids
<1>5. \A d \in Ids : /\ charges'[d].tenant = charges[d].tenant
                     /\ charges'[d].status = IF d \in stale THEN "expired" ELSE charges[d].status
  BY <1>2, <1>3, <1>4 DEF ChargeRow
<1>6. op' \in [Callers -> Op] /\ \A v \in Callers : op'[v] \in {op[v], Idle}
  BY <1>1, IdleIsOp, BillingTypes DEF BillingInv
<1>7. stale \in SUBSET Ids /\ \A d \in stale : ~ChargeLocked(d)
  BY <1>1, <1>2
<1> HIDE DEF stale
<1> QED
  BY <1>1, <1>4, <1>5, <1>6, <1>7, ChargesExpire, RestTypes DEF BillingInv

\* The job writes only what is pending and locked by nobody.
LEMMA StaleExpires ==
    ASSUME BillingInv, ExpireStaleCharges
    PROVE  BillingInv'
<1> DEFINE stale == {c \in Ids : charges[c].status = "pending" /\ charges[c].expiresAt < now}
<1>1. /\ \A c \in stale : ~ChargeLocked(c)
      /\ charges' = [c \in Ids |-> IF c \in stale THEN [charges[c] EXCEPT !.status = "expired"]
                                                  ELSE charges[c]]
      /\ jobStep' = "create"
      /\ UNCHANGED <<milestone, now, tenants, paid, credited, op, faults>>
  BY DEF ExpireStaleCharges
<1>2. stale \in SUBSET Ids
  OBVIOUS
<1> HIDE DEF stale
<1>3. /\ Ids = 1..Len(charges) /\ Len(charges) \in Nat
      /\ \A c \in Ids : charges[c] \in ChargeRow
  BY BillingTypes DEF BillingInv
<1>4. \A c \in Ids : [charges[c] EXCEPT !.status = "expired"] \in ChargeRow
  BY <1>3 DEF ChargeRow
<1>5. charges' \in Seq(ChargeRow) /\ Len(charges') = Len(charges) /\ Ids' = Ids
  BY <1>1, <1>3, <1>4 DEF Ids
<1>6. \A c \in Ids : /\ charges'[c].tenant = charges[c].tenant
                     /\ charges'[c].status = IF c \in stale THEN "expired" ELSE charges[c].status
  BY <1>1, <1>3 DEF ChargeRow
<1>7. op' \in [Callers -> Op] /\ \A v \in Callers : op'[v] \in {op[v], Idle}
  BY <1>1, BillingTypes DEF BillingInv
<1> QED
  BY <1>1, <1>2, <1>5, <1>6, <1>7, ChargesExpire, RestTypes DEF BillingInv

\* The settlement takes a row that is pending and that nobody has.
LEMMA ChargeSettled ==
    ASSUME BillingInv, NEW w \in Callers, NEW c \in Ids, SettleCharge(w, c)
    PROVE  BillingInv'
<1> DEFINE t == charges[c].tenant
           rest == op[w].todo \ {c}
           at == NextBillingCycleEnd(charges[c].plan, tenants[t].subscriptionEndsAt)
           base == tenants[t].subscriptionEndsAt
           next == [Idle EXCEPT !.pc = "extend", !.tenant = t, !.charge = c, !.at = at,
                                !.base = base, !.todo = rest]
<1>1. /\ c \in op[w].todo /\ paid[c] /\ ~ChargeLocked(c)
      /\ Step(w, IF charges[c].status # "pending" THEN Continue(rest) ELSE next)
      /\ UNCHANGED <<milestone, now, tenants, charges, paid, credited, jobStep, faults>>
  BY DEF SettleCharge, IsPaid
<1>2. rest \in SUBSET Ids /\ c \in Nat /\ rest \in SUBSET Nat
  BY BillingTypes DEF BillingInv, RowsRight, CallersRight, CallerRight
<1>3. CASE charges[c].status # "pending"
  <2>1. Step(w, Continue(rest))
    BY <1>1, <1>3
  <2> HIDE DEF rest
  <2> QED
    BY <1>1, <1>2, <2>1, CallerContinues, RestTypes DEF BillingInv
<1>4. CASE charges[c].status = "pending"
  <2>1. t \in Tenants /\ base \in Nat /\ at \in Nat
    <3>1. t \in Tenants /\ charges[c].plan \in Plans
      BY BillingTypes DEF BillingInv, ChargeRow
    <3>2. base \in Nat /\ now \in Nat /\ Cycle[charges[c].plan] \in Nat
      BY <3>1, Bounds, BillingTypes DEF BillingInv, TenantRow
    <3> QED
      BY <3>1, <3>2 DEF NextBillingCycleEnd
  <2>2. Step(w, next)
    BY <1>1, <1>4
  <2> HIDE DEF t, rest, at, base
  <2>3. /\ next \in Op /\ next.pc = "extend" /\ next.tenant = t /\ next.charge = c
        /\ next.todo = rest /\ next.creating = Idle.creating
    BY <1>2, <2>1, IdleIsOp DEF Op
  <2> HIDE DEF next
  <2>4. CallerRight(next)
    BY <1>1, <1>2, <1>4, <2>3 DEF CallerRight, t
  <2>5. \A v \in Callers : v # w /\ Settling(v) => op[v].charge # next.charge
    BY <1>1, <2>3 DEF ChargeLocked, Settling
  <2>6. DOMAIN next.creating \subseteq DOMAIN op[w].creating
    BY <2>3, IdleIsOp
  <2> QED
    BY <1>1, <2>2, <2>3, <2>4, <2>5, <2>6, CallerMoves, RestTypes DEF BillingInv
<1> QED
  BY <1>3, <1>4

\* The milestone is that of a tenant whose charge was paid.
LEMMA SubscriptionExtended ==
    ASSUME BillingInv, NEW w \in Callers, ExtendSubscription(w)
    PROVE  BillingInv'
<1> DEFINE t == op[w].tenant
           next == [op[w] EXCEPT !.pc = "commit"]
<1>1. /\ op[w].pc = "extend" /\ milestone' \in {milestone, milestone \cup {t}} /\ Step(w, next)
      /\ UNCHANGED <<now, tenants, charges, paid, credited, jobStep, faults>>
  BY DEF ExtendSubscription
<1>2. op[w] \in Op /\ CallerRight(op[w])
  BY BillingTypes DEF BillingInv, RowsRight, CallersRight
<1>3. /\ next \in Op /\ next.pc = "commit" /\ next.charge = op[w].charge /\ next.tenant = t
      /\ next.todo = op[w].todo /\ next.creating = op[w].creating
  BY <1>2 DEF Op
<1> HIDE DEF next
<1>4. op[w].charge \in Ids /\ t = charges[op[w].charge].tenant /\ paid[op[w].charge]
  BY <1>1, <1>2 DEF CallerRight
<1>5. t \in Tenants
  BY <1>4, BillingTypes DEF BillingInv, ChargeRow
<1>6. op' \in [Callers -> Op] /\ \A v \in Callers : op'[v] = IF v = w THEN next ELSE op[v]
  BY <1>1, <1>3, StepOp DEF BillingInv
<1>7. BillingTypeOK'
  BY <1>1, <1>5, <1>6 DEF BillingInv, BillingTypeOK
<1>8. RoomKept'
  BY <1>1, <1>3, <1>6, RoomStays
<1>9. CallersRight'
  <2> SUFFICES ASSUME NEW v \in Callers PROVE CallerRight(op[v])'
      BY DEF CallersRight
  <2>1. CASE v = w
    BY <1>1, <1>2, <1>3, <1>6, <2>1 DEF CallerRight, Ids
  <2>2. CASE v # w
    <3>1. CallerRight(op[v]) /\ op'[v] = op[v]
      BY <1>6, <2>2 DEF BillingInv, RowsRight, CallersRight
    <3> QED
      BY <1>1, <3>1 DEF CallerRight, Ids
  <2> QED
    BY <2>1, <2>2
<1>10. OneSettles'
  <2>1. \A v \in Callers : /\ Settling(v)' <=> Settling(v)
                           /\ Settling(v) => op'[v].charge = op[v].charge
    BY <1>1, <1>3, <1>6 DEF Settling
  <2> QED
    BY <2>1 DEF BillingInv, RowsRight, OneSettles
<1>11. CreditsRight'
  BY <1>1 DEF BillingInv, RowsRight, CreditsRight, Ids
<1>12. PaidMilestoneMeansMoney'
  <2> HIDE DEF t
  <2> QED
    BY <1>1, <1>4 DEF BillingInv, RowsRight, PaidMilestoneMeansMoney, Ids
<1> QED
  BY <1>7, <1>8, <1>9, <1>10, <1>11, <1>12 DEF BillingInv, RowsRight

\* The commit: the charge is no longer pending, and credited once.
LEMMA SettlementCommitted ==
    ASSUME BillingInv, NEW w \in Callers, CommitSettle(w)
    PROVE  BillingInv'
<1> DEFINE c == op[w].charge
           t == op[w].tenant
           next == Continue(op[w].todo)
<1>1. /\ op[w].pc = "commit"
      /\ charges' = [charges EXCEPT ![c].status = "paid"]
      /\ tenants' = [tenants EXCEPT ![t].billingStatus = "active", ![t].subscriptionEndsAt = op[w].at]
      /\ credited' = [credited EXCEPT ![c] = @ + 1]
      /\ Step(w, next)
      /\ UNCHANGED <<milestone, now, paid, jobStep, faults>>
  BY DEF CommitSettle
<1>2. op[w] \in Op /\ CallerRight(op[w]) /\ op[w].at \in Nat
  BY BillingTypes DEF BillingInv, RowsRight, CallersRight, Op
<1>3. /\ c \in Ids /\ t = charges[c].tenant /\ charges[c].status = "pending" /\ paid[c]
      /\ op[w].todo \in SUBSET Ids /\ op[w].todo \in SUBSET Nat
  BY <1>1, <1>2, BillingTypes DEF CallerRight, BillingInv
<1>4. /\ next \in Op /\ next.todo \subseteq op[w].todo /\ next.pc \in {"idle", "ask"}
      /\ DOMAIN next.creating = {}
  BY <1>3, ContinueIsOp
<1> HIDE DEF next, c
<1>5. charges \in Seq(ChargeRow) /\ charges[c] \in ChargeRow /\ Ids = 1..Len(charges) /\ Len(charges) \in Nat
  BY <1>3, BillingTypes DEF BillingInv
<1>6. /\ charges' \in Seq(ChargeRow) /\ Len(charges') = Len(charges) /\ Ids' = Ids
      /\ \A d \in Ids : charges'[d] = IF d = c THEN [charges[d] EXCEPT !.status = "paid"]
                                               ELSE charges[d]
  <2>1. [charges[c] EXCEPT !.status = "paid"] \in ChargeRow
    BY <1>5 DEF ChargeRow
  <2> QED
    BY <1>1, <1>3, <1>5, <2>1 DEF Ids
<1>7. \A d \in Ids : /\ charges'[d].tenant = charges[d].tenant
                     /\ charges'[d].status = IF d = c THEN "paid" ELSE charges[d].status
  BY <1>3, <1>5, <1>6 DEF ChargeRow
<1>8. op' \in [Callers -> Op] /\ \A v \in Callers : op'[v] = IF v = w THEN next ELSE op[v]
  BY <1>1, <1>4, StepOp DEF BillingInv
<1>9. c \in 1..MaxCharges /\ credited[c] = 0
  <2>1. Len(charges) <= MaxCharges
    BY RoomTypes
  <2> QED
    BY <1>3, <1>5, <2>1, Bounds DEF BillingInv, RowsRight, CreditsRight
<1>10. /\ credited' \in [1..MaxCharges -> Nat]
       /\ \A d \in 1..MaxCharges : credited'[d] = IF d = c THEN 1 ELSE credited[d]
  BY <1>1, <1>9, BillingTypes DEF BillingInv
<1>11. tenants' \in [Tenants -> TenantRow]
  <2>1. t \in Tenants /\ tenants \in [Tenants -> TenantRow]
    BY <1>3, <1>5, RestTypes DEF BillingInv, ChargeRow
  <2> HIDE DEF t
  <2>2. [tenants[t] EXCEPT !.billingStatus = "active", !.subscriptionEndsAt = op[w].at] \in TenantRow
    BY <1>2, <2>1 DEF TenantRow
  <2> QED
    BY <1>1, <2>1, <2>2
<1>12. BillingTypeOK'
  BY <1>1, <1>6, <1>8, <1>10, <1>11 DEF BillingInv, BillingTypeOK
<1>13. RoomKept'
  BY <1>4, <1>6, <1>8, RoomStays
<1>14. CallersRight'
  <2> SUFFICES ASSUME NEW v \in Callers PROVE CallerRight(op[v])'
      BY DEF CallersRight
  <2>1. CASE v = w
    BY <1>3, <1>4, <1>6, <1>8, <2>1 DEF CallerRight
  <2>2. CASE v # w
    <3>1. CallerRight(op[v]) /\ op'[v] = op[v]
      BY <1>8, <2>2 DEF BillingInv, RowsRight, CallersRight
    <3>2. Settling(v) => op[v].charge # c
      BY <1>1, <2>2 DEF BillingInv, RowsRight, OneSettles, Settling, c
    <3> QED
      BY <1>1, <1>6, <1>7, <3>1, <3>2 DEF CallerRight, Settling
  <2> QED
    BY <2>1, <2>2
<1>15. OneSettles'
  <2>1. \A v \in Callers : Settling(v)' => Settling(v) /\ op'[v] = op[v]
    BY <1>4, <1>8 DEF Settling
  <2> QED
    BY <2>1 DEF BillingInv, RowsRight, OneSettles
<1>16. CreditsRight'
  <2>1. Ids \subseteq 1..MaxCharges
    BY <1>5, RoomTypes
  <2> QED
    BY <1>1, <1>3, <1>6, <1>7, <1>10, <2>1 DEF BillingInv, RowsRight, CreditsRight
<1>17. PaidMilestoneMeansMoney'
  BY <1>1, <1>6, <1>7 DEF BillingInv, RowsRight, PaidMilestoneMeansMoney
<1> QED
  BY <1>12, <1>13, <1>14, <1>15, <1>16, <1>17 DEF BillingInv, RowsRight

\* An error ends what the call was at.
LEMMA CallFails ==
    ASSUME BillingInv, NEW w \in Callers, Fail(w)
    PROVE  BillingInv'
<1>1. /\ faults' \in 0..MaxFaults
      /\ UNCHANGED <<milestone, now, tenants, charges, paid, credited, jobStep>>
  BY Bounds, RestTypes DEF Fail, Fault, BillingInv
<1>2. op[w].todo \in SUBSET Ids
  BY DEF BillingInv, RowsRight, CallersRight, CallerRight
<1>3. PICK todo \in SUBSET Ids : Step(w, Continue(todo))
  <2>1. CASE op[w].pc = "ask"
    <3>1. PICK c \in op[w].todo : Step(w, Continue(op[w].todo \ {c}))
      BY <2>1 DEF Fail
    <3>2. op[w].todo \ {c} \in SUBSET Ids
      BY <1>2
    <3> QED
      BY <3>1, <3>2
  <2>2. CASE op[w].pc # "ask"
    BY <1>2, <2>2 DEF Fail
  <2> QED
    BY <2>1, <2>2
<1> QED
  BY <1>1, <1>3, CallerContinues, RestTypes DEF BillingInv

\* All calls end at once.
LEMMA ServerCrashes ==
    ASSUME BillingInv, Crash
    PROVE  BillingInv'
<1>1. /\ op' = [w \in Callers |-> Idle] /\ jobStep' = "create" /\ faults' \in 0..MaxFaults
      /\ UNCHANGED <<milestone, now, tenants, charges, paid, credited>>
  BY Bounds, RestTypes DEF Crash, Fault, BillingInv
<1>2. op' \in [Callers -> Op] /\ \A v \in Callers : op'[v] \in {op[v], Idle}
  BY <1>1, IdleIsOp
<1>3. {} \in SUBSET Ids /\ Ids' = Ids /\ charges' \in Seq(ChargeRow) /\ Len(charges') = Len(charges)
  BY <1>1, BillingTypes DEF Ids, BillingInv
<1> QED
  BY <1>1, <1>2, <1>3, ChargesExpire

-----------------------------------------------------------------------------
(* All steps. *)

\* Nothing is there at the start.
LEMMA BillingInitially == BillingInit => BillingInv
<1> SUFFICES ASSUME BillingInit PROVE BillingInv
    OBVIOUS
<1>1. charges = <<>> /\ Ids = {} /\ milestone = {} /\ op = [w \in Callers |-> Idle]
  BY DEF BillingInit, Ids
<1>2. BillingTypeOK
  <2>1. NewTenant \in TenantRow /\ MigratedTenant \in TenantRow
    <3>1. now + TrialTime \in Nat
      BY Bounds DEF BillingInit
    <3> QED
      BY <3>1 DEF NewTenant, MigratedTenant, TenantRow, NoDate, BillingInit
  <2>2. tenants \in [Tenants -> TenantRow]
    BY <2>1 DEF BillingInit
  <2>3. paid \in [1..MaxCharges -> BOOLEAN]
    BY Zenon DEF BillingInit
  <2> QED
    BY <1>1, <2>2, <2>3, IdleIsOp, Bounds DEF BillingInit, BillingTypeOK
<1>3. RoomKept
  <2>1. Reserved = {}
    BY <1>1, IdleIsOp DEF Reserved
  <2> QED
    BY <1>1, <2>1, FS_EmptySet, Bounds DEF RoomKept
<1>4. RowsRight
  BY <1>1, IdleIsOp
  DEF BillingInit, RowsRight, CallersRight, CallerRight, OneSettles, Settling, CreditsRight,
      PaidMilestoneMeansMoney
<1> QED
  BY <1>2, <1>3, <1>4 DEF BillingInv

\* The step of one call.
LEMMA CallerSteps ==
    ASSUME BillingInv, NEW w \in Callers, CallerStep(w)
    PROVE  BillingInv'
<1>1. CASE CommitCharges(w)
  BY <1>1, ChargesCommitted
<1>2. CASE ExpireVerified(w)
  BY <1>2, VerifiedExpires
<1>3. CASE ExtendSubscription(w)
  BY <1>3, SubscriptionExtended
<1>4. CASE CommitSettle(w)
  BY <1>4, SettlementCommitted
<1>5. ASSUME NEW c \in Ids, SettleCharge(w, c) PROVE BillingInv'
  BY <1>5, ChargeSettled
<1>6. ASSUME NEW c \in Ids, AskInVain(w, c) PROVE BillingInv'
  <2>1. op[w].todo \ {c} \in SUBSET Ids
    BY DEF BillingInv, RowsRight, CallersRight, CallerRight
  <2> QED
    BY <1>6, <2>1, CallerContinues, RestTypes DEF AskInVain, BillingInv
<1> QED
  BY <1>1, <1>2, <1>3, <1>4, <1>5, <1>6 DEF CallerStep

\* The steps of the job.
LEMMA JobTicks ==
    ASSUME BillingInv, JobTick
    PROVE  BillingInv'
<1>1. CASE GenerateRenewalCharges
  <2>1. PICK accepted \in SUBSET {t \in Tenants : ShouldGenerateRenewalCharge(t)} :
            IF accepted = {} THEN UNCHANGED <<milestone, now, tenants, charges, paid, credited, op, faults>>
                             ELSE BeginCharges(Job, accepted)
    BY <1>1 DEF GenerateRenewalCharges
  <2>2. jobStep' = "confirm" /\ accepted \in SUBSET Tenants
    BY <1>1 DEF GenerateRenewalCharges
  <2> QED
    BY <2>1, <2>2, Bounds, ChargesBegin, NothingMoves, RestTypes DEF BillingInv
<1>2. CASE ConfirmPendingCharges
  <2>1. {c \in Ids : Payable(c)} \in SUBSET Ids
    OBVIOUS
  <2> QED
    BY <1>2, <2>1, Bounds, CallerContinues, RestTypes DEF ConfirmPendingCharges, BillingInv
<1>3. CASE ExpireStaleCharges
  BY <1>3, StaleExpires
<1> QED
  BY <1>1, <1>2, <1>3 DEF JobTick

\* Every step keeps the invariant.
LEMMA BillingKept == BillingInv /\ [BillingNext]_billingVars => BillingInv'
<1> SUFFICES ASSUME BillingInv, [BillingNext]_billingVars PROVE BillingInv'
    OBVIOUS
<1>1. ASSUME NEW t \in Tenants, NEW p \in Plans, ChoosePlan(t, p) PROVE BillingInv'
  <2>1. tenants' \in [Tenants -> TenantRow]
    BY <1>1, RestTypes DEF ChoosePlan, BillingInv, TenantRow
  <2> QED
    BY <1>1, <2>1, NothingMoves, RestTypes DEF ChoosePlan, BillingInv
<1>2. ASSUME NEW w \in Workers, NEW t \in Tenants, GetOrCreateCharge(w, t) PROVE BillingInv'
  <2>1. {t} \in SUBSET Tenants /\ w \in Callers
    BY Bounds
  <2> QED
    BY <1>2, <2>1, ChargesBegin, RestTypes DEF GetOrCreateCharge, BillingInv
<1>3. ASSUME NEW w \in Workers, NEW c \in Ids, VerifyCharge(w, c) PROVE BillingInv'
  BY <1>3, ChargeVerified
<1>4. ASSUME NEW c \in Ids, Pay(c) PROVE BillingInv'
  BY <1>4, ChargePaid
<1>5. ASSUME NEW w \in Callers, CallerStep(w) \/ Fail(w) PROVE BillingInv'
  BY <1>5, CallerSteps, CallFails
<1>6. CASE JobTick
  BY <1>6, JobTicks
<1>7. CASE Crash
  BY <1>7, ServerCrashes
<1>8. CASE Tick
  <2>1. now' \in Nat
    BY <1>8, RestTypes DEF Tick, BillingInv
  <2> QED
    BY <1>8, <2>1, NothingMoves, RestTypes DEF Tick, BillingInv
<1>9. CASE UNCHANGED billingVars
  BY <1>9, NothingMoves, RestTypes DEF billingVars, BillingInv
<1> QED
  BY <1>1, <1>2, <1>3, <1>4, <1>5, <1>6, <1>7, <1>8, <1>9 DEF BillingNext

\* No charge is credited twice, and none without money, however many screens
\* and jobs confirm it at once, fail and crash (settle, verifyCharge and
\* confirmPendingCharges of BillingService).
THEOREM CreditedOnceAlways == BillingSpec => []CreditedOnce
<1>1. BillingInv => CreditedOnce
  BY DEF BillingInv, RowsRight, CreditsRight, CreditedOnce
<1> QED
  BY <1>1, BillingInitially, BillingKept, PTL DEF BillingSpec

\* The milestone of the first payment, which outlives a rollback, is only ever
\* that of a tenant that has paid (extendSubscription, marcar).
THEOREM PaidMilestoneMeansMoneyAlways == BillingSpec => []PaidMilestoneMeansMoney
<1>1. BillingInv => PaidMilestoneMeansMoney
  BY DEF BillingInv, RowsRight
<1> QED
  BY <1>1, BillingInitially, BillingKept, PTL DEF BillingSpec

-----------------------------------------------------------------------------
(* What a payment is worth. *)

\* A settlement under way has a new end that is a whole cycle from now, and from
\* the end it was computed from.
DatesRight ==
    \A w \in Callers : Settling(w) =>
        /\ op[w].at >= now + Cycle[charges[op[w].charge].plan]
        /\ op[w].at >= op[w].base + Cycle[charges[op[w].charge].plan]

\* Settlements that go on keep what they computed.
LEMMA DatesStay ==
    ASSUME BillingInv, DatesRight, now' = now,
           \A c \in Ids : charges'[c].plan = charges[c].plan,
           \A v \in Callers : Settling(v)' => /\ Settling(v) /\ op'[v].charge = op[v].charge
                                              /\ op'[v].at = op[v].at /\ op'[v].base = op[v].base
    PROVE  DatesRight'
<1> SUFFICES ASSUME NEW v \in Callers, Settling(v)'
             PROVE  /\ op'[v].at >= now + Cycle[charges'[op'[v].charge].plan]
                    /\ op'[v].at >= op'[v].base + Cycle[charges'[op'[v].charge].plan]
    BY DEF DatesRight
<1>1. Settling(v) /\ op'[v].charge = op[v].charge /\ op'[v].at = op[v].at /\ op'[v].base = op[v].base
  OBVIOUS
<1>2. op[v].charge \in Ids
  BY <1>1 DEF BillingInv, RowsRight, CallersRight, CallerRight, Settling
<1> QED
  BY <1>1, <1>2 DEF DatesRight

\* A call that stops, asks or waits to expire a charge settles none.
LEMMA StepStays ==
    ASSUME BillingInv, DatesRight, NEW w \in Callers, NEW next \in Op, Step(w, next), now' = now,
           \A c \in Ids : charges'[c].plan = charges[c].plan,
           next.pc \notin {"extend", "commit"}
    PROVE  DatesRight'
<1>1. \A v \in Callers : op'[v] = IF v = w THEN next ELSE op[v]
  BY StepOp DEF BillingInv
<1> QED
  BY <1>1, DatesStay DEF Settling

\* A new settlement computes its dates from now.
LEMMA SettlementDates ==
    ASSUME BillingInv, DatesRight, NEW w \in Callers, NEW c \in Ids, SettleCharge(w, c)
    PROVE  DatesRight'
<1> DEFINE t == charges[c].tenant
           rest == op[w].todo \ {c}
           base == tenants[t].subscriptionEndsAt
           at == NextBillingCycleEnd(charges[c].plan, base)
           next == [Idle EXCEPT !.pc = "extend", !.tenant = t, !.charge = c, !.at = at,
                                !.base = base, !.todo = rest]
<1>1. /\ Step(w, IF charges[c].status # "pending" THEN Continue(rest) ELSE next)
      /\ now' = now /\ charges' = charges
  BY DEF SettleCharge
<1>2. rest \in SUBSET Nat /\ c \in Nat
  BY BillingTypes DEF BillingInv, RowsRight, CallersRight, CallerRight
<1>3. CASE charges[c].status # "pending"
  <2>1. Step(w, Continue(rest))
    BY <1>1, <1>3
  <2> HIDE DEF rest
  <2> QED
    BY <1>1, <1>2, <2>1, ContinueIsOp, StepStays
<1>4. CASE charges[c].status = "pending"
  <2>1. t \in Tenants /\ charges[c].plan \in Plans
    BY BillingTypes DEF BillingInv, ChargeRow
  <2>2. base \in Nat /\ now \in Nat
    BY <2>1, BillingTypes DEF BillingInv, TenantRow
  <2>3. Cycle[charges[c].plan] \in Nat /\ Cycle[charges[c].plan] > 0
    BY <2>1, BillingAssumption
  <2> HIDE DEF base
  <2>4. at \in Nat /\ at >= now + Cycle[charges[c].plan] /\ at >= base + Cycle[charges[c].plan]
    BY <2>2, <2>3 DEF NextBillingCycleEnd
  <2>5. Step(w, next)
    BY <1>1, <1>4
  <2> HIDE DEF t, rest, at
  <2>6. next \in Op /\ next.charge = c /\ next.at = at /\ next.base = base
    BY <1>2, <2>1, <2>2, <2>4, IdleIsOp DEF Op
  <2> HIDE DEF next
  <2>7. \A v \in Callers : op'[v] = IF v = w THEN next ELSE op[v]
    BY <2>5, <2>6, StepOp DEF BillingInv
  <2> QED
    BY <1>1, <2>4, <2>6, <2>7 DEF DatesRight, Settling
<1> QED
  BY <1>3, <1>4

\* The writes of rows leave the plan of a charge.
LEMMA PlansStay ==
    ASSUME BillingInv, NEW w \in Callers,
           ExpireVerified(w) \/ CommitSettle(w) \/ ExpireStaleCharges \/ CommitCharges(w)
    PROVE  \A c \in Ids : charges'[c].plan = charges[c].plan
<1>1. charges \in Seq(ChargeRow) /\ Ids = 1..Len(charges) /\ Len(charges) \in Nat
      /\ \A c \in Ids : charges[c] \in ChargeRow
  BY BillingTypes DEF BillingInv
<1>2. CASE ExpireVerified(w) \/ CommitSettle(w) \/ ExpireStaleCharges
  <2>1. ASSUME NEW k, NEW status, charges' = [charges EXCEPT ![k].status = status], NEW c \in Ids
        PROVE  charges'[c].plan = charges[c].plan
    <3>1. charges'[c] = IF c = k THEN [charges[c] EXCEPT !.status = status] ELSE charges[c]
      BY <2>1 DEF Ids
    <3>2. charges[c] \in ChargeRow
      BY <1>1, <2>1
    <3> QED
      BY <3>1, <3>2 DEF ChargeRow
  <2>2. CASE ExpireVerified(w)
    BY <2>1, <2>2 DEF ExpireVerified
  <2>3. CASE CommitSettle(w)
    BY <2>1, <2>3 DEF CommitSettle
  <2>4. CASE ExpireStaleCharges
    BY <1>1, <2>4 DEF ExpireStaleCharges, ChargeRow
  <2> QED
    BY <1>2, <2>2, <2>3, <2>4
<1>3. CASE CommitCharges(w)
  <2> DEFINE some == DOMAIN op[w].creating
  <2>1. some \in SUBSET Tenants
    <3>1. op[w].creating \in Creations
      BY BillingTypes DEF BillingInv, Op
    <3> QED
      BY <3>1 DEF Creations
  <2>2. Cardinality(some) \in Nat
    BY <2>1, ReservedByOne
  <2> HIDE DEF some
  <2>3. PICK order \in [1..Cardinality(some) -> some] :
            charges' = charges \o [i \in DOMAIN order |->
                [tenant |-> order[i], plan |-> op[w].creating[order[i]],
                 status |-> "pending", expiresAt |-> op[w].at]]
    BY <1>3 DEF CommitCharges, some
  <2> DEFINE new == [i \in 1..Cardinality(some) |->
                [tenant |-> order[i], plan |-> op[w].creating[order[i]],
                 status |-> "pending", expiresAt |-> op[w].at]]
             Row == {new[i] : i \in 1..Cardinality(some)}
  <2>4. new \in Seq(Row) /\ charges' = charges \o new
    <3>1. DOMAIN order = 1..Cardinality(some)
      BY <2>3
    <3>2. charges' = charges \o new
      BY <2>3, <3>1, Zenon
    <3>3. new \in [1..Cardinality(some) -> Row]
      BY Zenon
    <3> HIDE DEF new, Row
    <3>4. new \in Seq(Row)
      BY <2>2, <3>3
    <3> QED
      BY <3>2, <3>4
  <2> HIDE DEF new, Row
  <2>5. \A c \in Ids : charges'[c] = charges[c]
    BY <1>1, <2>4
  <2> QED
    BY <2>5
<1> QED
  BY <1>2, <1>3

\* Every step keeps the dates: none passes while a settlement is under way.
LEMMA DatesKept == BillingInv /\ DatesRight /\ [BillingNext]_billingVars => DatesRight'
<1> SUFFICES ASSUME BillingInv, DatesRight, [BillingNext]_billingVars PROVE DatesRight'
    OBVIOUS
<1>1. ASSUME NEW t \in Tenants, NEW p \in Plans, ChoosePlan(t, p) PROVE DatesRight'
  BY <1>1, DatesStay DEF ChoosePlan, Settling
<1>2. ASSUME NEW w \in Callers, NEW some \in SUBSET Tenants, BeginCharges(w, some) PROVE DatesRight'
  <2> DEFINE next == [Idle EXCEPT !.pc = "create", !.creating = [t \in some |-> ChosenPlan(t)],
                                  !.at = now + ChargeTTL]
  <2>1. op' = [op EXCEPT ![w] = next] /\ now' = now /\ charges' = charges
    BY <1>2 DEF BeginCharges, Step
  <2>2. next.pc = "create"
    BY DEF Idle
  <2> HIDE DEF next
  <2>3. \A v \in Callers : op'[v] = IF v = w THEN next ELSE op[v]
    BY <2>1, BillingTypes DEF BillingInv
  <2> QED
    BY <2>1, <2>2, <2>3, DatesStay DEF Settling
<1>3. ASSUME NEW w \in Workers, NEW c \in Ids, VerifyCharge(w, c) PROVE DatesRight'
  <2> DEFINE next == [Idle EXCEPT !.pc = "expire", !.charge = c]
  <2>1. w \in Callers /\ now' = now /\ charges' = charges
        /\ (Step(w, next) \/ Step(w, Continue({c})))
    BY <1>3, Bounds DEF VerifyCharge
  <2>2. c \in Nat
    BY BillingTypes DEF BillingInv
  <2>3. next \in Op /\ next.pc = "expire"
    BY <2>2, IdleIsOp DEF Op
  <2> HIDE DEF next
  <2>4. {c} \in SUBSET Nat
    BY <2>2
  <2> QED
    BY <2>1, <2>3, <2>4, ContinueIsOp, StepStays
<1>4. ASSUME NEW c \in Ids, Pay(c) PROVE DatesRight'
  BY <1>4, DatesStay DEF Pay, Settling
<1>5. ASSUME NEW w \in Callers, CallerStep(w) PROVE DatesRight'
  <2>1. op[w] \in Op /\ op[w].todo \in SUBSET Nat
    BY BillingTypes DEF BillingInv, Op
  <2>2. CASE CommitCharges(w) \/ ExpireVerified(w)
    <3>1. Step(w, Idle) /\ now' = now
      BY <2>2 DEF CommitCharges, ExpireVerified
    <3> QED
      BY <2>2, <3>1, PlansStay, IdleIsOp, StepStays
  <2>3. CASE CommitSettle(w)
    <3>1. Step(w, Continue(op[w].todo)) /\ now' = now
      BY <2>3 DEF CommitSettle
    <3> QED
      BY <2>1, <2>3, <3>1, PlansStay, ContinueIsOp, StepStays
  <2>4. CASE ExtendSubscription(w)
    <3> DEFINE next == [op[w] EXCEPT !.pc = "commit"]
    <3>1. Step(w, next) /\ now' = now /\ charges' = charges /\ op[w].pc = "extend"
      BY <2>4 DEF ExtendSubscription
    <3>2. next \in Op /\ next.charge = op[w].charge /\ next.at = op[w].at /\ next.base = op[w].base
      BY <2>1 DEF Op
    <3> HIDE DEF next
    <3>3. \A v \in Callers : op'[v] = IF v = w THEN next ELSE op[v]
      BY <3>1, <3>2, StepOp DEF BillingInv
    <3> QED
      BY <3>1, <3>2, <3>3, DatesStay DEF Settling
  <2>5. ASSUME NEW c \in Ids, SettleCharge(w, c) PROVE DatesRight'
    BY <2>5, SettlementDates
  <2>6. ASSUME NEW c \in Ids, AskInVain(w, c) PROVE DatesRight'
    <3>1. Step(w, Continue(op[w].todo \ {c})) /\ now' = now /\ charges' = charges
      BY <2>6 DEF AskInVain
    <3>2. op[w].todo \ {c} \in SUBSET Nat
      BY <2>1
    <3> QED
      BY <3>1, <3>2, ContinueIsOp, StepStays
  <2> QED
    BY <1>5, <2>2, <2>3, <2>4, <2>5, <2>6 DEF CallerStep
<1>6. ASSUME NEW w \in Callers, Fail(w) PROVE DatesRight'
  <2>1. op[w].todo \in SUBSET Nat
    BY BillingTypes DEF BillingInv, Op
  <2>2. PICK todo \in SUBSET Nat : Step(w, Continue(todo))
    <3>1. CASE op[w].pc = "ask"
      <4>1. PICK c \in op[w].todo : Step(w, Continue(op[w].todo \ {c}))
        BY <1>6, <3>1 DEF Fail
      <4>2. op[w].todo \ {c} \in SUBSET Nat
        BY <2>1
      <4> QED
        BY <4>1, <4>2
    <3>2. CASE op[w].pc # "ask"
      BY <1>6, <2>1, <3>2 DEF Fail
    <3> QED
      BY <3>1, <3>2
  <2>3. now' = now /\ charges' = charges
    BY <1>6 DEF Fail
  <2> QED
    BY <2>2, <2>3, ContinueIsOp, StepStays
<1>7. CASE GenerateRenewalCharges
  <2>1. PICK accepted \in SUBSET {t \in Tenants : ShouldGenerateRenewalCharge(t)} :
            IF accepted = {} THEN UNCHANGED <<milestone, now, tenants, charges, paid, credited, op, faults>>
                             ELSE BeginCharges(Job, accepted)
    BY <1>7 DEF GenerateRenewalCharges
  <2>2. CASE accepted = {}
    BY <2>1, <2>2, DatesStay DEF Settling
  <2>3. CASE accepted # {}
    BY <1>2, <2>1, <2>3, Bounds
  <2> QED
    BY <2>2, <2>3
<1>8. CASE ConfirmPendingCharges
  <2>1. {c \in Ids : Payable(c)} \in SUBSET Nat
    BY BillingTypes DEF BillingInv
  <2>2. Step(Job, Continue({c \in Ids : Payable(c)})) /\ now' = now /\ charges' = charges
    BY <1>8 DEF ConfirmPendingCharges
  <2> QED
    BY <2>1, <2>2, Bounds, ContinueIsOp, StepStays
<1>9. CASE ExpireStaleCharges
  <2>1. now' = now /\ op' = op
    BY <1>9 DEF ExpireStaleCharges
  <2> QED
    BY <1>9, <2>1, PlansStay, Bounds, DatesStay DEF Settling
<1>10. CASE Crash
  <2>1. op' = [w \in Callers |-> Idle]
    BY <1>10 DEF Crash
  <2>2. \A v \in Callers : ~Settling(v)'
    BY <2>1, IdleIsOp DEF Settling
  <2> QED
    BY <2>2 DEF DatesRight
<1>11. CASE Tick
  BY <1>11 DEF Tick, DatesRight, Settling
<1>12. CASE UNCHANGED billingVars
  BY <1>12, DatesStay DEF billingVars, Settling
<1> QED
  BY <1>1, <1>2, <1>3, <1>4, <1>5, <1>6, <1>7, <1>8, <1>9, <1>10, <1>11, <1>12, Bounds
  DEF BillingNext, JobTick, GetOrCreateCharge

\* Only the commit of a settlement credits, and only its own charge.
LEMMA OnlyCommitCredits ==
    ASSUME BillingInv, [BillingNext]_billingVars, NEW c \in Ids, credited'[c] > credited[c]
    PROVE  \E w \in Callers : CommitSettle(w) /\ op[w].charge = c
<1>1. credited \in [1..MaxCharges -> Nat] /\ c \in 1..MaxCharges
  BY BillingTypes, RoomTypes DEF BillingInv
<1>2. credited' # credited
  <2>1. credited[c] \in Nat
    BY <1>1
  <2> SUFFICES ASSUME credited' = credited PROVE FALSE
      OBVIOUS
  <2>2. credited[c] > credited[c]
    OBVIOUS
  <2> QED
    BY <2>1, <2>2
<1>3. PICK w \in Callers : CommitSettle(w)
  BY <1>2
  DEF BillingNext, CallerStep, JobTick, ChoosePlan, GetOrCreateCharge, BeginCharges, VerifyCharge,
      Pay, CommitCharges, ExpireVerified, ExtendSubscription, SettleCharge, AskInVain, Fail, Crash,
      Tick, GenerateRenewalCharges, ConfirmPendingCharges, ExpireStaleCharges, billingVars
<1>4. op[w].charge = c
  BY <1>1, <1>3 DEF CommitSettle
<1> QED
  BY <1>3, <1>4

\* What the commit writes for the tenant.
LEMMA CommitDates ==
    ASSUME BillingInv, DatesRight, NEW w \in Callers, CommitSettle(w)
    PROVE  LET t == op[w].tenant IN
           /\ t \in Tenants /\ t = charges[op[w].charge].tenant
           /\ tenants'[t].billingStatus = "active" /\ tenants'[t].subscriptionEndsAt = op[w].at
           /\ op[w].at \in Nat /\ op[w].base \in Nat /\ now \in Nat /\ now' = now
           /\ op[w].at >= now + Cycle[charges[op[w].charge].plan] /\ op[w].at > now
           /\ op[w].at >= op[w].base + Cycle[charges[op[w].charge].plan]
<1> DEFINE t == op[w].tenant
<1>1. op[w].pc = "commit" /\ op[w] \in Op /\ CallerRight(op[w])
  BY BillingTypes DEF CommitSettle, BillingInv, RowsRight, CallersRight
<1>2. t \in Tenants /\ t = charges[op[w].charge].tenant
  BY <1>1, BillingTypes DEF CallerRight, BillingInv, ChargeRow
<1>3. /\ tenants' = [tenants EXCEPT ![t].billingStatus = "active", ![t].subscriptionEndsAt = op[w].at]
      /\ now' = now
  BY DEF CommitSettle
<1> HIDE DEF t
<1>4. tenants'[t].billingStatus = "active" /\ tenants'[t].subscriptionEndsAt = op[w].at
  <2>1. tenants \in [Tenants -> TenantRow]
    BY RestTypes DEF BillingInv
  <2>2. tenants'[t] = [tenants[t] EXCEPT !.billingStatus = "active", !.subscriptionEndsAt = op[w].at]
    BY <1>2, <1>3, <2>1
  <2>3. tenants[t] \in TenantRow
    BY <1>2, <2>1
  <2> QED
    BY <2>2, <2>3 DEF TenantRow
<1>5. op[w].at \in Nat /\ op[w].base \in Nat /\ now \in Nat
  BY <1>1, RestTypes DEF BillingInv, Op
<1>6. Cycle[charges[op[w].charge].plan] \in Nat \ {0}
  BY <1>1, BillingTypes, BillingAssumption DEF CallerRight, BillingInv, ChargeRow
<1>7. /\ op[w].at >= now + Cycle[charges[op[w].charge].plan]
      /\ op[w].at >= op[w].base + Cycle[charges[op[w].charge].plan]
  BY <1>1 DEF DatesRight, Settling
<1>8. op[w].at > now
  BY <1>5, <1>6, <1>7
<1> QED
  BY <1>2, <1>3, <1>4, <1>5, <1>7, <1>8 DEF t

\* A payment that is confirmed lets its tenant serve, whatever phase the tenant
\* was in and however long the settlement took (settle, billingPhase).
THEOREM PaymentServesAlways == BillingSpec => PaymentServes
<1>1. BillingInit => BillingInv /\ DatesRight
  BY BillingInitially, IdleIsOp DEF BillingInit, DatesRight
<1>2. BillingInv /\ DatesRight /\ [BillingNext]_billingVars =>
          (\A t \in Tenants : Credits(t) => CanServeCustomers(t)')
  <2> SUFFICES ASSUME BillingInv, DatesRight, [BillingNext]_billingVars, NEW t \in Tenants, Credits(t)
               PROVE  CanServeCustomers(t)'
      OBVIOUS
  <2>1. PICK c \in Ids : charges[c].tenant = t /\ credited'[c] > credited[c]
    BY DEF Credits
  <2>2. PICK w \in Callers : CommitSettle(w) /\ op[w].charge = c
    BY <2>1, OnlyCommitCredits
  <2>3. /\ tenants'[t].billingStatus = "active" /\ tenants'[t].subscriptionEndsAt > now'
        /\ tenants'[t].subscriptionEndsAt \in Nat /\ now' \in Nat
    BY <2>1, <2>2, CommitDates
  <2>4. Deadline(t)' = tenants'[t].subscriptionEndsAt /\ Deadline(t)' # NoDate
    BY <2>3 DEF Deadline, NoDate
  <2>5. Phase(t)' = "active"
    BY <2>3, <2>4 DEF Phase
  <2> QED
    BY <2>5 DEF CanServeCustomers
<1> QED
  BY <1>1, <1>2, BillingKept, DatesKept, PTL DEF BillingSpec, PaymentServes

\* A settled charge adds a whole cycle to what is left, unless another
\* settlement ended between its read and its write (extendSubscription).
THEOREM EveryPaymentExtendsAlways == BillingSpec => EveryPaymentExtends
<1> DEFINE Extends ==
        \A t \in Tenants, c \in Ids :
         /\ charges[c].tenant = t /\ credited'[c] > credited[c]
         /\ ~\E w \in Callers : /\ op[w].pc = "commit" /\ op[w].charge = c
                               /\ op[w].base # tenants[t].subscriptionEndsAt
         => tenants'[t].subscriptionEndsAt >= tenants[t].subscriptionEndsAt + Cycle[charges[c].plan]
<1>1. BillingInit => BillingInv /\ DatesRight
  BY BillingInitially, IdleIsOp DEF BillingInit, DatesRight
<1>2. BillingInv /\ DatesRight /\ [BillingNext]_billingVars => Extends
  <2> SUFFICES ASSUME BillingInv, DatesRight, [BillingNext]_billingVars, NEW t \in Tenants, NEW c \in Ids,
                      charges[c].tenant = t, credited'[c] > credited[c],
                      ~\E w \in Callers : /\ op[w].pc = "commit" /\ op[w].charge = c
                                          /\ op[w].base # tenants[t].subscriptionEndsAt
               PROVE  tenants'[t].subscriptionEndsAt >=
                          tenants[t].subscriptionEndsAt + Cycle[charges[c].plan]
      OBVIOUS
  <2>1. PICK w \in Callers : CommitSettle(w) /\ op[w].charge = c
    BY OnlyCommitCredits
  <2>2. op[w].base = tenants[t].subscriptionEndsAt
    BY <2>1 DEF CommitSettle
  <2> QED
    BY <2>1, <2>2, CommitDates
<1> QED
  BY <1>1, <1>2, BillingKept, DatesKept, PTL DEF BillingSpec, EveryPaymentExtends

-----------------------------------------------------------------------------
(* Billing implements TenantLedger.  All but four actions leave the account *)
(* as it is: what they write, the statuses of charges and the phases of      *)
(* calls, the ledger does not show.                                          *)

LedgerStep == Ledger!Next \/ UNCHANGED Ledger!vars

\* Nothing that the ledger shows is written.
LEMMA LedgerStutters ==
    ASSUME UNCHANGED <<now, paid, credited>>, Bills' = Bills, Until' = Until
    PROVE  LedgerStep
  BY DEF LedgerStep, Ledger!vars, Received, Credited

\* Rows and ends that stay are the same bills and the same account.
LEMMA AccountsStay ==
    ASSUME UNCHANGED <<charges, tenants>>
    PROVE  Bills' = Bills /\ Until' = Until
  BY DEF Bills, Until, Ids

\* The bills are a sequence, one for each row.
LEMMA BillsOfCharges ==
    ASSUME BillingTypeOK
    PROVE  Bills \in Seq(Ledger!Bill) /\ Len(Bills) = Len(charges) /\ DOMAIN Bills = Ids
<1>1. Ids = 1..Len(charges) /\ Len(charges) \in Nat /\ \A c \in Ids : charges[c] \in ChargeRow
  BY BillingTypes
<1>2. Bills \in [1..Len(charges) -> Ledger!Bill]
  BY <1>1 DEF Bills, ChargeRow, Ledger!Bill
<1> QED
  BY <1>1, <1>2

\* A status that is written leaves the bills.
LEMMA WritesKeepBills ==
    ASSUME BillingInv,
           \/ \E w \in Callers : ExpireVerified(w) \/ CommitSettle(w)
           \/ ExpireStaleCharges
    PROVE  Bills' = Bills
<1>1. Ids = 1..Len(charges) /\ \A c \in Ids : charges[c] \in ChargeRow
  BY BillingTypes DEF BillingInv
<1>2. SUFFICES /\ Ids' = Ids
               /\ \A c \in Ids : /\ charges'[c].tenant = charges[c].tenant
                                 /\ charges'[c].plan = charges[c].plan
  BY DEF Bills
<1>3. ASSUME NEW k, NEW status, charges' = [charges EXCEPT ![k].status = status]
      PROVE  /\ Ids' = Ids
             /\ \A c \in Ids : /\ charges'[c].tenant = charges[c].tenant
                               /\ charges'[c].plan = charges[c].plan
  <2>1. \A c \in Ids :
            charges'[c] = IF c = k THEN [charges[c] EXCEPT !.status = status] ELSE charges[c]
    BY <1>3 DEF Ids
  <2> QED
    BY <1>1, <1>3, <2>1 DEF ChargeRow, Ids
<1>4. CASE ExpireStaleCharges
  BY <1>1, <1>4 DEF ExpireStaleCharges, ChargeRow, Ids
<1>5. CASE \E w \in Callers : ExpireVerified(w) \/ CommitSettle(w)
  BY <1>3, <1>5 DEF ExpireVerified, CommitSettle
<1> QED
  BY <1>4, <1>5

\* A plan that is chosen leaves the end of the subscription.
LEMMA ChoiceKeepsEnds ==
    ASSUME BillingInv, NEW t \in Tenants, NEW p \in Plans, ChoosePlan(t, p)
    PROVE  Until' = Until
<1>1. tenants \in [Tenants -> TenantRow] /\ tenants' = [tenants EXCEPT ![t].billingPlan = p]
  BY RestTypes DEF BillingInv, ChoosePlan
<1>2. \A u \in Tenants : tenants'[u].subscriptionEndsAt = tenants[u].subscriptionEndsAt
  <2> SUFFICES ASSUME NEW u \in Tenants
               PROVE  tenants'[u].subscriptionEndsAt = tenants[u].subscriptionEndsAt
      OBVIOUS
  <2>1. tenants'[u] = IF u = t THEN [tenants[u] EXCEPT !.billingPlan = p] ELSE tenants[u]
    BY <1>1
  <2>2. tenants[u] \in TenantRow
    BY <1>1
  <2> QED
    BY <2>1, <2>2 DEF TenantRow
<1> QED
  BY <1>2 DEF Until

\* Each tenant that a call creates a charge for has one place in their order.
LEMMA OnePlaceEach ==
    ASSUME NEW some \in SUBSET Tenants, NEW order \in [1..Cardinality(some) -> some],
           {order[i] : i \in 1..Cardinality(some)} = some
    PROVE  \A i, j \in 1..Cardinality(some) : order[i] = order[j] => i = j
<1> DEFINE n == Cardinality(some)
<1>1. n \in Nat
  BY ReservedByOne
<1> HIDE DEF n
<1>2. order \in [1..n -> some] /\ \A t \in some : \E i \in 1..n : order[i] = t
  BY DEF n
<1>3. order \in Surjection(1..n, some)
  BY <1>2 DEF Surjection
<1>4. IsFiniteSet(1..n) /\ Cardinality(1..n) = n
  <2>1. 1 \in Int /\ n \in Int
    BY <1>1
  <2>2. /\ IsFiniteSet(1..n)
        /\ Cardinality(1..n) = IF 1 > n THEN 0 ELSE n - 1 + 1
    BY <2>1, FS_Interval, Zenon
  <2> QED
    BY <1>1, <2>2
<1>5. order \in Injection(1..n, some)
  BY <1>3, <1>4, FS_Surjection DEF n
<1> QED
  BY <1>5 DEF Injection, IsInjective, n

\* The charges that a call inserts are bills that are issued.
LEMMA InsertsAreIssued ==
    ASSUME BillingInv, NEW w \in Callers, CommitCharges(w)
    PROVE  LedgerStep
<1> DEFINE some == DOMAIN op[w].creating
           n == Cardinality(some)
<1>1. some \in SUBSET Tenants /\ \A t \in some : op[w].creating[t] \in Plans
  <2>1. op[w].creating \in Creations
    BY BillingTypes DEF BillingInv, Op
  <2> QED
    BY <2>1 DEF Creations
<1>2. n \in Nat
  BY <1>1, ReservedByOne
<1>3. PICK order \in [1..n -> some] :
          /\ {order[i] : i \in DOMAIN order} = some
          /\ charges' = charges \o [i \in DOMAIN order |->
                 [tenant |-> order[i], plan |-> op[w].creating[order[i]],
                  status |-> "pending", expiresAt |-> op[w].at]]
  BY DEF CommitCharges
<1>4. UNCHANGED <<now, paid, credited, tenants>> /\ BillingTypeOK'
  BY ChargesCommitted DEF CommitCharges, BillingInv
<1>5. \A i, j \in 1..n : order[i] = order[j] => i = j
  BY <1>1, <1>3, OnePlaceEach
<1> DEFINE rows == [i \in 1..n |-> [tenant |-> order[i], plan |-> op[w].creating[order[i]],
                                    status |-> "pending", expiresAt |-> op[w].at]]
<1>6. rows \in Seq(ChargeRow) /\ Len(rows) = n /\ \A i \in 1..n : rows[i].tenant = order[i]
  <2>1. op[w].at \in Nat
    BY BillingTypes DEF BillingInv, Op
  <2>2. \A i \in 1..n : rows[i] \in ChargeRow /\ rows[i].tenant = order[i]
    BY <1>1, <2>1 DEF ChargeRow
  <2> QED
    BY <1>2, <2>2
<1>7. charges' = charges \o rows
  BY <1>3
<1> HIDE DEF rows, some, n
<1>8. /\ Ids = 1..Len(charges) /\ Ids' = 1..Len(charges) + n /\ Len(charges) \in Nat
      /\ \A c \in Ids : charges'[c] = charges[c]
      /\ \A c \in Ids' \ Ids : /\ c - Len(charges) \in 1..n
                               /\ charges'[c] = rows[c - Len(charges)]
  <2>1. charges \in Seq(ChargeRow) /\ Len(charges) \in Nat /\ Ids = 1..Len(charges)
    BY BillingTypes DEF BillingInv
  <2>2. charges' \in Seq(ChargeRow) /\ Len(charges') = Len(charges) + n
    BY <1>6, <1>7, <2>1
  <2> QED
    BY <1>2, <1>6, <1>7, <2>1, <2>2 DEF Ids
<1>9. DOMAIN Bills = Ids /\ (DOMAIN Bills)' = Ids' /\ Bills' \in Seq(Ledger!Bill)
  <2>1. (BillingTypeOK => Bills \in Seq(Ledger!Bill))'
    BY BillsOfCharges, PTL
  <2> QED
    BY <1>4, <2>1, BillsOfCharges DEF BillingInv, Bills
<1>10. \A c \in Ids : c \in Ids' /\ Bills'[c] = Bills[c]
  BY <1>2, <1>8 DEF Bills
<1>11. \A c, d \in Ids' \ Ids : Bills'[c].tenant = Bills'[d].tenant => c = d
  <2>1. \A c \in Ids' \ Ids : Bills'[c].tenant = order[c - Len(charges)]
    BY <1>6, <1>8 DEF Bills
  <2> SUFFICES ASSUME NEW c \in Ids' \ Ids, NEW d \in Ids' \ Ids,
                      Bills'[c].tenant = Bills'[d].tenant
               PROVE  c = d
      OBVIOUS
  <2>2. /\ c - Len(charges) \in 1..n /\ d - Len(charges) \in 1..n
        /\ c \in Int /\ d \in Int /\ Len(charges) \in Int
    BY <1>2, <1>8
  <2>3. order[c - Len(charges)] = order[d - Len(charges)]
    BY <2>1
  <2>4. c - Len(charges) = d - Len(charges)
    BY <1>5, <2>2, <2>3
  <2> QED
    BY <2>2, <2>4
<1>12. Until' = Until /\ Received' = Received /\ Credited' = Credited
  BY <1>4 DEF Until, Received, Credited
<1>13. Ledger!Issue
  BY <1>4, <1>9, <1>10, <1>11, <1>12 DEF Ledger!Issue
<1> QED
  BY <1>13 DEF Ledger!Next, LedgerStep

\* Money that arrives is received.
LEMMA PaymentsAreReceived ==
    ASSUME BillingInv, NEW c \in Ids, Pay(c)
    PROVE  LedgerStep
<1>1. /\ ~paid[c] /\ paid' = [paid EXCEPT ![c] = TRUE]
      /\ UNCHANGED <<now, tenants, charges, credited>>
  BY DEF Pay
<1>2. paid \in [1..MaxCharges -> BOOLEAN] /\ c \in 1..MaxCharges
  BY BillingTypes, RoomTypes DEF BillingInv
<1>3. \A d \in 1..MaxCharges : paid'[d] <=> d = c \/ paid[d]
  BY <1>1, <1>2, Zenon
<1>4. Received' = Received \cup {c} /\ c \notin Received
  BY <1>1, <1>2, <1>3 DEF Received
<1>5. Credited' = Credited /\ Bills' = Bills /\ Until' = Until
  BY <1>1, AccountsStay DEF Credited
<1>6. c \in DOMAIN Bills
  BY BillsOfCharges DEF BillingInv
<1>7. Ledger!Receive(c)
  BY <1>1, <1>4, <1>5 DEF Ledger!Receive
<1> QED
  BY <1>6, <1>7 DEF Ledger!Next, LedgerStep

\* A settlement that commits is a credit, of a charge that was paid and not
\* credited, and worth a whole cycle from that moment.
LEMMA SettlementsAreCredits ==
    ASSUME BillingInv, DatesRight, NEW w \in Callers, CommitSettle(w)
    PROVE  LedgerStep
<1> DEFINE c == op[w].charge
           t == op[w].tenant
<1>1. /\ tenants' = [tenants EXCEPT ![t].billingStatus = "active", ![t].subscriptionEndsAt = op[w].at]
      /\ credited' = [credited EXCEPT ![c] = @ + 1]
      /\ UNCHANGED <<now, paid>>
  BY DEF CommitSettle
<1>2. /\ c \in Ids /\ paid[c] /\ charges[c].status = "pending" /\ t = charges[c].tenant
      /\ t \in Tenants
  <2>1. CallerRight(op[w]) /\ op[w].pc = "commit"
    BY DEF CommitSettle, BillingInv, RowsRight, CallersRight
  <2> QED
    BY <2>1, CommitDates DEF CallerRight
<1>3. /\ tenants'[t].subscriptionEndsAt = op[w].at /\ op[w].at \in Nat
      /\ op[w].at >= now + Cycle[charges[c].plan]
  BY CommitDates
<1> HIDE DEF c, t
<1>4. c \in 1..MaxCharges /\ credited[c] = 0 /\ credited \in [1..MaxCharges -> Nat]
  BY <1>2, BillingTypes, RoomTypes DEF BillingInv, RowsRight, CreditsRight
<1>5. \A d \in 1..MaxCharges : credited'[d] = IF d = c THEN 1 ELSE credited[d]
  BY <1>1, <1>4
<1>6. Credited' = Credited \cup {c} /\ c \notin Credited /\ c \in Received /\ Received' = Received
  BY <1>1, <1>2, <1>4, <1>5 DEF Credited, Received
<1>7. Bills' = Bills /\ c \in DOMAIN Bills /\ Bills[c].tenant = t /\ Bills[c].plan = charges[c].plan
  BY <1>2, WritesKeepBills, BillsOfCharges DEF BillingInv, Bills
<1>8. \A u \in Tenants \ {t} : tenants'[u] = tenants[u]
  BY <1>1, RestTypes DEF BillingInv
<1>9. /\ \A u \in Tenants \ {t} : Until'[u] = Until[u]
      /\ Until'[t] = op[w].at
  BY <1>2, <1>3, <1>8 DEF Until
<1>10. Until' \in [Tenants -> Nat]
  <2>1. \A u \in Tenants : tenants[u].subscriptionEndsAt \in Nat
    BY RestTypes DEF BillingInv, TenantRow
  <2>2. \A u \in Tenants : tenants'[u].subscriptionEndsAt \in Nat
    BY <1>3, <1>8, <2>1
  <2> QED
    BY <2>2 DEF Until
<1>11. Ledger!Credit(c)
  BY <1>1, <1>3, <1>6, <1>7, <1>9, <1>10 DEF Ledger!Credit
<1> QED
  BY <1>7, <1>11 DEF Ledger!Next, LedgerStep

\* The call of one caller issues, credits or shows nothing.
LEMMA CallersKeepTheLedger ==
    ASSUME BillingInv, DatesRight, NEW w \in Callers, CallerStep(w) \/ Fail(w)
    PROVE  LedgerStep
<1>1. CASE CommitCharges(w)
  BY <1>1, InsertsAreIssued
<1>2. CASE ExpireVerified(w)
  <2>1. UNCHANGED <<now, paid, credited, tenants>> /\ Until' = Until
    BY <1>2 DEF ExpireVerified, Until
  <2> QED
    BY <1>2, <2>1, WritesKeepBills, LedgerStutters
<1>3. CASE CommitSettle(w)
  BY <1>3, SettlementsAreCredits
<1>4. CASE \/ ExtendSubscription(w) \/ Fail(w)
           \/ \E c \in Ids : SettleCharge(w, c) \/ AskInVain(w, c)
  <2>1. UNCHANGED <<now, paid, credited, charges, tenants>>
    BY <1>4 DEF ExtendSubscription, Fail, SettleCharge, AskInVain
  <2> QED
    BY <2>1, AccountsStay, LedgerStutters
<1> QED
  BY <1>1, <1>2, <1>3, <1>4 DEF CallerStep

\* The job's own steps show nothing: what it decides, its calls carry out.
LEMMA JobKeepsTheLedger ==
    ASSUME BillingInv, JobTick
    PROVE  LedgerStep
<1>1. CASE GenerateRenewalCharges \/ ConfirmPendingCharges
  <2>1. UNCHANGED <<now, paid, credited, charges, tenants>>
    BY <1>1 DEF GenerateRenewalCharges, BeginCharges, ConfirmPendingCharges
  <2> QED
    BY <2>1, AccountsStay, LedgerStutters
<1>2. CASE ExpireStaleCharges
  <2>1. UNCHANGED <<now, paid, credited, tenants>> /\ Until' = Until
    BY <1>2 DEF ExpireStaleCharges, Until
  <2> QED
    BY <1>2, <2>1, WritesKeepBills, LedgerStutters
<1> QED
  BY <1>1, <1>2 DEF JobTick

\* Every step of billing is a step of the ledger or shows nothing there.
LEMMA LedgerKept == BillingInv /\ DatesRight /\ [BillingNext]_billingVars => LedgerStep
<1> SUFFICES ASSUME BillingInv, DatesRight, [BillingNext]_billingVars PROVE LedgerStep
    OBVIOUS
<1>1. ASSUME NEW t \in Tenants, NEW p \in Plans, ChoosePlan(t, p) PROVE LedgerStep
  <2>1. UNCHANGED <<now, paid, credited, charges>> /\ Bills' = Bills
    BY <1>1 DEF ChoosePlan, Bills, Ids
  <2> QED
    BY <1>1, <2>1, ChoiceKeepsEnds, LedgerStutters
<1>2. CASE \/ \E w \in Workers, t \in Tenants : GetOrCreateCharge(w, t)
           \/ \E w \in Workers, c \in Ids : VerifyCharge(w, c)
           \/ Crash \/ UNCHANGED billingVars
  <2>1. UNCHANGED <<now, paid, credited, charges, tenants>>
    BY <1>2 DEF GetOrCreateCharge, BeginCharges, VerifyCharge, Crash, billingVars
  <2> QED
    BY <2>1, AccountsStay, LedgerStutters
<1>3. ASSUME NEW c \in Ids, Pay(c) PROVE LedgerStep
  BY <1>3, PaymentsAreReceived
<1>4. ASSUME NEW w \in Callers, CallerStep(w) \/ Fail(w) PROVE LedgerStep
  BY <1>4, CallersKeepTheLedger
<1>5. CASE JobTick
  BY <1>5, JobKeepsTheLedger
<1>6. CASE Tick
  <2>1. now' = now + 1 /\ UNCHANGED <<paid, credited, charges, tenants>>
    BY <1>6 DEF Tick
  <2>2. Ledger!PassDay
    BY <2>1, AccountsStay DEF Ledger!PassDay, Received, Credited
  <2> QED
    BY <2>2 DEF Ledger!Next, LedgerStep
<1> QED
  BY <1>1, <1>2, <1>3, <1>4, <1>5, <1>6 DEF BillingNext

\* An account starts empty.
LEMMA LedgerStarts == BillingInit => Ledger!Init
<1> SUFFICES ASSUME BillingInit PROVE Ledger!Init
    OBVIOUS
<1>1. Until = [t \in Tenants |-> 0]
  <2>1. \A t \in Tenants : tenants[t].subscriptionEndsAt = 0
    BY DEF BillingInit, NewTenant, MigratedTenant, NoDate
  <2> QED
    BY <2>1 DEF Until
<1>2. Bills = <<>>
  BY DEF BillingInit, Bills, Ids
<1>3. Received = {} /\ Credited = {}
  BY DEF BillingInit, Received, Credited
<1> QED
  BY <1>1, <1>2, <1>3 DEF Ledger!Init, BillingInit

\* The calls of billing, interleaved, failing and crashing, implement the
\* ledger: one credit per payment, for a whole cycle from its moment, and nothing
\* else moves an end (createCharge, settle and extendSubscription).
THEOREM BillingImplementsLedger == BillingSpec => ImplementsLedger
<1>1. BillingInit => BillingInv /\ DatesRight /\ Ledger!Init
  BY BillingInitially, LedgerStarts, IdleIsOp DEF BillingInit, DatesRight
<1>2. BillingInv /\ DatesRight /\ [BillingNext]_billingVars => [Ledger!Next]_(Ledger!vars)
  BY LedgerKept DEF LedgerStep
<1>3. BillingSpec => Ledger!Spec
  BY <1>1, <1>2, BillingKept, DatesKept, PTL DEF BillingSpec, Ledger!Spec
<1> QED
  BY <1>3 DEF ImplementsLedger
=============================================================================
