------------------------ MODULE PlatformGatewayProofs ------------------------
(***************************************************************************)
(* Proofs about PlatformGateway, for any number of calls, requests, items, *)
(* references and any prices and window.                                   *)
(*                                                                         *)
(* A call that submits a payment works on a request of its own, and what   *)
(* it has learned about its reference stays true until it is used: that is *)
(* what makes a reference good for one request, and a request for one.     *)
(***************************************************************************)
EXTENDS PlatformGateway, TLAPS

Unborn == {"claim", "check", "create"}

(* Calls that submit: before the row exists, and with a reference after.   *)
Submits(a) == at[a] \in Unborn \/ (at[a] # "idle" /\ ref[a] # None)

(* Calls that hold the item's key.                                         *)
Holds(a) == at[a] \in {"check", "create"} /\ ref[a] # None

(* A request is submitted by one call.                                     *)
OwnRequest ==
  \A a, b \in Actors : Submits(a) /\ Submits(b) /\ row[a] = row[b] => a = b

(* The row exists from its INSERT on, and its traces only then.            *)
RowsExist ==
  /\ \A a \in Actors : at[a] # "idle" => (at[a] \in Unborn <=> request[row[a]] = "none")
  /\ \A c \in consumed : request[c.order] # "none"
  /\ \A r \in Requests : request[r] = "none" => openFlags[r] = 0 /\ r \notin referenced

(* What a call with a reference knows where it stands.                     *)
Knows(a) ==
  /\ at[a] \in Attempt => \A c \in consumed : c.order # row[a]
  /\ at[a] = "consume" => ref[a] \in Made /\ Matches(ref[a], row[a])
  /\ at[a] \in {"read", "grant", "mark", "reject"} /\ ref[a] # None
       => \E c \in consumed : c.order = row[a]

ReferenceKnown == \A a \in Actors : Knows(a)

(* A request that has not been polled has no flag.                         *)
UnpolledUnflagged == \A a \in Actors : at[a] \in {"lookup", "poll"} => openFlags[row[a]] = 0

(* The key keeps one call in the two queries, and the pending row it looks *)
(* for cannot appear meanwhile.                                            *)
OneHolder ==
  /\ \A a, b \in Actors : Holds(a) /\ Holds(b) /\ Item[row[a]] = Item[row[b]] => a = b
  /\ \A a \in Actors, r \in referenced :
       at[a] = "create" /\ ref[a] # None /\ Item[r] = Item[row[a]] => request[r] # "pending"

(* A call that marks has granted.                                          *)
MarkedAfterGrant == \A a \in Actors : at[a] = "mark" => entitled[Item[row[a]]] # "none"

GatewayInv ==
  /\ TypeOK /\ OwnRequest /\ RowsExist /\ ReferenceKnown /\ UnpolledUnflagged
  /\ OneHolder /\ MarkedAfterGrant
  /\ GrantedIsPaid /\ OnePendingReference /\ VerifiedIsOwned /\ OneOpenFlag

LEMMA GatewayInit == Init => GatewayInv
<1> USE GatewayNone, GatewayItems, GatewayAmounts, GatewayBounds
<1> SUFFICES ASSUME Init PROVE GatewayInv
  OBVIOUS
<1>1. TypeOK
  BY DEF Init, TypeOK, Labels, Attempt
<1>2. OwnRequest /\ RowsExist /\ ReferenceKnown /\ UnpolledUnflagged /\ OneHolder /\ MarkedAfterGrant
  BY DEF Init, OwnRequest, RowsExist, ReferenceKnown, Knows, UnpolledUnflagged, OneHolder,
         MarkedAfterGrant, Submits, Holds, Unborn, Attempt
<1>3. GrantedIsPaid /\ OnePendingReference /\ VerifiedIsOwned /\ OneOpenFlag
  BY DEF Init, GrantedIsPaid, OnePendingReference, VerifiedIsOwned, OneOpenFlag
<1> QED
  BY <1>1, <1>2, <1>3 DEF GatewayInv

(* A sweep looks at references that were consumed, each for some request.  *)
LEMMA OrderOfConsumed ==
  ASSUME TypeOK, NEW x \in todo
  PROVE  /\ OrderOf(x) \in Requests
         /\ \E c \in consumed : c.ref = x /\ c.order = OrderOf(x)
<1>1. \E c \in consumed : c.ref = x
  BY DEF TypeOK
<1>2. (CHOOSE c \in consumed : c.ref = x) \in consumed /\ (CHOOSE c \in consumed : c.ref = x).ref = x
  BY <1>1
<1> QED
  BY <1>2 DEF OrderOf, TypeOK, Consumption

(* The type of the calls, the tables and the sweep, step by step.          *)
LEMMA TypesStep ==
  ASSUME TypeOK, [Next]_vars
  PROVE  TypeOK'
<1> USE GatewayNone, GatewayItems, GatewayBounds DEF TypeOK, Labels, Attempt, tables, world, sweep
<1>1. ASSUME NEW a \in Actors, Start(a) PROVE TypeOK'
  BY <1>1 DEF Start, Submit, IsNext, IsNew, StartVerify, StartReject, Begin
<1>2. ASSUME NEW a \in Actors, Step(a) PROVE TypeOK'
  <2>1. CASE ClaimCooldown(a) \/ CheckPending(a) \/ Lookup(a) \/ ReadPending(a)
    BY <2>1 DEF ClaimCooldown, CheckPending, Lookup, ReadPending, Goto, Return
  <2>2. CASE Create(a)
    BY <2>2 DEF Create, HasReference, Goto, Return
  <2>3. CASE Poll(a)
    BY <2>3 DEF Poll, Goto, Return
  <2>4. CASE Consume(a)
    <3>1. [ref |-> ref[a], order |-> row[a]] \in Consumption
      BY <2>4 DEF Consume, Consumption
    <3>2. consumed' \subseteq Consumption /\ consumed \subseteq consumed'
      BY <2>4, <3>1 DEF Consume
    <3> QED
      BY <2>4, <3>2 DEF Consume, Goto, Return
  <2>5. CASE Grant(a)
    BY <2>5 DEF Grant, Goto
  <2>6. CASE Mark(a) \/ Reject(a)
    BY <2>6 DEF Mark, Reject, Resolve, Return
  <2> QED
    BY <1>2, <2>1, <2>2, <2>3, <2>4, <2>5, <2>6 DEF Step
<1>3. ASSUME NEW a \in Actors, Crash(a) PROVE TypeOK'
  BY <1>3 DEF Crash, Return
<1>4. CASE StartSweep
  <2>1. todo' \subseteq {c.ref : c \in consumed'}
    BY <1>4 DEF StartSweep, IsConsumed
  <2>2. age' \in [References -> 0..Window]
    BY <1>4 DEF StartSweep
  <2> QED
    BY <1>4, <2>1, <2>2 DEF StartSweep, calls
<1>5. ASSUME NEW x \in References, Recheck(x) PROVE TypeOK'
  <2>1. todo' \subseteq todo /\ UNCHANGED <<consumed, calls, age, referenced>>
    BY <1>5 DEF Recheck
  <2>2. OrderOf(x) \in Requests
    BY <1>5, OrderOfConsumed DEF Recheck
  <2>3. openFlags' \in [Requests -> Nat]
    BY <1>5, <2>2 DEF Recheck
  <2> QED
    BY <1>5, <2>1, <2>3 DEF Recheck, calls
<1>6. ASSUME NEW lost, SweepFails(lost) PROVE TypeOK'
  <2>1. todo' \subseteq todo /\ UNCHANGED <<tables, world, calls, age, referenced>>
    BY <1>6 DEF SweepFails
  <2> QED
    BY <2>1 DEF calls
<1>7. CASE Outside
  <2>1. ASSUME NEW r \in Requests, ResolveFlag(r) PROVE TypeOK'
    BY <2>1 DEF ResolveFlag, calls
  <2>2. ASSUME NEW x \in References, Reverse(x) PROVE TypeOK'
    BY <2>2 DEF Reverse, calls, IsConsumed
  <2>3. ASSUME NEW k \in Items, Revoke(k) PROVE TypeOK'
    BY <2>3 DEF Revoke, calls
  <2>4. ASSUME NEW state \in {"absent", "inactive", "active"}, SetConnection(state) PROVE TypeOK'
    BY <2>4 DEF SetConnection, calls
  <2> QED
    BY <1>7, <2>1, <2>2, <2>3, <2>4 DEF Outside
<1>8. CASE UNCHANGED vars
  BY <1>8 DEF vars, calls
<1> QED
  BY <1>1, <1>2, <1>3, <1>4, <1>5, <1>6, <1>7, <1>8 DEF Next, Sweep

(* Each call keeps a request of its own, which exists once it is created.  *)
LEMMA CallsStep ==
  ASSUME GatewayInv, TypeOK', [Next]_vars
  PROVE  OwnRequest' /\ RowsExist'
<1> USE GatewayNone DEF GatewayInv, TypeOK, Labels, Attempt, tables, world, sweep,
        OwnRequest, RowsExist, Submits, Unborn
<1>1. ASSUME NEW a \in Actors, Start(a) PROVE OwnRequest' /\ RowsExist'
  BY <1>1 DEF Start, Submit, IsNext, IsNew, Owns, StartVerify, StartReject, Begin
<1>2. ASSUME NEW a \in Actors, Step(a) PROVE OwnRequest' /\ RowsExist'
  <2>1. CASE ClaimCooldown(a)
    BY <2>1 DEF ClaimCooldown, CanClaim, Goto, Return
  <2>2. CASE CheckPending(a)
    BY <2>2 DEF CheckPending, Goto, Return
  <2>3. CASE Lookup(a)
    BY <2>3 DEF Lookup, IsConsumed, Goto, Return
  <2>4. CASE ReadPending(a)
    BY <2>4 DEF ReadPending, Goto, Return
  <2>5. CASE Create(a)
    BY <2>5 DEF Create, HasReference, Goto, Return
  <2>6. CASE Poll(a)
    BY <2>6 DEF Poll, Confirms, Goto, Return
  <2>7. CASE Consume(a)
    BY <2>7 DEF Consume, IsConsumed, Goto, Return
  <2>8. CASE Grant(a)
    BY <2>8 DEF Grant, Goto
  <2>9. CASE Mark(a) \/ Reject(a)
    <3>1. row[a] \in Requests /\ request[row[a]] # "none"
      BY <2>9 DEF Mark, Reject
    <3>2. \A r \in Requests : request'[r] = "none" <=> request[r] = "none"
      BY <2>9, <3>1 DEF Mark, Reject, Resolve
    <3>3. UNCHANGED <<consumed, openFlags, referenced>> /\ Return(a)
      BY <2>9 DEF Mark, Reject, Resolve
    <3>4. OwnRequest'
      BY <3>3 DEF Return
    <3>5. RowsExist'
      BY <3>2, <3>3 DEF Return, Consumption
    <3> QED
      BY <3>4, <3>5
  <2> QED
    BY <1>2, <2>1, <2>2, <2>3, <2>4, <2>5, <2>6, <2>7, <2>8, <2>9 DEF Step
<1>3. ASSUME NEW a \in Actors, Crash(a) PROVE OwnRequest' /\ RowsExist'
  BY <1>3 DEF Crash, Return
<1>4. CASE StartSweep
  BY <1>4 DEF StartSweep, calls
<1>5. ASSUME NEW x \in References, Recheck(x) PROVE OwnRequest' /\ RowsExist'
  <2>1. PICK c \in consumed : c.ref = x /\ c.order = OrderOf(x)
    BY <1>5, OrderOfConsumed DEF Recheck
  <2> QED
    BY <1>5, <2>1 DEF Recheck, calls
<1>6. ASSUME NEW lost, SweepFails(lost) PROVE OwnRequest' /\ RowsExist'
  BY <1>6 DEF SweepFails, calls
<1>7. CASE Outside
  BY <1>7 DEF Outside, SetConnection, ResolveFlag, Reverse, Revoke, calls
<1>8. CASE UNCHANGED vars
  BY <1>8 DEF vars, calls
<1> QED
  BY <1>1, <1>2, <1>3, <1>4, <1>5, <1>6, <1>7, <1>8 DEF Next, Sweep

(* What a call knows of its reference, and the flags of its request.       *)
LEMMA KnowledgeStep ==
  ASSUME GatewayInv, TypeOK', [Next]_vars
  PROVE  ReferenceKnown' /\ UnpolledUnflagged' /\ OneOpenFlag'
<1> USE GatewayNone DEF GatewayInv, TypeOK, Labels, Attempt, tables, world, sweep,
        OwnRequest, RowsExist, Submits, Unborn, ReferenceKnown, Knows, UnpolledUnflagged, OneOpenFlag
<1>1. ASSUME NEW a \in Actors, Start(a) PROVE ReferenceKnown' /\ UnpolledUnflagged' /\ OneOpenFlag'
  BY <1>1 DEF Start, Submit, IsNext, IsNew, Owns, StartVerify, StartReject, Begin
<1>2. ASSUME NEW a \in Actors, Step(a) PROVE ReferenceKnown' /\ UnpolledUnflagged' /\ OneOpenFlag'
  <2>1. CASE ClaimCooldown(a)
    BY <2>1 DEF ClaimCooldown, CanClaim, Goto, Return
  <2>2. CASE CheckPending(a)
    BY <2>2 DEF CheckPending, Goto, Return
  <2>3. CASE Lookup(a)
    BY <2>3 DEF Lookup, IsConsumed, Goto, Return
  <2>4. CASE ReadPending(a)
    BY <2>4 DEF ReadPending, Goto, Return
  <2>5. CASE Create(a)
    BY <2>5 DEF Create, HasReference, Goto, Return
  <2>6. CASE Poll(a)
    <3>1. row[a] \in Requests /\ \A b \in Actors : b # a /\ at[b] \in {"lookup", "poll"} => row[b] # row[a]
      BY <2>6 DEF Poll
    <3>2. openFlags' = openFlags \/ openFlags' = [openFlags EXCEPT ![row[a]] = 1]
      BY <2>6, <3>1 DEF Poll
    <3>3. UNCHANGED consumed /\ (Return(a) \/ (Goto(a, "consume") /\ Confirms(ref[a], row[a])))
      BY <2>6 DEF Poll
    <3>4. UnpolledUnflagged' /\ OneOpenFlag'
      BY <3>1, <3>2, <3>3 DEF Goto, Return
    <3>5. ReferenceKnown'
      <4>1. \A b \in Actors : b # a => Knows(b)'
        BY <3>3 DEF Goto, Return, Matches
      <4>2. Knows(a)'
        BY <2>6, <3>3 DEF Poll, Goto, Return, Confirms, IsPaid, Matches
      <4> QED
        BY <4>1, <4>2
    <3> QED
      BY <3>4, <3>5
  <2>7. CASE Consume(a)
    <3>1. \A b \in Actors : b # a /\ at[b] \in Attempt => row[b] # row[a]
      BY <2>7 DEF Consume
    <3>2. UNCHANGED openFlags /\ consumed \subseteq consumed'
      BY <2>7 DEF Consume
    <3>3. UnpolledUnflagged' /\ OneOpenFlag'
      BY <2>7, <3>2 DEF Consume, Goto, Return
    <3>4. CASE IsConsumed(ref[a])
      BY <2>7, <3>4 DEF Consume, Return, Matches
    <3>5. CASE ~IsConsumed(ref[a])
      <4>1. consumed' = consumed \cup {[ref |-> ref[a], order |-> row[a]]} /\ Goto(a, "read")
        BY <2>7, <3>5 DEF Consume
      <4>2. ReferenceKnown'
        <5>1. \A b \in Actors : b # a => Knows(b)'
          BY <3>1, <4>1 DEF Goto, Matches
        <5>2. Knows(a)'
          <6>1. \E c \in consumed' : c.order = row[a]
            <7>1. [ref |-> ref[a], order |-> row[a]].order = row[a]
              OBVIOUS
            <7> QED
              BY <4>1, <7>1, Zenon
          <6>2. at'[a] = "read" /\ row'[a] = row[a]
            BY <4>1 DEF Goto
          <6> QED
            BY <6>1, <6>2
        <5> QED
          BY <5>1, <5>2
      <4> QED
        BY <3>3, <4>2
    <3> QED
      BY <3>4, <3>5
  <2>8. CASE Grant(a)
    BY <2>8 DEF Grant, Goto
  <2>9. CASE Mark(a) \/ Reject(a)
    BY <2>9 DEF Mark, Reject, Resolve, HasReference, Return
  <2> QED
    BY <1>2, <2>1, <2>2, <2>3, <2>4, <2>5, <2>6, <2>7, <2>8, <2>9 DEF Step
<1>3. ASSUME NEW a \in Actors, Crash(a) PROVE ReferenceKnown' /\ UnpolledUnflagged' /\ OneOpenFlag'
  BY <1>3 DEF Crash, Return
<1>4. CASE StartSweep
  BY <1>4 DEF StartSweep, calls
<1>5. ASSUME NEW x \in References, Recheck(x) PROVE ReferenceKnown' /\ UnpolledUnflagged' /\ OneOpenFlag'
  <2>1. PICK c \in consumed : c.ref = x /\ c.order = OrderOf(x)
    BY <1>5, OrderOfConsumed DEF Recheck
  <2>2. c.order \in Requests /\ UNCHANGED <<consumed, at, row, ref>>
    BY <1>5 DEF Recheck, calls, Consumption
  <2>3. openFlags' = openFlags \/ (openFlags[c.order] = 0 /\ openFlags' = [openFlags EXCEPT ![c.order] = 1])
    <3>1. \/ openFlags' = openFlags
          \/ openFlags[c.order] = 0 /\ openFlags' = [openFlags EXCEPT ![c.order] = openFlags[c.order] + 1]
      BY <1>5, <2>1, <2>2 DEF Recheck, IsFlagged
    <3> QED
      BY <3>1
  <2>4. OneOpenFlag' /\ UnpolledUnflagged'
    BY <2>2, <2>3
  <2>5. ReferenceKnown'
    BY <2>2 DEF Matches
  <2> QED
    BY <2>4, <2>5
<1>6. ASSUME NEW lost, SweepFails(lost) PROVE ReferenceKnown' /\ UnpolledUnflagged' /\ OneOpenFlag'
  BY <1>6 DEF SweepFails, calls
<1>7. CASE Outside
  BY <1>7 DEF Outside, SetConnection, ResolveFlag, Reverse, Revoke, calls
<1>8. CASE UNCHANGED vars
  BY <1>8 DEF vars, calls
<1> QED
  BY <1>1, <1>2, <1>3, <1>4, <1>5, <1>6, <1>7, <1>8 DEF Next, Sweep

(* The key, and the one pending request with a reference.                  *)
LEMMA HoldersStep ==
  ASSUME GatewayInv, TypeOK', [Next]_vars
  PROVE  OneHolder' /\ OnePendingReference'
<1> USE GatewayNone, GatewayItems DEF GatewayInv, TypeOK, Labels, Attempt, tables, world, sweep,
        RowsExist, Unborn, OneHolder, Holds, OnePendingReference
<1>1. ASSUME NEW a \in Actors, Start(a) PROVE OneHolder' /\ OnePendingReference'
  <2>1. ~Holds(a)' /\ at'[a] # "create" /\ UNCHANGED <<request, referenced>>
    BY <1>1 DEF Start, Submit, StartVerify, StartReject, Begin
  <2>2. \A b \in Actors : b # a => at'[b] = at[b] /\ row'[b] = row[b] /\ ref'[b] = ref[b]
    BY <1>1 DEF Start, Submit, StartVerify, StartReject, Begin
  <2>3. \A b \in Actors : Holds(b)' => b # a /\ Holds(b)
    BY <2>1, <2>2
  <2>4. OneHolder'
    BY <2>1, <2>2, <2>3
  <2> QED
    BY <2>1, <2>4
<1>2. ASSUME NEW a \in Actors, Step(a) PROVE OneHolder' /\ OnePendingReference'
  <2>1. CASE ClaimCooldown(a)
    BY <2>1 DEF ClaimCooldown, CanClaim, Goto, Return
  <2>2. CASE CheckPending(a)
    <3>1. CASE Return(a)
      BY <2>2, <3>1 DEF CheckPending, Return
    <3>2. CASE Goto(a, "create")
      <4>1. \A r \in Requests : Item[r] = Item[row[a]] => request[r] # "pending"
        BY <2>2, <3>2 DEF CheckPending, Goto, Return
      <4>2. \A b \in Actors : at'[b] = IF b = a THEN "create" ELSE at[b]
        BY <3>2 DEF Goto
      <4>3. UNCHANGED <<request, referenced, row, ref>> /\ at[a] = "check"
        BY <2>2, <3>2 DEF CheckPending, Goto
      <4> QED
        BY <4>1, <4>2, <4>3
    <3> QED
      BY <2>2, <3>1, <3>2 DEF CheckPending
  <2>3. CASE Lookup(a)
    BY <2>3 DEF Lookup, IsConsumed, Goto, Return
  <2>4. CASE ReadPending(a)
    BY <2>4 DEF ReadPending, Goto, Return
  <2>5. CASE Create(a)
    BY <2>5 DEF Create, HasReference, Goto, Return
  <2>6. CASE Poll(a)
    BY <2>6 DEF Poll, Confirms, Goto, Return
  <2>7. CASE Consume(a)
    BY <2>7 DEF Consume, IsConsumed, Goto, Return
  <2>8. CASE Grant(a)
    BY <2>8 DEF Grant, Goto
  <2>9. CASE Mark(a) \/ Reject(a)
    BY <2>9 DEF Mark, Reject, Resolve, HasReference, Return
  <2> QED
    BY <1>2, <2>1, <2>2, <2>3, <2>4, <2>5, <2>6, <2>7, <2>8, <2>9 DEF Step
<1>3. ASSUME NEW a \in Actors, Crash(a) PROVE OneHolder' /\ OnePendingReference'
  BY <1>3 DEF Crash, Return
<1>4. CASE StartSweep
  BY <1>4 DEF StartSweep, calls
<1>5. ASSUME NEW x \in References, Recheck(x) PROVE OneHolder' /\ OnePendingReference'
  BY <1>5 DEF Recheck, calls
<1>6. ASSUME NEW lost, SweepFails(lost) PROVE OneHolder' /\ OnePendingReference'
  BY <1>6 DEF SweepFails, calls
<1>7. CASE Outside
  BY <1>7 DEF Outside, SetConnection, ResolveFlag, Reverse, Revoke, calls
<1>8. CASE UNCHANGED vars
  BY <1>8 DEF vars, calls
<1> QED
  BY <1>1, <1>2, <1>3, <1>4, <1>5, <1>6, <1>7, <1>8 DEF Next, Sweep

(* A verified request has its entitlement.                                 *)
LEMMA OwnedStep ==
  ASSUME GatewayInv, TypeOK', [Next]_vars
  PROVE  MarkedAfterGrant' /\ VerifiedIsOwned'
<1> USE GatewayNone, GatewayItems DEF GatewayInv, TypeOK, Labels, Attempt, tables, world, sweep,
        RowsExist, Unborn, MarkedAfterGrant, VerifiedIsOwned
<1>1. ASSUME NEW a \in Actors, Start(a) PROVE MarkedAfterGrant' /\ VerifiedIsOwned'
  BY <1>1 DEF Start, Submit, IsNext, IsNew, Owns, StartVerify, StartReject, Begin
<1>2. ASSUME NEW a \in Actors, Step(a) PROVE MarkedAfterGrant' /\ VerifiedIsOwned'
  <2>1. CASE ClaimCooldown(a)
    BY <2>1 DEF ClaimCooldown, CanClaim, Goto, Return
  <2>2. CASE CheckPending(a)
    BY <2>2 DEF CheckPending, Goto, Return
  <2>3. CASE Lookup(a)
    BY <2>3 DEF Lookup, IsConsumed, Goto, Return
  <2>4. CASE ReadPending(a)
    BY <2>4 DEF ReadPending, Goto, Return
  <2>5. CASE Create(a)
    BY <2>5 DEF Create, HasReference, Goto, Return
  <2>6. CASE Poll(a)
    BY <2>6 DEF Poll, Confirms, Goto, Return
  <2>7. CASE Consume(a)
    BY <2>7 DEF Consume, IsConsumed, Goto, Return
  <2>8. CASE Grant(a)
    BY <2>8 DEF Grant, Goto
  <2>9. CASE Mark(a) \/ Reject(a)
    BY <2>9 DEF Mark, Reject, Resolve, HasReference, Return
  <2> QED
    BY <1>2, <2>1, <2>2, <2>3, <2>4, <2>5, <2>6, <2>7, <2>8, <2>9 DEF Step
<1>3. ASSUME NEW a \in Actors, Crash(a) PROVE MarkedAfterGrant' /\ VerifiedIsOwned'
  BY <1>3 DEF Crash, Return
<1>4. CASE StartSweep
  BY <1>4 DEF StartSweep, calls
<1>5. ASSUME NEW x \in References, Recheck(x) PROVE MarkedAfterGrant' /\ VerifiedIsOwned'
  BY <1>5 DEF Recheck, calls
<1>6. ASSUME NEW lost, SweepFails(lost) PROVE MarkedAfterGrant' /\ VerifiedIsOwned'
  BY <1>6 DEF SweepFails, calls
<1>7. CASE Outside
  BY <1>7 DEF Outside, SetConnection, ResolveFlag, Reverse, Revoke, calls
<1>8. CASE UNCHANGED vars
  BY <1>8 DEF vars, calls
<1> QED
  BY <1>1, <1>2, <1>3, <1>4, <1>5, <1>6, <1>7, <1>8 DEF Next, Sweep

(* What the gateway has granted was paid.                                  *)
LEMMA GrantedStep ==
  ASSUME GatewayInv, TypeOK', [Next]_vars
  PROVE  GrantedIsPaid'
<1> USE GatewayNone, GatewayItems DEF GatewayInv, TypeOK, Labels, Attempt, tables, world, sweep,
        ReferenceKnown, Knows, GrantedIsPaid, Matches
<1>1. ASSUME NEW a \in Actors, Start(a) PROVE GrantedIsPaid'
  BY <1>1 DEF Start, Submit, IsNext, IsNew, Owns, StartVerify, StartReject, Begin
<1>2. ASSUME NEW a \in Actors, Step(a) PROVE GrantedIsPaid'
  <2>1. CASE ClaimCooldown(a)
    BY <2>1 DEF ClaimCooldown, CanClaim, Goto, Return
  <2>2. CASE CheckPending(a)
    BY <2>2 DEF CheckPending, Goto, Return
  <2>3. CASE Lookup(a)
    BY <2>3 DEF Lookup, IsConsumed, Goto, Return
  <2>4. CASE ReadPending(a)
    BY <2>4 DEF ReadPending, Goto, Return
  <2>5. CASE Create(a)
    BY <2>5 DEF Create, HasReference, Goto, Return
  <2>6. CASE Poll(a)
    BY <2>6 DEF Poll, Confirms, Goto, Return
  <2>7. CASE Consume(a)
    BY <2>7 DEF Consume, IsConsumed, Goto, Return
  <2>8. CASE Grant(a)
    BY <2>8 DEF Grant, Goto
  <2>9. CASE Mark(a) \/ Reject(a)
    BY <2>9 DEF Mark, Reject, Resolve, HasReference, Return
  <2> QED
    BY <1>2, <2>1, <2>2, <2>3, <2>4, <2>5, <2>6, <2>7, <2>8, <2>9 DEF Step
<1>3. ASSUME NEW a \in Actors, Crash(a) PROVE GrantedIsPaid'
  BY <1>3 DEF Crash, Return
<1>4. CASE StartSweep
  BY <1>4 DEF StartSweep, calls
<1>5. ASSUME NEW x \in References, Recheck(x) PROVE GrantedIsPaid'
  BY <1>5 DEF Recheck, calls
<1>6. ASSUME NEW lost, SweepFails(lost) PROVE GrantedIsPaid'
  BY <1>6 DEF SweepFails, calls
<1>7. CASE Outside
  BY <1>7 DEF Outside, SetConnection, ResolveFlag, Reverse, Revoke, calls
<1>8. CASE UNCHANGED vars
  BY <1>8 DEF vars, calls
<1> QED
  BY <1>1, <1>2, <1>3, <1>4, <1>5, <1>6, <1>7, <1>8 DEF Next, Sweep

LEMMA GatewayAlways == Spec => []GatewayInv
<1>1. GatewayInv /\ [Next]_vars => GatewayInv'
  <2> SUFFICES ASSUME GatewayInv, [Next]_vars PROVE GatewayInv'
    OBVIOUS
  <2>1. TypeOK'
    BY TypesStep DEF GatewayInv
  <2> QED
    BY <2>1, CallsStep, KnowledgeStep, HoldersStep, OwnedStep, GrantedStep DEF GatewayInv
<1> QED
  BY <1>1, GatewayInit, PTL DEF Spec

(* The rows, the calls and the sweep keep their types.                     *)
THEOREM GatewayTypes == Spec => []TypeOK
  BY GatewayAlways, PTL DEF GatewayInv

(* A reference of a payment is good for one request, and what the gateway  *)
(* grants was paid, of the right amount (platform-gateway.service.ts:70).  *)
THEOREM GrantsArePaid == Spec => []GrantedIsPaid
  BY GatewayAlways, PTL DEF GatewayInv

(* Of the submissions of a reference for one item one at most is pending   *)
(* (platform-gateway.service.ts:283).                                      *)
THEOREM PendingReferenceIsOne == Spec => []OnePendingReference
  BY GatewayAlways, PTL DEF GatewayInv

(* A purchase is not marked verified before its template is granted        *)
(* (template-purchase.service.ts:109).                                     *)
THEOREM VerifiedAreOwned == Spec => []VerifiedIsOwned
  BY GatewayAlways, PTL DEF GatewayInv

(* A request has one open flag at most                                     *)
(* (platform-gateway-reconciliation.service.ts:19).                        *)
THEOREM OpenFlagIsOne == Spec => []OneOpenFlag
  BY GatewayAlways, PTL DEF GatewayInv
=============================================================================
