--------------------------- MODULE PlatformGateway ---------------------------
(***************************************************************************)
(* The platform as a merchant (platform-gateway/): a seller buys a template*)
(* and submits the reference of the payment; the gateway is polled, the    *)
(* reference is consumed, the template is granted without an admin.  Every *)
(* week the consumed references are polled again and the ones that no      *)
(* longer hold are flagged.                                                *)
(*                                                                         *)
(* Each awaited call of theme-engine/template-purchase.service.ts and of   *)
(* tryAutoVerify is a step.  An item is a seller with a template; one      *)
(* provider is connected.                                                  *)
(***************************************************************************)
EXTENDS Integers, FiniteSets

CONSTANTS
  Actors,      \* calls being handled at once, of sellers and of admins
  Requests,    \* TemplatePurchaseRequest rows, by number
  References,  \* payment references
  Items,       \* sellers with the template they buy
  None,
  Item,        \* the item of each request
  Price,       \* the amount due of each item
  Made,        \* the references of payments that were made
  Reported,    \* the amount the gateway reports of a payment, or None
  Window       \* weekly sweeps that see a reference in its 30 days

ASSUME GatewayNone ==
  None \notin References \cup Requests /\ None \notin {"gateway", "admin"}
ASSUME GatewayNames == Requests \subseteq Nat /\ Made \subseteq References
ASSUME GatewayItems == Item \in [Requests -> Items]
ASSUME GatewayAmounts ==
  Price \in [Items -> Nat] /\ Reported \in [References -> Nat \cup {None}] /\ None \notin Nat
ASSUME GatewayBounds == Window \in Nat

VARIABLES
  request,     \* [Requests -> status], "none" before the row exists
  verifiedBy,  \* [Requests -> who resolved it]
  entitled,    \* [Items -> the seller's TemplateEntitlement row]
  consumed,    \* PlatformGatewayConsumedReference rows
  openFlags,   \* [Requests -> unresolved PlatformGatewayFlaggedVerification rows]
  connection,  \* the provider's PlatformGatewayConnection
  reversed,    \* the payments that were taken back
  at,          \* [Actors -> where the handler is]
  row,         \* [Actors -> its request]
  ref,         \* [Actors -> the reference submitted, or None]
  todo,        \* references the running sweep has still to look at
  age,         \* [References -> sweeps begun since the reference was consumed]
  referenced   \* history: requests that were made with a reference

tables == <<request, verifiedBy, entitled, consumed, openFlags>>
world  == <<connection, reversed>>
calls  == <<at, row, ref>>
sweep  == <<todo, age>>
vars == <<tables, world, calls, sweep, referenced>>

Consumption == [ref : References, order : Requests]
Attempt == {"lookup", "poll", "consume"}
Labels == {"idle", "claim", "check", "create", "read", "grant", "mark", "reject"} \cup Attempt

TypeOK ==
  /\ request \in [Requests -> {"none", "pending", "verified", "rejected"}]
  /\ verifiedBy \in [Requests -> {None, "gateway", "admin"}]
  /\ entitled \in [Items -> {"none", "held", "revoked"}]
  /\ consumed \subseteq Consumption
  /\ openFlags \in [Requests -> Nat]
  /\ connection \in {"absent", "inactive", "active"}
  /\ reversed \subseteq References
  /\ at \in [Actors -> Labels]
  /\ row \in [Actors -> Requests \cup {None}]
  /\ ref \in [Actors -> References \cup {None}]
  /\ \A a \in Actors : at[a] # "idle" => row[a] \in Requests
  /\ \A a \in Actors : at[a] \in Attempt => ref[a] \in References
  /\ todo \subseteq {c.ref : c \in consumed}
  /\ age \in [References -> 0..Window]
  /\ referenced \subseteq Requests

Init ==
  /\ request = [r \in Requests |-> "none"]
  /\ verifiedBy = [r \in Requests |-> None]
  /\ entitled = [k \in Items |-> "none"]
  /\ consumed = {}
  /\ openFlags = [r \in Requests |-> 0]
  /\ connection = "absent"
  /\ reversed = {}
  /\ at = [a \in Actors |-> "idle"]
  /\ row = [a \in Actors |-> None]
  /\ ref = [a \in Actors |-> None]
  /\ todo = {}
  /\ age = [x \in References |-> 0]
  /\ referenced = {}

Goto(a, label) == at' = [at EXCEPT ![a] = label] /\ UNCHANGED <<row, ref>>

Return(a) ==
  /\ at' = [at EXCEPT ![a] = "idle"]
  /\ row' = [row EXCEPT ![a] = None]
  /\ ref' = [ref EXCEPT ![a] = None]

Begin(a, r, x, label) ==
  /\ at' = [at EXCEPT ![a] = label]
  /\ row' = [row EXCEPT ![a] = r]
  /\ ref' = [ref EXCEPT ![a] = x]

(***************************************************************************)
(* A seller submits a payment.                                             *)
(***************************************************************************)

IsNew(r) == request[r] = "none" /\ \A a \in Actors : row[a] # r

(* An item's requests are numbered in the order of the calls.              *)
IsNext(r) == IsNew(r) /\ \A q \in Requests : q < r /\ Item[q] = Item[r] => ~IsNew(q)

Owns(k) == entitled[k] = "held"

(* A seller's call; a template that is owned is refused, and only a        *)
(* reference claims a cooldown.                                            *)
Submit(s, r, x) ==
  /\ at[s] = "idle"
  /\ IsNext(r)
  /\ ~Owns(Item[r])
  /\ Begin(s, r, x, IF x = None THEN "check" ELSE "claim")
  /\ UNCHANGED <<tables, world, sweep, referenced>>

(* Bug variant: the key is set without NX.                                 *)
AnyClaim(k) == TRUE

(* The item's key in Redis outlasts the two queries up to the INSERT:      *)
(* 10 s by default, and never less than 1.                                 *)
CanClaim(k) ==
  ~\E s \in Actors : at[s] \in {"check", "create"} /\ ref[s] # None /\ Item[row[s]] = k

(* claimSubmissionCooldown: SET NX EX, or 429.  The key of a call that is  *)
(* over may or may not have expired.                                       *)
ClaimCooldown(s) ==
  /\ at[s] = "claim"
  /\ \/ CanClaim(Item[row[s]]) /\ Goto(s, "check")
     \/ Return(s)
  /\ UNCHANGED <<tables, world, sweep, referenced>>

CheckPending(s) ==
  /\ at[s] = "check"
  /\ IF \E r \in Requests : Item[r] = Item[row[s]] /\ request[r] = "pending"
     THEN Return(s) ELSE Goto(s, "create")
  /\ UNCHANGED <<tables, world, sweep, referenced>>

(* Bug variant: the gateway is asked about a payment without reference.    *)
Always(x) == TRUE

HasReference(x) == x # None

Create(s) ==
  /\ at[s] = "create"
  /\ request' = [request EXCEPT ![row[s]] = "pending"]
  /\ referenced' = IF ref[s] = None THEN referenced ELSE referenced \cup {row[s]}
  /\ IF HasReference(ref[s]) THEN Goto(s, "lookup") ELSE Return(s)
  /\ UNCHANGED <<verifiedBy, entitled, consumed, openFlags, world, sweep>>

(***************************************************************************)
(* tryAutoVerify: every refusal leaves the request pending, for an admin.  *)
(***************************************************************************)

IsConsumed(x) == \E c \in consumed : c.ref = x

Lookup(s) ==
  /\ at[s] = "lookup"
  /\ IF connection = "active" /\ ~IsConsumed(ref[s]) THEN Goto(s, "poll") ELSE Return(s)
  /\ UNCHANGED <<tables, world, sweep, referenced>>

IsPaid(x) == x \in Made \ reversed
Matches(x, r) == Reported[x] \in {None, Price[Item[r]]}

(* Bug variant: the reported amount is not compared.                       *)
PaidAtAll(x, r) == IsPaid(x)

Confirms(x, r) == IsPaid(x) /\ Matches(x, r)

Poll(s) ==
  /\ at[s] = "poll"
  /\ IF Confirms(ref[s], row[s]) THEN Goto(s, "consume") /\ UNCHANGED openFlags
     ELSE /\ Return(s)
          /\ openFlags' = IF IsPaid(ref[s])
                          THEN [openFlags EXCEPT ![row[s]] = @ + 1] ELSE openFlags
  /\ UNCHANGED <<request, verifiedBy, entitled, consumed, world, sweep, referenced>>

(* Bug variant: losing the race for a reference is taken for winning it.   *)
ConsumeAnyway(s) ==
  /\ at[s] = "consume"
  /\ consumed' = consumed \cup
       (IF IsConsumed(ref[s]) THEN {} ELSE {[ref |-> ref[s], order |-> row[s]]})
  /\ Goto(s, "read")
  /\ UNCHANGED <<request, verifiedBy, entitled, openFlags, world, sweep, referenced>>

(* The INSERT; (provider, reference) is unique.                            *)
Consume(s) ==
  /\ at[s] = "consume"
  /\ IF IsConsumed(ref[s]) THEN Return(s) /\ UNCHANGED consumed
     ELSE /\ consumed' = consumed \cup {[ref |-> ref[s], order |-> row[s]]}
          /\ Goto(s, "read")
  /\ UNCHANGED <<request, verifiedBy, entitled, openFlags, world, sweep, referenced>>

(***************************************************************************)
(* verify and reject, for the gateway's session and for admins.            *)
(***************************************************************************)

ReadPending(s) ==
  /\ at[s] = "read"
  /\ IF request[row[s]] = "pending" THEN Goto(s, "grant") ELSE Return(s)
  /\ UNCHANGED <<tables, world, sweep, referenced>>

StartVerify(a, r) ==
  /\ at[a] = "idle"
  /\ request[r] = "pending"
  /\ Begin(a, r, None, "grant")
  /\ UNCHANGED <<tables, world, sweep, referenced>>

StartReject(a, r) ==
  /\ at[a] = "idle"
  /\ request[r] = "pending"
  /\ Begin(a, r, None, "reject")
  /\ UNCHANGED <<tables, world, sweep, referenced>>

(* The UPDATE of the request names only its id.                            *)
Resolve(a, status) ==
  /\ request' = [request EXCEPT ![row[a]] = status]
  /\ verifiedBy' = [verifiedBy EXCEPT ![row[a]] = IF HasReference(ref[a]) THEN "gateway" ELSE "admin"]
  /\ Return(a)
  /\ UNCHANGED <<entitled, consumed, openFlags, world, sweep, referenced>>

(* Bug variant: the request is marked first, and the process dies.         *)
MarkFirst(a) == at[a] = "grant" /\ Resolve(a, "verified")

(* The upsert of the entitlement, before the request and not with it.      *)
Grant(a) ==
  /\ at[a] = "grant"
  /\ entitled' = [entitled EXCEPT ![Item[row[a]]] = "held"]
  /\ Goto(a, "mark")
  /\ UNCHANGED <<request, verifiedBy, consumed, openFlags, world, sweep, referenced>>

Mark(a) == at[a] = "mark" /\ Resolve(a, "verified")
Reject(a) == at[a] = "reject" /\ Resolve(a, "rejected")

(* A process dies, a statement fails, the gateway answers with an error.   *)
Crash(a) ==
  /\ at[a] # "idle"
  /\ Return(a)
  /\ UNCHANGED <<tables, world, sweep, referenced>>

(***************************************************************************)
(* The weekly reconciliation; one worker runs it.                          *)
(***************************************************************************)

(* Bug variant: the sweep that is due on the last day comes too late.      *)
NarrowWindow(x) == age[x] + 1 < Window

InWindow(x) == age[x] < Window

StartSweep ==
  /\ todo = {}
  /\ todo' = {x \in References : IsConsumed(x) /\ InWindow(x)}
  /\ age' = [x \in References |-> IF IsConsumed(x) /\ age[x] < Window THEN age[x] + 1 ELSE age[x]]
  /\ UNCHANGED <<tables, world, calls, referenced>>

OrderOf(x) == (CHOOSE c \in consumed : c.ref = x).order

(* Bug variant: a flag nobody has reviewed yet does not count.             *)
NeverFlagged(r) == FALSE

IsFlagged(r) == openFlags[r] > 0

(* An order whose flag is open is skipped; reconciliationRecheck asks      *)
(* nothing without a connection and flags what is no longer confirmed.  An *)
(* HTTP error (answered is false) confirms nothing: the adapters only throw*)
(* when the call itself fails.                                             *)
Recheck(x) ==
  /\ x \in todo
  /\ todo' = todo \ {x}
  /\ \E answered \in BOOLEAN :
       openFlags' =
         IF \/ IsFlagged(OrderOf(x)) \/ connection = "absent"
            \/ answered /\ Confirms(x, OrderOf(x))
         THEN openFlags ELSE [openFlags EXCEPT ![OrderOf(x)] = @ + 1]
  /\ UNCHANGED <<request, verifiedBy, entitled, consumed, world, calls, age, referenced>>

(* A poll times out (lost is its reference, which waits for the next sweep)*)
(* or the worker dies (lost is all that is left).  Bound: the last sweep of*)
(* a reference's window does not fail.                                     *)
SweepFails(lost) ==
  /\ \A x \in lost : age[x] < Window
  /\ todo' = todo \ lost
  /\ UNCHANGED <<tables, world, calls, age, referenced>>

(***************************************************************************)
(* Admins at the connection and the flags; buyers of the platform and the  *)
(* Template Store (external).                                              *)
(***************************************************************************)

SetConnection(state) ==
  /\ state # connection
  /\ state = "active" => connection # "absent"
  /\ connection' = state
  /\ UNCHANGED <<tables, reversed, calls, sweep, referenced>>

ResolveFlag(r) ==
  /\ openFlags[r] > 0
  /\ openFlags' = [openFlags EXCEPT ![r] = @ - 1]
  /\ UNCHANGED <<request, verifiedBy, entitled, consumed, world, calls, sweep, referenced>>

(* A reversal matters once the reference was consumed.                     *)
Reverse(x) ==
  /\ x \notin reversed
  /\ IsConsumed(x)
  /\ reversed' = reversed \cup {x}
  /\ UNCHANGED <<tables, connection, calls, sweep, referenced>>

Revoke(k) ==
  /\ entitled[k] = "held"
  /\ entitled' = [entitled EXCEPT ![k] = "revoked"]
  /\ UNCHANGED <<request, verifiedBy, consumed, openFlags, world, calls, sweep, referenced>>

(***************************************************************************)

Start(a) ==
  \E r \in Requests :
    \/ \E x \in References \cup {None} : Submit(a, r, x)
    \/ StartVerify(a, r) \/ StartReject(a, r)

Step(a) ==
  \/ ClaimCooldown(a) \/ CheckPending(a) \/ Create(a) \/ Lookup(a) \/ Poll(a) \/ Consume(a)
  \/ ReadPending(a) \/ Grant(a) \/ Mark(a) \/ Reject(a)

Sweep == StartSweep \/ \E x \in References : Recheck(x)

Outside ==
  \/ \E state \in {"absent", "inactive", "active"} : SetConnection(state)
  \/ \E r \in Requests : ResolveFlag(r)
  \/ \E x \in References : Reverse(x)
  \/ \E k \in Items : Revoke(k)

Next ==
  \/ \E a \in Actors : Start(a) \/ Step(a) \/ Crash(a)
  \/ Sweep
  \/ \E lost \in {{x} : x \in todo} \cup {todo} : lost # {} /\ SweepFails(lost)
  \/ Outside

(* The scheduler starts a sweep every week and the worker ends it.         *)
Spec == Init /\ [][Next]_vars /\ WF_vars(Sweep)

(***************************************************************************)
(* Properties                                                              *)
(***************************************************************************)

(* platform-gateway.service.ts:70-73: a reference is consumed exactly once,*)
(* ever: each request the gateway has granted spent a reference of its own,*)
(* of a payment that was made and, if its amount is known, of that amount, *)
(* however many calls submit it at once and wherever they die.             *)
GrantedIsPaid ==
  /\ \A c, d \in consumed : c.ref = d.ref \/ c.order = d.order => c = d
  /\ \A c \in consumed : c.ref \in Made /\ Matches(c.ref, c.order)
  /\ \A r \in Requests : verifiedBy[r] = "gateway" => \E c \in consumed : c.order = r

(* platform-gateway.service.ts:283-296: of a burst of submissions for one  *)
(* item at most one becomes a pending request (the ones without a        *)
(* reference claim no cooldown and are not counted).                       *)
OnePendingReference ==
  \A q, r \in Requests :
    /\ Item[q] = Item[r]
    /\ request[q] = "pending" /\ request[r] = "pending"
    /\ {q, r} \subseteq referenced
    => q = r

(* template-purchase.service.ts:109-124: a verified purchase has its       *)
(* template, wherever the handler dies, until the Template Store revokes   *)
(* it.                                                                     *)
VerifiedIsOwned ==
  \A r \in Requests :
    request[r] = "verified" => entitled[Item[r]] # "none"

(* platform-gateway-reconciliation.service.ts:19-21: a request is not      *)
(* flagged again while its flag waits for an admin.                        *)
OneOpenFlag == \A r \in Requests : openFlags[r] <= 1

(* platform-gateway.service.ts:350-356: a payment reversed while sweeps    *)
(* enough are left in its window is flagged, unless the connection is      *)
(* removed.                                                                *)
ReversalFlagged ==
  \A x \in Made :
    IsConsumed(x) /\ x \in reversed /\ age[x] < Window
      ~> connection = "absent" \/ \E c \in consumed : c.ref = x /\ openFlags[c.order] > 0
=============================================================================
