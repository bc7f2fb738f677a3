----------------------------- MODULE OrderRules -----------------------------
(***************************************************************************)
(* What order-service accepts: a request passes the DTO, Order.place, the  *)
(* event schema and the columns of order_db, in this order.  Each of the   *)
(* four has rules of its own, the last two after trimming and summing.     *)
(*                                                                         *)
(* A text is reduced to its length, its length once trimmed, and the       *)
(* letters it gains in upper case, where one letter may become two.  One   *)
(* text stands for sku and name, and one for the lines of an address that  *)
(* have the same rule.  MaxColumn and MaxExact stand for 2^31 - 1 and 2^53.*)
(***************************************************************************)
EXTENDS Integers, Sequences

CONSTANTS
  MaxColumn,        \* largest value of an INTEGER column
  MaxExact          \* up to here every integer is a number of JavaScript

ASSUME WidthAssumption ==
  /\ MaxColumn \in Nat /\ MaxExact \in Nat
  /\ MaxColumn < MaxExact

Text(n, m, k) == [length |-> n, trimmed |-> m, grows |-> k]

\* What a request can say, once its body has the types of the DTO.
AnyText == [length : Nat, trimmed : Nat, grows : Nat]

AnyItem == [sku : AnyText, quantity : Int, price : Int]

AnyRequest ==
  [customer : {"uuid", "text"}, header : {"uuid", "text"}, currency : AnyText,
   address  : [street : AnyText, country : AnyText], items : Seq(AnyItem)]

Trim(t) == Text(t.trimmed, t.trimmed, t.grows)

Upper(t) == Text(t.length + t.grows, t.trimmed + t.grows, 0)

-----------------------------------------------------------------------------
(***************************************************************************)
(* ValidationPipe and the correlation middleware.                          *)
(***************************************************************************)

ItemDtoValid(i) == i.sku.length >= 1 /\ i.quantity >= 1 /\ i.price >= 0

AddressDtoValid(a) == a.street.length >= 1 /\ a.country.length = 2

DtoValid(r) ==
  /\ r.customer = "uuid"
  /\ r.currency.length = 3
  /\ r.items # << >>
  /\ \A n \in DOMAIN r.items : ItemDtoValid(r.items[n])
  /\ AddressDtoValid(r.address)

\* A header that is no UUID is replaced by a new id.
CorrelationId(r) == IF r.header = "uuid" THEN r.header ELSE "uuid"

-----------------------------------------------------------------------------
(***************************************************************************)
(* Order and OrderItem.                                                    *)
(***************************************************************************)

ItemCreatable(i) == i.sku.trimmed >= 1 /\ i.quantity >= 1 /\ i.price >= 0

ItemCreated(i) == [i EXCEPT !.sku = Trim(i.sku)]

\* The constructor takes items that could be created.
Constructible(o, currency) ==
  /\ currency.trimmed = 3
  /\ o.items # << >>
  /\ \A n \in DOMAIN o.items : ItemCreatable(o.items[n])

Placeable(r) == Constructible(r, Upper(r.currency))

\* The currency is not trimmed.
Place(r) ==
  [customer |-> r.customer, currency |-> Upper(r.currency),
   items    |-> [n \in DOMAIN r.items |-> ItemCreated(r.items[n])],
   address  |-> [street  |-> Trim(r.address.street),
                 country |-> Upper(Trim(r.address.country))]]

Rebuildable(o) == Constructible(o, o.currency)

\* findById: the order built again from its rows, which have no address.
Rehydrated(o) ==
  [customer |-> o.customer, currency |-> o.currency,
   items    |-> [n \in DOMAIN o.items |-> ItemCreated(o.items[n])]]

\* Doubles skip integers above MaxExact; which neighbour they take makes no
\* difference here.
Float(n) == IF n <= MaxExact THEN n ELSE n - (n % 2)

TotalCents(o) ==
  LET sum[n \in 0 .. Len(o.items)] ==
        IF n = 0 THEN 0
        ELSE Float(sum[n - 1] + Float(o.items[n].quantity * o.items[n].price))
  IN  sum[Len(o.items)]

-----------------------------------------------------------------------------
(***************************************************************************)
(* The event and the rows.                                                 *)
(***************************************************************************)

\* orderCreatedEventSchema, which the producer and both consumers parse with.
SchemaAccepts(o, correlation) ==
  /\ o.customer = "uuid" /\ correlation = "uuid"
  /\ o.currency.length = 3
  /\ o.address.street.length >= 1 /\ o.address.country.length = 2
  /\ o.items # << >>
  /\ \A n \in DOMAIN o.items :
       LET i == o.items[n]
       IN  i.sku.length >= 1 /\ i.quantity >= 1 /\ i.price >= 0

\* Slip: the total has a wider column than its summands.
StorableItems(o) ==
  \A n \in DOMAIN o.items :
    o.items[n].quantity <= MaxColumn /\ o.items[n].price <= MaxColumn

Storable(o) ==
  /\ TotalCents(o) <= MaxColumn
  /\ \A n \in DOMAIN o.items :
       o.items[n].quantity <= MaxColumn /\ o.items[n].price <= MaxColumn
=============================================================================
