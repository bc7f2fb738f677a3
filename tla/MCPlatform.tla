----------------------------- MODULE MCPlatform -----------------------------
\* An order that is accepted, one that each rule refuses, two requests to
\* cancel, and one change of the shipment.
EXTENDS Platform

CONSTANTS
  accepted, longCountry, blankSku, blankCountry, overflow, h1, h2, moved

Orders == {accepted, longCountry, blankSku, blankCountry, overflow}

Word(n) == Text(n, n, 0)

Item(sku, quantity, price) ==
  [sku |-> sku, quantity |-> quantity, price |-> price]

Asked(country, items) ==
  [customer |-> "uuid", header |-> "text", currency |-> Word(3),
   address |-> [street |-> Text(5, 4, 1), country |-> country],
   items |-> items]

Plain == Item(Text(4, 3, 0), 2, 3)

\* The country of accepted is one letter and a blank, of which upper case makes
\* two letters.  The sum of overflow is 50 and its double 48, where MaxExact is 31.
Requests ==
  [o \in Orders |->
     CASE o = accepted     -> Asked(Text(2, 1, 1), <<Plain, Item(Word(1), 1, 9)>>)
       [] o = longCountry  -> Asked(Word(3), <<Plain>>)
       [] o = blankSku     -> Asked(Word(2), <<Item(Text(1, 0, 0), 1, 1)>>)
       [] o = blankCountry -> Asked(Text(2, 1, 0), <<Plain>>)
       [] o = overflow     -> Asked(Word(2),
                                    <<Item(Word(1), 7, 7), Item(Word(1), 1, 1)>>)]

Cancellers == {h1, h2}
Changes == {moved}
OfAccepted == [d \in Changes |-> accepted]
=============================================================================
