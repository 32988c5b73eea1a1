------------------------------- MODULE MCOrders -------------------------------
(***************************************************************************)
(* Instances of Orders for TLC: two or three orders that compete for a     *)
(* short shelf.                                                            *)
(***************************************************************************)
EXTENDS OrderProperties, TLC

CONSTANTS a, b, o1, o2, wi, w1, w2

TwoLines == {a, b}
\* o1 buys both lines, o2 and the counter sale compete with it for b.
Basket(o, l) == IF l = b \/ o = o1 THEN 1 ELSE 0
MCCart    == [o \in Orders |-> [l \in Lines |-> Basket(o, l)]]
Plenty    == [l \in Lines |-> 3]
OneEach   == [l \in Lines |-> 1]
TwoEach   == [l \in Lines |-> 2]

AnyMove   == Statuses \X Statuses
\* The buttons of the order card (js/admin.js `orderActionsHTML`) less those
\* that reopen an order.
NoReopen == {<<"pending", "confirmed">>, <<"pending", "declined">>,
              <<"pending", "pending">>}
PanelMoves == NoReopen \cup {<<"confirmed", "pending">>, <<"declined", "pending">>}
\* Confirm and decline, and decline what was confirmed: nothing is reopened.
OneWay    == NoReopen \cup {<<"confirmed", "declined">>}
NoMoves   == {}

\* Request threads are interchangeable.
Threads == Permutations(Workers)

EveryCall == Calls
NoCall    == {}
\* Everything may fail but the deletion that undoes a checkout.
ButUndo   == Calls \ {"undo"}
\* Any reply may be lost but the order upsert's.
ButOrder  == Calls \ {"order"}
\* The cache and the boot restore work.
CacheWorks == Calls \ {"cache", "boot"}
\* Calls whose failure the code answers for, giving back what it took or
\* telling the admin.
Handled   == {"reserve", "upload", "order", "receipt", "mirror"}
HandledLosses == {"mirror"}
==============================================================================
