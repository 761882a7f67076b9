----------------------------- MODULE Storefront -----------------------------
(***************************************************************************)
(* The stock of a published storefront: createWebsiteOrder and the order   *)
(* and inventory mutations of apps/web/src/lib/website-admin-server.ts     *)
(* over the functions of 202608110002_website_inventory.sql.               *)
(*                                                                         *)
(* A checkout reads the published products, reserves its lines in one      *)
(* transaction, and only then looks at the rate limit and inserts the      *)
(* order, call by call.  An owner changes the status of an order in two    *)
(* calls, and a cancellation then gives the stock back in one call per     *)
(* line.  Checkouts and requests of owners interleave between calls, and   *)
(* any of them may end early.  The order form is modelled for one buyer.   *)
(***************************************************************************)
EXTENDS Naturals, FiniteSets, Functions

CONSTANTS
  Skus,         \* products with a SKU
  Orders,       \* checkouts, and the orders they become
  Owners,       \* requests of owners that may be under way together
  Stocks,       \* stocks a product may be published with
  MaxQuantity,  \* highest quantity of one line
  OrderLimit,   \* orders a buyer may place in ten minutes (5)
  Untracked     \* "no stock is published for the product"

ASSUME StoreAssumption ==
  /\ IsFiniteSet(Orders) /\ IsFiniteSet(Owners)
  /\ Stocks \subseteq Nat
  /\ MaxQuantity \in Nat \ {0}
  /\ OrderLimit \in Nat
  /\ Untracked \notin Nat

VARIABLES
  stock,      \* the published stock of each product
  sold,       \* website_inventory.sold, 0 for a product without a row
  orders,     \* the rows of website_storefront_orders
  checkouts,  \* what each checkout has read and does next
  owners,     \* what each request of an owner has read and does next
  peak,       \* history: the highest stock each product was published with
  ledger      \* history: "exact" until units are left reserved for nothing ("leaky") or
              \* something happens that the ledger does not survive ("broken")

storeVars == <<stock, sold, orders, checkouts, owners, peak, ledger>>

-----------------------------------------------------------------------------

Quantities == 0 .. MaxQuantity
Published == Stocks \cup {Untracked}

\* reserved is history: the lines the checkout reserved.
Order == [status : {"none", "open", "cancelled"}, items : [Skus -> Quantities],
          reserved : SUBSET Skus, recent : BOOLEAN]

Checkout == [at : {"idle", "reserve", "check", "insert", "over"},
             items : [Skus -> Quantities], limits : [Skus -> Published \cup {0}]]

\* previous: the status the owner's request read; left: the lines to restock.
Owner == [at : {"idle", "update", "restock"}, order : Orders \cup {Untracked},
          to : {"none", "open", "cancelled"}, previous : {"none", "open", "cancelled"},
          left : SUBSET Skus]

StoreTypeOK ==
  /\ stock \in [Skus -> Published]
  /\ sold \in [Skus -> 0 .. MaxQuantity * Cardinality(Orders)]
  /\ orders \in [Orders -> Order]
  /\ checkouts \in [Orders -> Checkout]
  /\ owners \in [Owners -> Owner]
  /\ peak \in [Skus -> Stocks]
  /\ ledger \in {"exact", "leaky", "broken"}

NoItems == [s \in Skus |-> 0]
NewCheckout == [at |-> "idle", items |-> NoItems, limits |-> NoItems]
IdleOwner == [at |-> "idle", order |-> Untracked, to |-> "none", previous |-> "none",
              left |-> {}]

StoreInit ==
  /\ stock \in [Skus -> Stocks]
  /\ sold = [s \in Skus |-> 0]
  /\ orders = [o \in Orders |-> [status |-> "none", items |-> NoItems, reserved |-> {},
                                 recent |-> FALSE]]
  /\ checkouts = [o \in Orders |-> NewCheckout]
  /\ owners = [w \in Owners |-> IdleOwner]
  /\ peak = stock
  /\ ledger = "exact"

\* The products an order has a line for.
Lines(items) == {s \in Skus : items[s] > 0}
\* orderStockLines: the lines whose product had a stock when the checkout read it.
Tracked(c) == {s \in Lines(c.items) : c.limits[s] # Untracked}
\* Units are lost to the ledger, or it counts too few, if so.
Leaks(if) == ledger' = IF if /\ ledger = "exact" THEN "leaky" ELSE ledger
Breaks(if) == ledger' = IF if THEN "broken" ELSE ledger
Over(o) == checkouts' = [checkouts EXCEPT ![o] = [NewCheckout EXCEPT !.at = "over"]]

-----------------------------------------------------------------------------
(* createWebsiteOrder *)

\* priceCheckout: every line must fit the published stock by itself.
BeginCheckout(o) ==
  /\ checkouts[o].at = "idle"
  /\ \E items \in [Skus -> Quantities] :
       /\ Lines(items) # {}
       /\ \A s \in Lines(items) : stock[s] # Untracked => items[s] <= stock[s]
       /\ LET limits == [s \in Skus |-> IF s \in Lines(items) THEN stock[s] ELSE 0]
          IN checkouts' = [checkouts EXCEPT
                             ![o] = [at |-> "reserve", items |-> items, limits |-> limits]]
  /\ UNCHANGED <<stock, sold, orders, owners, peak, ledger>>

\* Fault: the update of the row forgets what is sold already.
FitsAlone(c, s) == c.items[s] <= c.limits[s]

Fits(c, s) == sold[s] + c.items[s] <= c.limits[s]

\* website_reserve_order_stock: one line that does not fit undoes the others.
Reserved(c) ==
  IF \A s \in Tracked(c) : Fits(c, s)
  THEN [s \in Skus |-> IF s \in Tracked(c) THEN sold[s] + c.items[s] ELSE sold[s]]
  ELSE sold

\* The rows stay locked until the transaction ends; one that waits for a row another
\* holds may be ended by the database as a deadlock, which is answered as a shortage.
Reserve(o) ==
  LET c == checkouts[o]
      fits == \A s \in Tracked(c) : Fits(c, s)
  IN /\ c.at = "reserve"
     /\ \/ /\ sold' = Reserved(c)
           /\ IF fits THEN checkouts' = [checkouts EXCEPT ![o].at = "check"] ELSE Over(o)
        \/ /\ Tracked(c) # {}
           /\ Over(o)
           /\ UNCHANGED sold
     /\ UNCHANGED <<stock, orders, owners, peak, ledger>>

\* A checkout that ends after it reserved leaves its units reserved.
LeaveReserved(o) ==
  /\ Over(o)
  /\ Leaks(Tracked(checkouts[o]) # {})

CheckRate(o) ==
  /\ checkouts[o].at = "check"
  /\ IF Cardinality({p \in Orders : orders[p].recent}) >= OrderLimit
     THEN LeaveReserved(o)
     ELSE checkouts' = [checkouts EXCEPT ![o].at = "insert"] /\ UNCHANGED ledger
  /\ UNCHANGED <<stock, sold, orders, owners, peak>>

InsertOrder(o) ==
  /\ checkouts[o].at = "insert"
  /\ orders' = [orders EXCEPT ![o] = [status |-> "open", items |-> checkouts[o].items,
                                      reserved |-> Tracked(checkouts[o]), recent |-> TRUE]]
  /\ Over(o)
  /\ UNCHANGED <<stock, sold, owners, peak, ledger>>

\* A call fails, or the function instance ends.
AbandonCheckout(o) ==
  /\ checkouts[o].at \in {"check", "insert"}
  /\ LeaveReserved(o)
  /\ UNCHANGED <<stock, sold, orders, owners, peak>>

TenMinutesPass(o) ==
  /\ orders[o].recent
  /\ orders' = [orders EXCEPT ![o].recent = FALSE]
  /\ UNCHANGED <<stock, sold, checkouts, owners, peak, ledger>>

-----------------------------------------------------------------------------
(* mutateWebsiteAdmin: update-order-status and reset-inventory *)

\* "open" stands for pending, paid, shipped and completed, which no step tells apart.
ReadOrder(w, o) ==
  /\ owners[w].at = "idle"
  /\ orders[o].status # "none"
  /\ \E to \in {"open", "cancelled"} :
       owners' = [owners EXCEPT ![w] = [at |-> "update", order |-> o, to |-> to,
                                        previous |-> orders[o].status, left |-> {}]]
  /\ UNCHANGED <<stock, sold, orders, checkouts, peak, ledger>>

Restocks(w) == owners[w].to = "cancelled" /\ owners[w].previous # "cancelled"

\* The status is written whatever it is by now.  Reopening reserves nothing, and two
\* requests that both read the order as open both restock it.
UpdateOrder(w) ==
  LET o == owners[w].order
      lines == Lines(orders[o].items)
  IN /\ owners[w].at = "update"
     /\ orders' = [orders EXCEPT ![o].status = owners[w].to]
     /\ owners' = [owners EXCEPT ![w] =
                     IF Restocks(w) THEN [@ EXCEPT !.at = "restock", !.left = lines]
                     ELSE IdleOwner]
     /\ LET reopens == orders[o].status = "cancelled" /\ owners[w].to = "open"
            races == orders[o].status # owners[w].previous /\ owners[w].to = "cancelled"
        IN Breaks(reopens \/ races)
     /\ UNCHANGED <<stock, sold, checkouts, peak>>

\* greatest(0, sold - p_qty)
Less(n, quantity) == IF n < quantity THEN 0 ELSE n - quantity

\* website_release_order_stock for one line, also one that was not reserved because the
\* product had no stock then.  The error of a call that fails is not looked at.
Restock(w, s) ==
  LET o == owners[w].order
      left == owners[w].left \ {s}
  IN /\ owners[w].at = "restock"
     /\ s \in owners[w].left
     /\ \/ /\ sold' = [sold EXCEPT ![s] = Less(@, orders[o].items[s])]
           /\ Breaks(s \notin orders[o].reserved)
        \/ /\ Leaks(s \in orders[o].reserved)
           /\ UNCHANGED sold
     /\ owners' = [owners EXCEPT ![w] = IF left = {} THEN IdleOwner ELSE [@ EXCEPT !.left = left]]
     /\ UNCHANGED <<stock, orders, checkouts, peak>>

AbandonMutation(w) ==
  /\ owners[w].at # "idle"
  /\ Leaks(owners[w].at = "restock")
  /\ owners' = [owners EXCEPT ![w] = IdleOwner]
  /\ UNCHANGED <<stock, sold, orders, checkouts, peak>>

\* The rows of the ledger are deleted, whatever orders are open.
ResetInventory ==
  /\ sold # NoItems
  /\ sold' = NoItems
  /\ Breaks(TRUE)
  /\ UNCHANGED <<stock, orders, checkouts, owners, peak>>

\* External: the site is published again with another stock, or none.
Republish(s, n) ==
  /\ stock[s] # n
  /\ stock' = [stock EXCEPT ![s] = n]
  /\ peak' = [peak EXCEPT ![s] = IF n # Untracked /\ n > @ THEN n ELSE @]
  /\ UNCHANGED <<sold, orders, checkouts, owners, ledger>>

StoreNext ==
  \/ \E o \in Orders :
       \/ BeginCheckout(o) \/ Reserve(o) \/ CheckRate(o) \/ InsertOrder(o)
       \/ AbandonCheckout(o) \/ TenMinutesPass(o)
  \/ \E w \in Owners :
       \/ \E o \in Orders : ReadOrder(w, o)
       \/ UpdateOrder(w) \/ AbandonMutation(w)
       \/ \E s \in Skus : Restock(w, s)
  \/ ResetInventory
  \/ \E s \in Skus, n \in Published : Republish(s, n)

StoreSpec == StoreInit /\ [][StoreNext]_storeVars

-----------------------------------------------------------------------------
(* Properties *)

InOrders(s) ==
  SumFunctionOnSet([o \in Orders |-> orders[o].items[s]],
                   {o \in Orders : orders[o].status = "open" /\ s \in orders[o].reserved})

InCheckouts(s) ==
  SumFunctionOnSet([o \in Orders |-> checkouts[o].items[s]],
                   {o \in Orders : checkouts[o].at \in {"check", "insert"} /\ s \in Tracked(checkouts[o])})

Returning(s) ==
  SumFunctionOnSet([w \in Owners |-> orders[owners[w].order].items[s]],
                   {w \in Owners : s \in owners[w].left /\ s \in orders[owners[w].order].reserved})

\* "Reserve live stock atomically before recording the order; a shortfall here rejects the
\* whole checkout so the storefront never oversells": open orders hold no more units of a
\* product than were ever published for it, unless an order was reopened, cancelled twice
\* at once or restocked without having been reserved, or the ledger was reset.
NeverOversells ==
  ledger # "broken" => \A s \in Skus : InOrders(s) <= peak[s]

\* With the same exceptions every unit of an open order, of a checkout between its
\* reservation and its order, and of a cancellation that is not through is counted as
\* sold: no interleaving of checkouts and cancellations gives a unit back too early or
\* twice.
LedgerCovers ==
  ledger # "broken" => \A s \in Skus : InOrders(s) + InCheckouts(s) + Returning(s) <= sold[s]

\* Nothing else is counted as sold, unless a checkout ended after it had reserved or a
\* call of a cancellation failed: a refused checkout reserves nothing.
LedgerReturns ==
  ledger = "exact" => \A s \in Skus : sold[s] <= InOrders(s) + InCheckouts(s) + Returning(s)

\* What holds of the stock and its ledger at any instant.
StoreSafe ==
  /\ StoreTypeOK
  /\ NeverOversells
  /\ LedgerCovers
  /\ LedgerReturns

=============================================================================
