---------------------------- MODULE ShoppingCart ----------------------------
(***************************************************************************)
(* The shopping carts of CS6650_hw8/service: AddItems over either of its   *)
(* two stores.  MySQLStore inserts rows in a transaction and then reads    *)
(* the cart; DynamoStore reads the cart, merges the items into it and      *)
(* writes the list back, without a condition.  GetItem does not ask for a  *)
(* consistent read, so it may show the cart as it was at any time before.  *)
(*                                                                         *)
(* A request lists products; each listing is an item of quantity one.      *)
(***************************************************************************)
EXTENDS Integers, Sequences, SequencesExt

CONSTANTS Carts, Products,
          Adds,      \* POST /shopping-carts/{id}/items requests
          CartOf,    \* CartOf[a]: the cart the request a names
          ItemsOf,   \* ItemsOf[a]: the products it lists, in order
          MaxErrors  \* bound on the database calls that fail

ASSUME AddsAssumption ==
  IsFiniteSet(Adds) /\ CartOf \in [Adds -> Carts] /\ ItemsOf \in [Adds -> Seq(Products)]

VARIABLES
  backend,  \* DB_BACKEND
  states,   \* states[c]: the item lists cart c has had, the current one last
  add,      \* add[a]: how far a is, the cart it has read, its answer's items
  errors    \* number of failed calls

cartVars == <<backend, states, add, errors>>

CartInit ==
  /\ backend \in {"mysql", "dynamodb"}
  /\ states = [c \in Carts |-> <<>>]
  /\ add = [a \in Adds |-> [phase |-> "none", items |-> <<>>]]
  /\ errors = 0

Current(c) == Last(states[c])

\* What GetCart may find: nothing, or a list of items.
Found(c) ==
  IF backend = "mysql"
  THEN IF states[c] = <<>> THEN {} ELSE {Current(c)}
  ELSE ToSet(states[c])

MayMiss(c) == backend = "dynamodb" \/ states[c] = <<>>

Error == errors < MaxErrors /\ errors' = errors + 1

Step(a, phase, items) == add' = [add EXCEPT ![a] = [phase |-> phase, items |-> items]]

Save(c, items) == states' = [states EXCEPT ![c] = Append(@, items)]

\* CreateCart: a new id every time, and no items.
CreateCart(c) ==
  /\ states[c] = <<>>
  /\ Save(c, <<>>)
  /\ UNCHANGED <<backend, add, errors>>

\* One row for each item: no key of cart_items makes two rows meet.
Rows(a) == [i \in DOMAIN ItemsOf[a] |-> [product |-> ItemsOf[a][i], quantity |-> 1]]

\* What a transaction that ends in an error has inserted: all, if the error is
\* that of the commit's answer, or nothing.
InsertedOnError_NoTx(a) == {SubSeq(Rows(a), 1, i) : i \in 0 .. Len(Rows(a))}

InsertedOnError(a) == {<<>>, Rows(a)}

\* MySQLStore.AddItems up to the commit.
Insert(a) ==
  /\ backend = "mysql"
  /\ add[a].phase = "none"
  /\ LET c == CartOf[a] IN
       \/ /\ states[c] = <<>>
          /\ Step(a, "not found", <<>>)
          /\ UNCHANGED <<states, errors>>
       \/ /\ states[c] # <<>>
          /\ \/ /\ Save(c, Current(c) \o Rows(a))
                /\ Step(a, "inserted", <<>>)
                /\ UNCHANGED errors
             \/ /\ Error
                /\ \E rows \in InsertedOnError(a) : Save(c, Current(c) \o rows)
                /\ Step(a, "error", <<>>)
  /\ UNCHANGED backend

\* MySQLStore.AddItems reads the cart for its answer.
ReadBack(a) ==
  /\ add[a].phase = "inserted"
  /\ \/ Step(a, "ok", Current(CartOf[a])) /\ UNCHANGED errors
     \/ Error /\ Step(a, "error", <<>>)
  /\ UNCHANGED <<backend, states>>

\* DynamoStore.AddItems reads the cart.
GetItem(a) ==
  /\ backend = "dynamodb"
  /\ add[a].phase = "none"
  /\ \/ MayMiss(CartOf[a]) /\ Step(a, "not found", <<>>) /\ UNCHANGED errors
     \/ \E items \in Found(CartOf[a]) : Step(a, "read", items) /\ UNCHANGED errors
     \/ Error /\ Step(a, "error", <<>>)
  /\ UNCHANGED <<backend, states>>

Listed(products, p) == {i \in DOMAIN products : products[i] = p}

\* Where a list holds a product, and the k-th of a set of places.
Holding(items, p) == {i \in DOMAIN items : items[i].product = p}

Nth(S, k) == CHOOSE i \in S : Cardinality(S \cap 1 .. i) = k

\* The merge: idx knows the items that were there, the last of a product, ...
Raised(old, products) ==
  [i \in DOMAIN old |->
     IF \A j \in Holding(old, old[i].product) : j <= i
     THEN [old[i] EXCEPT !.quantity = @ + Cardinality(Listed(products, old[i].product))]
     ELSE old[i]]

\* ... and none of those this request adds.
Fresh(old, products) == {i \in DOMAIN products : Holding(old, products[i]) = {}}

FreshRows(old, products) ==
  LET fresh == Fresh(old, products) IN
    [k \in 1 .. Cardinality(fresh) |-> [product |-> products[Nth(fresh, k)], quantity |-> 1]]

Merge(old, products) == Raised(old, products) \o FreshRows(old, products)

\* DynamoStore.AddItems writes the list back.  The SDK tries again when an
\* answer is lost, so one write may be applied more than once.
UpdateItem(a) ==
  /\ add[a].phase = "read"
  /\ LET c == CartOf[a]  merged == Merge(add[a].items, ItemsOf[a]) IN
       \/ /\ Save(c, merged)
          /\ Step(a, "ok", merged)
          /\ UNCHANGED errors
       \/ /\ Error
          /\ Save(c, merged)
          /\ Step(a, "error", <<>>) \/ UNCHANGED add
       \/ Error /\ Step(a, "error", <<>>) /\ UNCHANGED states
  /\ UNCHANGED backend

CartNext ==
  \/ \E c \in Carts : CreateCart(c)
  \/ \E a \in Adds : Insert(a) \/ ReadBack(a) \/ GetItem(a) \/ UpdateItem(a)

CartSpec == CartInit /\ [][CartNext]_cartVars

-----------------------------------------------------------------------------
\* How many of product p a list of items holds, and the requests of a set ask for.
Units(items, p) ==
  UNION {{i} \X (1 .. items[i].quantity) : i \in Holding(items, p)}

InCart(items, p) == Cardinality(Units(items, p))

Asked(requests, p) == Cardinality(UNION {{a} \X Listed(ItemsOf[a], p) : a \in requests})

\* A cart never holds a part of a request, or a request twice, whatever
\* overlaps, fails or is retried: what it holds of every product is what some
\* set of its requests asked for.  With MySQL every request answered 200 is in
\* that set; DynamoStore's unconditional write may lose one.
CartHoldsWholeRequests ==
  \A c \in Carts : states[c] # <<>> =>
    LET sent == {a \in Adds : CartOf[a] = c} IN
      \E kept \in SUBSET sent :
        /\ \A p \in Products : InCart(Current(c), p) = Asked(kept, p)
        /\ backend = "mysql" => {a \in sent : add[a].phase = "ok"} \subseteq kept
=============================================================================
