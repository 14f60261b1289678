----------------------------- MODULE MCServices -----------------------------
(***************************************************************************)
(* Instances of QueryCache, ShoppingCart, OrderProcessing, SearchGuard and *)
(* WordCount for TLC.  The five programs have nothing to do with each      *)
(* other, so a behaviour is one of a single program, chosen in the initial *)
(* state; the others stay in an initial state of theirs.                   *)
(***************************************************************************)
EXTENDS QueryCache, ShoppingCart, OrderProcessing, SearchGuard, WordCount

CONSTANTS q1, q2, known, unknown,    \* queries
          a1, a2, a3, c1, pen, ink   \* carts

VARIABLE program

queries  == <<vars, queryVars>>
programs == <<program, queries, cartVars, orderVars, searchVars, wordVars>>

\* Two events of the one registered player.
EventOfRequest == [q \in Requests |-> q]

OnePlayer == [e \in Events |-> known]

OnePartition == [x \in Players |-> 1]

\* One request lists a product twice.
Listings == [a \in Adds |-> CASE a = a1 -> <<pen, pen>>
                              [] a = a2 -> <<pen, ink>>
                              [] OTHER  -> <<ink>>]

OneCart == [a \in Adds |-> c1]

\* A job of three chunks about any text of three or four characters, an empty
\* one or one of five, and a job of two chunks about "a a".
ThreeAndTwo == <<3, 2>>

ShortTexts ==
  << {<<>>, <<"a", "a", " ", "a", "a">>} \cup [1 .. 3 -> Characters] \cup [1 .. 4 -> Characters],
     {<<"a", " ", "a">>} >>

ProgramInit ==
  /\ program \in {"queries", "carts", "orders", "search", "words"}
  /\ QueryInit /\ (program # "queries" => stack = "direct" /\ ~caching)
  /\ CartInit /\ (program # "carts" => backend = "mysql")
  /\ OrderInit
  /\ SearchInit
  /\ WordInit

ProgramNext ==
  /\ UNCHANGED program
  /\ \/ /\ program = "queries" /\ QueryNext
        /\ UNCHANGED <<cartVars, orderVars, searchVars, wordVars>>
     \/ /\ program = "carts" /\ CartNext
        /\ UNCHANGED <<queries, orderVars, searchVars, wordVars>>
     \/ /\ program = "orders" /\ OrderNext
        /\ UNCHANGED <<queries, cartVars, searchVars, wordVars>>
     \/ /\ program = "search" /\ SearchNext
        /\ UNCHANGED <<queries, cartVars, orderVars, wordVars>>
     \/ /\ program = "words" /\ WordNext
        /\ UNCHANGED <<queries, cartVars, orderVars, searchVars>>

\* No fair action is enabled in an initial state of its program, so fairness asks
\* nothing of the programs that were not chosen.
ProgramSpec ==
  ProgramInit /\ [][ProgramNext]_programs /\ QueryFairness /\ OrderFairness /\ SearchFairness
=============================================================================
