------------------------------ MODULE OrderWord ------------------------------
(***************************************************************************)
(* The word an order is stored in (src/common/flat_hash_map.h): its lowest *)
(* bits are the quantity, its top bit the side.  The other book modules    *)
(* keep the side and the quantity apart; here are the calls of the book    *)
(* that pack and unpack the word, and what becomes of an order when it is  *)
(* added with so many shares that they reach the side bit, which only an   *)
(* assert forbids, absent in a release build.                              *)
(***************************************************************************)
EXTENDS Orders

CONSTANTS
  Refs,
  kSideBit,      \* 2^31 in the code
  MaxWide        \* bound on the orders that reach the side bit

ASSUME WordAssumption == kSideBit \in Nat \ {0} /\ MaxWide \in Nat

VARIABLES
  words,           \* the live references and their words
  order_shares,    \* resting_shares()
  told,            \* the orders as the feed told them
  wide             \* orders added that reach the side bit

wordVars == <<words, order_shares, told, wide>>

Quantities == 0 .. 2 * kSideBit - 1     \* a std::uint32_t

Narrow(n) == n < kSideBit

-----------------------------------------------------------------------------
qty(word) == word % kSideBit
buy(word) == word >= kSideBit

SideOf(word) == IF buy(word) THEN "Buy" ELSE "Sell"

\* The side bit is set by an or: what of a buy's quantity is there already stays.
Pack(side, n) == IF side = "Buy" /\ Narrow(n) THEN n + kSideBit ELSE n

WordInit ==
  words = [r \in {} |-> 0] /\ order_shares = 0 /\ told = NoOrders /\ wide = 0

\* add() of a reference that is not live, with the reference `gone` removed just before.
Insert(gone, ref, side, n, toldSide) ==
  LET before == IF gone = {} THEN 0 ELSE qty(words[CHOOSE r \in gone : TRUE])
  IN  /\ wide' = IF Narrow(n) THEN wide ELSE wide + 1
      /\ wide' <= MaxWide
      /\ words' = Put(Restrict(words, DOMAIN words \ gone), ref, Pack(side, n))
      /\ told' = Put(Restrict(told, DOMAIN told \ gone), ref,
                     [side |-> toldSide, price |-> 0, qty |-> n])
      /\ order_shares' = order_shares - before + n

add(ref, side, n) == ref \notin DOMAIN words /\ Insert({}, ref, side, n, side)

ReduceBy(word, shares) == IF shares > qty(word) THEN qty(word) ELSE shares

\* Mutant of Reduced: the word keeps its quantity only.
ReducedWithoutSide(word, n) == qty(word) - n

Reduced(word, n) == Pack(SideOf(word), qty(word) - n)

\* The order dies at zero.
reduce(ref, shares) ==
  LET held == qty(words[ref])
      n == ReduceBy(words[ref], shares)
  IN  /\ ref \in DOMAIN words
      /\ order_shares' = order_shares - n
      /\ IF n = held THEN words' = Drop(words, ref) /\ told' = Drop(told, ref)
         ELSE /\ words' = [words EXCEPT ![ref] = Reduced(@, n)]
              /\ told' = [told EXCEPT ![ref].qty = @ - n]
      /\ UNCHANGED wide

remove(ref) ==
  /\ ref \in DOMAIN words
  /\ order_shares' = order_shares - qty(words[ref])
  /\ words' = Drop(words, ref) /\ told' = Drop(told, ref) /\ UNCHANGED wide

\* The replacement rests on the side of the original's word: no message names it.
replace(ref, new, n) ==
  /\ ref \in DOMAIN words
  /\ new = ref \/ new \notin DOMAIN words
  /\ Insert({ref}, new, SideOf(words[ref]), n, told[ref].side)

WordNext ==
  \E ref \in Refs, n \in Quantities :
    \/ \E side \in Sides : add(ref, side, n)
    \/ reduce(ref, n)
    \/ remove(ref)
    \/ \E new \in Refs : replace(ref, new, n)

WordSpec == WordInit /\ [][WordNext]_wordVars

-----------------------------------------------------------------------------
\* While no order ever reached the side bit, every word says what the feed said: no
\* sequence of reductions and replacements loses a side or leaks it into a quantity.  An
\* order that reaches the bit hides kSideBit of its shares, from then on and from every
\* removal: resting_shares() exceeds what the index holds by exactly that much for each such
\* order there ever was, and never comes back.
WordsTellTheOrders ==
  LET held == UNION {{r} \X (1 .. qty(words[r])) : r \in DOMAIN words}
  IN  /\ wide = 0 => /\ DOMAIN words = DOMAIN told
                     /\ \A r \in DOMAIN words :
                          SideOf(words[r]) = told[r].side /\ qty(words[r]) = told[r].qty
      /\ order_shares = Cardinality(held) + wide * kSideBit
=============================================================================
