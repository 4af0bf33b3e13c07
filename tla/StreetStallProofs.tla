------------------------- MODULE StreetStallProofs -------------------------
(***************************************************************************)
(* Theorems of StreetStall, for any set of players, of kinds, of prices    *)
(* and of cells: guests and stalls agree, what is on offer is there, the   *)
(* cells of new items are kept for them, and trades go as they were shown. *)
(*                                                                         *)
(* The inductive invariants are, one on top of the other: the shape of     *)
(* the state; what a request may still take for granted when it is         *)
(* handled (Requests); the guests (Visits); the lists of articles, the     *)
(* items and the locks (Lists); the reserved cells (Reserves).  On these   *)
(* rest Goods: an item's number tells its kind (Named), every number of    *)
(* pieces and every price is one (Counted, Priced), purses keep within     *)
(* their limit (Purses), and a request names what its player was shown     *)
(* (Fairly).                                                               *)
(***************************************************************************)
EXTENDS StreetStall, FiniteSetTheorems, WellFoundedInduction, TLAPS

-----------------------------------------------------------------------------
(* The invariants *)

IsArticle(a) ==
  /\ DOMAIN a = {"id", "kind", "slot", "n", "price", "lock"}
  /\ a = NoArticle \/ a.kind \in Kind

IsList(v) == DOMAIN v = Cell /\ \A c \in Cell : IsArticle(v[c])

IsStall(x) ==
  /\ x = [kind |-> x.kind, cells |-> x.cells, guests |-> x.guests, total |-> x.total]
  /\ x.kind \in {"SELL", "BUY"} /\ x.guests \subseteq Player
  /\ IsList(x.cells)

IsItem(x) == x = NoItem \/ (x = ItemOf(x.id, x.kind, x.n) /\ x.kind \in Kind)

Stalls == DOMAIN stall = Player /\ \A p \in Player : stall[p] = NoStall \/ IsStall(stall[p])

Items == /\ DOMAIN inv = Player
         /\ \A p \in Player : DOMAIN inv[p] = Slot /\ \A s \in Slot : IsItem(inv[p][s])

Rest ==
  /\ online \subseteq Player
  /\ state \in [Player -> {"None", "Owner", "Guest", "Die"}]
  /\ guestStall \in [Player -> Player \cup {NoPlayer}]
  /\ locked \in [Player -> SUBSET Slot] /\ reserved \in [Player -> SUBSET Slot]
  /\ \A r \in inserts : r.who \in Player /\ r.slot \in Slot /\ r.kind \in Kind

(* The kind of a player's stall, and whether none of its articles is of a cell *)
KindOf(p) == stall[p].kind
Free(p, s) == KindOf(p) = "SELL" => \A c \in Filled(p) : Article(p, c).slot # s

(* What the handler of a player's request needs not ask again, because only the
   player itself could have changed it, and has a request under way *)
OfOwner(p) == LET m == asked[p] IN
  /\ m # NoRequest => p \in online
  /\ m.type = "OPEN" => KindOf(p) = "NONE" /\ m.kind \in {"SELL", "BUY"}
  /\ m.type \in {"REGIST", "LOCK", "UNLOCK", "DELETE"} => KindOf(p) # "BUY"
  /\ m.type \in {"REGISTBUY", "UPDATE", "UPDATEEND", "DELETEBUY"} => KindOf(p) # "SELL"
  /\ m.type = "REGIST" => m.slot \in Slot
  /\ m.type = "REGISTBUY" => m.cell \in Cell /\ m.kind \in Kind

OfGuest(p) == LET m == asked[p] IN
  /\ m.type = "GUESTIN" => m.owner \in Player \ {p} /\ guestStall[p] = NoPlayer
  /\ m.type \in {"BUY", "SELL"} => m.owner \in Player \ {p} /\ m.cell \in Cell
  /\ m.type = "BUY" /\ guestStall[p] = m.owner => KindOf(m.owner) = "SELL"
  /\ m.type = "SELL" /\ guestStall[p] = m.owner => KindOf(m.owner) = "BUY"

OfItems(p) == LET m == asked[p] IN
  /\ m.type \in {"SELL", "MOVE"} => m.slot \in Slot /\ Free(p, m.slot)
  /\ m.type = "MOVE" => m.to \in Slot \ {m.slot} /\ Free(p, m.to)

Requests == DOMAIN asked = Player /\ \A p \in Player : OfOwner(p) /\ OfGuest(p) /\ OfItems(p)

(* GuestsSound, and nobody is a guest of its own stall. *)
Visits == GuestsSound /\ \A p \in Player : guestStall[p] # p

(* The articles of a stall that sells: without a hole, each one item of its
   owner's cell and no item twice *)
Backed(o) ==
  KindOf(o) = "SELL" =>
    /\ \E n \in 0..NCells : Filled(o) = 1..n
    /\ \A c \in Filled(o) : LET a == Article(o, c) IN
         a.slot \in Slot /\ inv[o][a.slot] = ItemOf(a.id, a.kind, a.n)
    /\ \A c, d \in Filled(o) : Article(o, c).id = Article(o, d).id => c = d

Sold(o) == {c \in Cell : KindOf(o) = "SELL" /\ c \in Filled(o) /\ Article(o, c).lock}

LockedOf(o) == locked[o] = {Article(o, c).slot : c \in Sold(o)}

Lists == \A o \in Player : Backed(o) /\ LockedOf(o)

Reserves ==
  \A p \in online :
    /\ reserved[p] = {r.slot : r \in {q \in inserts : q.who = p}}
    /\ \A r, q \in inserts : r.who = p /\ q.who = p /\ r.slot = q.slot => r = q
    /\ \A s \in reserved[p] : inv[p][s] = NoItem


-----------------------------------------------------------------------------
(* Records *)

\* What there is can be told from what there is not by its kind.
LEMMA Distinct ==
  /\ NoKind \notin Kind
  /\ NoItem.kind = NoKind /\ NoArticle.kind = NoKind /\ NoStall.kind = "NONE"
  /\ \A i, k, n : ItemOf(i, k, n).id = i /\ ItemOf(i, k, n).kind = k /\ ItemOf(i, k, n).n = n
BY StallAssumption DEF NoItem, NoArticle, NoStall, ItemOf, ArticleOf

On(y, a) == y = [a EXCEPT !.lock = TRUE]
Off(y, a) == y = [a EXCEPT !.lock = FALSE]
Renumbered(y, a, n) == y = [a EXCEPT !.n = n]
Repriced(y, a, q) == y = [a EXCEPT !.price = q, !.lock = TRUE]

Alike(y, a) == y.id = a.id /\ y.kind = a.kind /\ y.slot = a.slot

\* An article keeps all but its lock, its number or its price.
LEMMA TurnedOn ==
  ASSUME NEW a, IsArticle(a), a.kind # NoKind, NEW y, On(y, a)
  PROVE  IsArticle(y) /\ Alike(y, a) /\ y.lock /\ y.n = a.n
BY Distinct DEF IsArticle, On, Alike

LEMMA TurnedOff ==
  ASSUME NEW a, IsArticle(a), a.kind # NoKind, NEW y, Off(y, a)
  PROVE  IsArticle(y) /\ Alike(y, a) /\ ~y.lock /\ y.n = a.n
BY Distinct DEF IsArticle, Off, Alike

LEMMA GivenNumber ==
  ASSUME NEW a, IsArticle(a), a.kind # NoKind, NEW y, NEW n, Renumbered(y, a, n)
  PROVE  IsArticle(y) /\ Alike(y, a) /\ y.lock = a.lock /\ y.n = n
BY Distinct DEF IsArticle, Renumbered, Alike

LEMMA GivenPrice ==
  ASSUME NEW a, IsArticle(a), a.kind # NoKind, NEW y, NEW q, Repriced(y, a, q)
  PROVE  IsArticle(y) /\ Alike(y, a) /\ y.lock /\ y.n = a.n
BY Distinct DEF IsArticle, Repriced, Alike

\* A new article
LEMMA NewArticle ==
  ASSUME NEW x, x.kind \in Kind, NEW s, NEW q, NEW y, y = ArticleOf(x, s, q)
  PROVE  /\ IsArticle(y)
         /\ y.id = x.id /\ y.kind = x.kind /\ y.slot = s /\ y.n = x.n /\ ~y.lock
BY Distinct DEF IsArticle, ArticleOf

LEMMA NoneIsArticle == IsArticle(NoArticle)
BY DEF IsArticle, NoArticle, ArticleOf

(* A stall like another, with a list of its own *)
WithList(y, x, v) == y = [x EXCEPT !.cells = v]
WithTotal(y, x, v, t) == y = [x EXCEPT !.cells = v, !.total = t]
Like(y, x, v) == IsStall(y) /\ y.kind = x.kind /\ y.guests = x.guests /\ y.cells = v

\* A stall with other cells, and perhaps with another total
LEMMA WithCells ==
  ASSUME NEW x, IsStall(x), NEW v, IsList(v), NEW t,
         NEW y, WithList(y, x, v) \/ WithTotal(y, x, v, t)
  PROVE  Like(y, x, v)
BY DEF IsStall, Like, WithList, WithTotal

\* The cells with another article
Put(w, v, d, a) == w = [v EXCEPT ![d] = a]
Differs(w, v, d, a) == w[d] = a /\ \A c \in Cell \ {d} : w[c] = v[c]

LEMMA WithArticle ==
  ASSUME NEW v, IsList(v), NEW d \in Cell, NEW a, IsArticle(a), NEW w, Put(w, v, d, a)
  PROVE  IsList(w) /\ Differs(w, v, d, a)
BY DEF IsList, Put, Differs

\* A set of numbers that is not empty has a least one.
LEMMA Minimum ==
  ASSUME NEW T \in SUBSET Nat, T # {}
  PROVE  \E x \in T : \A y \in T : x <= y
<1> DEFINE R == OpToRel(<, Nat)
<1>1. IsWellFoundedOn(R, Nat)
  BY NatLessThanWellFounded
<1>2. \A x, y \in Nat : <<y, x>> \in R <=> y < x
  BY DEF OpToRel
<1> HIDE DEF R
<1>3. \E x \in T : \A y \in T : ~(<<y, x>> \in R)
  BY <1>1, WFMin
<1>4. PICK x \in T : \A y \in T : ~(<<y, x>> \in R)
  BY <1>3
<1>5. \A y \in T : ~(y < x)
  BY <1>2, <1>4
<1>6. \A y \in T : y \in Nat
  OBVIOUS
<1>7. \A y \in T : x <= y
  BY <1>5, <1>6
<1> QED BY <1>7

-----------------------------------------------------------------------------
(* What the handlers of a stall's articles do to its list *)

(* One stall's list is changed, and nothing else of it or of other stalls. *)
Rearranged(p) ==
  /\ IsStall(stall[p]) /\ IsStall(stall[p]')
  /\ KindOf(p)' = KindOf(p) /\ stall[p]'.guests = stall[p].guests
  /\ DOMAIN stall' = Player /\ \A q \in Player \ {p} : stall'[q] = stall[q]

(* Only one of its articles *)
OnlyAt(p, c) == \A d \in Cell \ {c} : Article(p, d)' = Article(p, d)

LEMMA Filling ==
  ASSUME Stalls, NEW p \in Player
  PROVE  /\ Filled(p) \subseteq Cell
         /\ \A c \in Cell : c \in Filled(p) <=> KindOf(p) # "NONE" /\ Article(p, c).kind # NoKind
         /\ stall[p] # NoStall <=> IsStall(stall[p])
         /\ stall[p] # NoStall <=> KindOf(p) # "NONE"
         /\ \A k \in {"SELL", "BUY"} : HasStall(p, k) <=> KindOf(p) = k
         /\ stall[p] # NoStall => IsList(stall[p].cells) /\ \A c \in Cell : IsArticle(Article(p, c))
BY Distinct DEF Stalls, IsStall, IsList, Filled, Article, KindOf, HasStall, IsArticle

\* The list of a stall is replaced.
LEMMA ListReplaced ==
  ASSUME Stalls, NEW p \in Player, NEW v, NEW x, Like(x, stall[p], v), stall[p] # NoStall,
         stall' = [stall EXCEPT ![p] = x]
  PROVE  Rearranged(p) /\ \A c \in Cell : Article(p, c)' = v[c]
<1>1. stall'[p] = x /\ DOMAIN stall' = Player /\ \A q \in Player \ {p} : stall'[q] = stall[q]
  BY DEF Stalls
<1>2. IsStall(stall[p])
  BY DEF Stalls
<1> QED
  BY <1>1, <1>2 DEF Rearranged, KindOf, Article, Like

\* An article is replaced.
LEMMA ArticleReplaced ==
  ASSUME Stalls, NEW p \in Player, stall[p] # NoStall, NEW c \in Cell,
         NEW b, IsArticle(b),
         stall' = [stall EXCEPT ![p].cells[c] = b]
  PROVE  Rearranged(p) /\ OnlyAt(p, c) /\ Article(p, c)' = b
<1>1. IsStall(stall[p])
  BY DEF Stalls
<1>2. PICK u : u = stall[p].cells /\ IsList(u)
  BY <1>1 DEF IsStall
<1>3. PICK v : Put(v, u, c, b)
  BY DEF Put
<1>4. IsList(v) /\ Differs(v, u, c, b)
  BY <1>2, <1>3, WithArticle
<1>5. PICK x : WithList(x, stall[p], v)
  BY DEF WithList
<1>6. Like(x, stall[p], v)
  BY <1>1, <1>4, <1>5, WithCells
<1>7. stall' = [stall EXCEPT ![p] = x]
  BY <1>2, <1>3, <1>5 DEF Put, WithList
<1>8. Rearranged(p) /\ \A d \in Cell : Article(p, d)' = v[d]
  BY <1>6, <1>7, ListReplaced
<1> QED
  BY <1>2, <1>4, <1>8 DEF OnlyAt, Article, Differs

(* An article is the same but for its number, lock and price. *)
Kept(p, c) == c \in Filled(p) /\ Alike(Article(p, c)', Article(p, c))

\* An article is given another lock, number or price.
LEMMA ArticleKept ==
  ASSUME Stalls, NEW p \in Player, NEW c \in Filled(p), NEW b, IsArticle(b), Alike(b, Article(p, c)),
         stall' = [stall EXCEPT ![p].cells[c] = b]
  PROVE  Rearranged(p) /\ OnlyAt(p, c) /\ Kept(p, c) /\ Article(p, c)' = b
<1>1. c \in Cell /\ stall[p] # NoStall
  BY Filling
<1>2. Rearranged(p) /\ OnlyAt(p, c) /\ Article(p, c)' = b
  BY <1>1, ArticleReplaced
<1> QED
  BY <1>2 DEF Kept

LEMMA LockKeeps ==
  ASSUME Stalls, NEW p \in Player, Lock(p), NEW c, c = asked[p].cell
  PROVE  /\ Rearranged(p) /\ OnlyAt(p, c) /\ Kept(p, c)
         /\ Article(p, c)'.lock /\ Article(p, c)'.n = Article(p, c).n
<1>1. c \in Filled(p)
  BY DEF Lock, CanLock, IsAt
<1>2. PICK a : a = Article(p, c)
  OBVIOUS
<1>3. IsArticle(a) /\ a.kind # NoKind
  BY <1>1, <1>2, Filling
<1>4. PICK q : q = IF a.lock THEN a.price ELSE asked[p].price
  OBVIOUS
<1>5. PICK b : Repriced(b, a, q)
  BY DEF Repriced
<1>6. IsArticle(b) /\ Alike(b, a) /\ b.lock /\ b.n = a.n
  BY <1>3, <1>5, GivenPrice
<1>7. stall' = [stall EXCEPT ![p].cells[c] = b]
  BY <1>2, <1>4, <1>5 DEF Lock, Article, Repriced
<1>8. Rearranged(p) /\ OnlyAt(p, c) /\ Article(p, c)' = b /\ Kept(p, c)
  BY <1>1, <1>2, <1>6, <1>7, ArticleKept
<1> QED
  BY <1>2, <1>6, <1>8

LEMMA UnlockKeeps ==
  ASSUME Stalls, NEW p \in Player, Unlocked(p), NEW c, c = asked[p].cell
  PROVE  /\ Rearranged(p) /\ OnlyAt(p, c) /\ Kept(p, c)
         /\ ~Article(p, c)'.lock /\ Article(p, c)'.n = Article(p, c).n
<1>1. c \in Filled(p)
  BY DEF Unlocked, IsAt
<1>2. PICK a : a = Article(p, c)
  OBVIOUS
<1>3. IsArticle(a) /\ a.kind # NoKind
  BY <1>1, <1>2, Filling
<1>4. PICK b : Off(b, a)
  BY DEF Off
<1>5. IsArticle(b) /\ Alike(b, a) /\ ~b.lock /\ b.n = a.n
  BY <1>3, <1>4, TurnedOff
<1>6. stall' = [stall EXCEPT ![p].cells[c] = b]
  BY <1>2, <1>4 DEF Unlocked, Article, Off
<1>7. Rearranged(p) /\ OnlyAt(p, c) /\ Article(p, c)' = b /\ Kept(p, c)
  BY <1>1, <1>2, <1>5, <1>6, ArticleKept
<1> QED
  BY <1>2, <1>5, <1>7

LEMMA BuyPartKeeps ==
  ASSUME Stalls, NEW p \in Player, BuyPart(p), NEW o \in Player, o = asked[p].owner,
         NEW c \in Cell, c = asked[p].cell
  PROVE  /\ Rearranged(o) /\ OnlyAt(o, c) /\ Kept(o, c)
         /\ Article(o, c)'.lock = Article(o, c).lock
         /\ Article(o, c)'.n = Article(o, c).n - asked[p].n
<1>1. c \in Filled(o)
  BY DEF BuyPart, CanBuyItem, Filled, Article
<1>2. PICK a : a = Article(o, c)
  OBVIOUS
<1>3. IsArticle(a) /\ a.kind # NoKind
  BY <1>1, <1>2, Filling
<1>4. PICK n : n = a.n - asked[p].n
  OBVIOUS
<1>5. PICK b : Renumbered(b, a, n)
  BY DEF Renumbered
<1>6. IsArticle(b) /\ Alike(b, a) /\ b.lock = a.lock /\ b.n = n
  BY <1>3, <1>5, GivenNumber
<1>7. stall' = [stall EXCEPT ![o].cells[c] = b]
  BY <1>2, <1>4, <1>5 DEF BuyPart, Article, Renumbered
<1>8. Rearranged(o) /\ OnlyAt(o, c) /\ Article(o, c)' = b /\ Kept(o, c)
  BY <1>1, <1>2, <1>6, <1>7, ArticleKept
<1> QED
  BY <1>2, <1>4, <1>6, <1>8

LEMMA UpdateKeeps ==
  ASSUME Stalls, NEW p \in Player, Update(p), NEW c, c = asked[p].cell
  PROVE  Rearranged(p)
<1>1. c \in Filled(p)
  BY DEF Update
<1>2. PICK a : a = Article(p, c)
  OBVIOUS
<1>3. IsArticle(a) /\ a.kind # NoKind
  BY <1>1, <1>2, Filling
<1>4. PICK b : On(b, a)
  BY DEF On
<1>5. IsArticle(b) /\ Alike(b, a)
  BY <1>3, <1>4, TurnedOn
<1>6. stall' = [stall EXCEPT ![p].cells[c] = b]
  BY <1>2, <1>4 DEF Update, Article, On
<1>7. Rearranged(p) /\ OnlyAt(p, c) /\ Article(p, c)' = b /\ Kept(p, c)
  BY <1>1, <1>2, <1>5, <1>6, ArticleKept
<1> QED
  BY <1>7

LEMMA RegistBuyFailsKeeps ==
  ASSUME Stalls, NEW p \in Player, RegistBuyFails(p)
  PROVE  Rearranged(p) \/ UNCHANGED stall
<1>1. CASE asked[p].cell \notin Filled(p)
  BY <1>1 DEF RegistBuyFails
<1>2. CASE asked[p].cell \in Filled(p)
  <2>1. PICK c : c = asked[p].cell /\ c \in Filled(p)
    BY <1>2
  <2>2. PICK a : a = Article(p, c)
    OBVIOUS
  <2>3. IsArticle(a) /\ a.kind # NoKind
    BY <2>1, <2>2, Filling
  <2>4. PICK b : Off(b, a)
    BY DEF Off
  <2>5. IsArticle(b) /\ Alike(b, a)
    BY <2>3, <2>4, TurnedOff
  <2>6. stall' = [stall EXCEPT ![p].cells[c] = b]
    BY <2>1, <2>2, <2>4 DEF RegistBuyFails, Article, Off
  <2> QED
    BY <2>1, <2>2, <2>5, <2>6, ArticleKept
<1> QED
  BY <1>1, <1>2

\* A stall with a list and a total of its own
LEMMA TotalReplaced ==
  ASSUME Stalls, NEW p \in Player, stall[p] # NoStall, NEW v, IsList(v), NEW t,
         NEW x, WithTotal(x, stall[p], v, t), stall' = [stall EXCEPT ![p] = x]
  PROVE  Rearranged(p)
<1>1. IsStall(stall[p])
  BY DEF Stalls
<1>2. Like(x, stall[p], v)
  BY <1>1, WithCells
<1> QED
  BY <1>2, ListReplaced

LEMMA RegistBuyKeeps ==
  ASSUME Stalls, NEW p \in Player, RegistBuy(p), OfOwner(p)
  PROVE  Rearranged(p)
<1>1. PICK c : c = asked[p].cell
  OBVIOUS
<1>2. c \in Cell /\ asked[p].kind \in Kind /\ stall[p] # NoStall
  BY <1>1 DEF OfOwner, RegistBuy, Handled, HasStall
<1>3. PICK u : u = stall[p].cells /\ IsList(u)
  BY <1>2 DEF Stalls, IsStall
<1>4. PICK w : w = ItemOf(0, asked[p].kind, asked[p].n) /\ w.kind \in Kind
  BY <1>2, Distinct
<1>5. PICK y : y = asked[p].price
  OBVIOUS
<1>6. PICK a : a = ArticleOf(w, 0, y)
  OBVIOUS
<1>7. a = Wanted(asked[p].kind, asked[p].n, asked[p].price) /\ IsArticle(a)
  BY <1>4, <1>5, <1>6, NewArticle DEF Wanted
<1>8. PICK v : Put(v, u, c, a)
  BY DEF Put
<1>9. IsList(v)
  BY <1>2, <1>3, <1>7, <1>8, WithArticle
<1>10. PICK t : t = Value(v)
  OBVIOUS
<1>11. PICK x : WithTotal(x, stall[p], v, t)
  BY DEF WithTotal
<1>12. v = [stall[p].cells EXCEPT ![asked[p].cell] = Wanted(asked[p].kind, asked[p].n, asked[p].price)]
  BY <1>1, <1>3, <1>7, <1>8 DEF Put
<1>13. stall' = [stall EXCEPT ![p].cells = v, ![p].total = t]
  BY <1>10, <1>12 DEF RegistBuy
<1>14. stall' = [stall EXCEPT ![p] = x]
  BY <1>11, <1>13 DEF WithTotal, Stalls
<1> QED
  BY <1>2, <1>9, <1>11, <1>14, TotalReplaced

LEMMA UpdateEndKeeps ==
  ASSUME Stalls, NEW p \in Player, UpdateEnd(p)
  PROVE  Rearranged(p)
<1>1. stall[p] # NoStall /\ IsStall(stall[p])
  BY DEF UpdateEnd, Stalls
<1>2. PICK u : u = stall[p].cells /\ IsList(u)
  BY <1>1 DEF IsStall
<1>3. PICK v : v = [c \in Cell |-> IF u[c] = NoArticle THEN NoArticle ELSE [u[c] EXCEPT !.lock = FALSE]]
  OBVIOUS
<1>4. ASSUME NEW c \in Cell PROVE IsArticle(v[c])
  <2>1. PICK a : a = u[c] /\ IsArticle(a)
    BY <1>2 DEF IsList
  <2>2. CASE a = NoArticle
    BY <1>3, <2>1, <2>2
  <2>3. CASE a # NoArticle
    <3>1. PICK b : Off(b, a)
      BY DEF Off
    <3>2. a.kind # NoKind
      BY <2>1, <2>3, Distinct DEF IsArticle
    <3>3. IsArticle(b)
      BY <2>1, <3>1, <3>2, TurnedOff
    <3>4. v[c] = b
      BY <1>3, <2>1, <2>3, <3>1 DEF Off
    <3> QED
      BY <3>3, <3>4
  <2> QED
    BY <2>2, <2>3
<1>5. IsList(v)
  BY <1>3, <1>4 DEF IsList
<1>6. PICK x : WithList(x, stall[p], v)
  BY DEF WithList
<1>7. Like(x, stall[p], v)
  BY <1>1, <1>5, <1>6, WithCells
<1>8. stall' = [stall EXCEPT ![p] = x]
  BY <1>2, <1>3, <1>6 DEF UpdateEnd, WithList
<1> QED
  BY <1>1, <1>7, <1>8, ListReplaced

LEMMA UnwantKeeps ==
  ASSUME Stalls, NEW p \in Player, NEW c \in Filled(p), stall' = [stall EXCEPT ![p] = Unwant(p, c)]
  PROVE  Rearranged(p)
<1>1. c \in Cell /\ stall[p] # NoStall /\ IsStall(stall[p])
  BY Filling
<1>2. PICK u : u = stall[p].cells /\ IsList(u)
  BY <1>1 DEF IsStall
<1>3. PICK v : Put(v, u, c, NoArticle)
  BY DEF Put
<1>4. IsList(v)
  BY <1>1, <1>2, <1>3, NoneIsArticle, WithArticle
<1>5. PICK t : t = stall[p].total - Worth(Article(p, c))
  OBVIOUS
<1>6. PICK x : WithTotal(x, stall[p], v, t)
  BY DEF WithTotal
<1>7. Unwant(p, c) = x
  BY <1>2, <1>3, <1>5, <1>6 DEF Unwant, Put, WithTotal
<1> QED
  BY <1>1, <1>4, <1>6, <1>7, TotalReplaced

LEMMA DeleteBuyKeeps ==
  ASSUME Stalls, NEW p \in Player, DeleteBuy(p)
  PROVE  Rearranged(p)
BY UnwantKeeps DEF DeleteBuy

LEMMA SellKeeps ==
  ASSUME Stalls, NEW p \in Player, Sell(p), NEW o \in Player, o = asked[p].owner,
         NEW c \in Cell, c = asked[p].cell
  PROVE  Rearranged(o)
<1>1. c \in Filled(o)
  BY DEF Sell, CanSellItem, Filled, Article
<1>2. CASE stall' = [stall EXCEPT ![o] = Unwant(o, c)]
  BY <1>1, <1>2, UnwantKeeps
<1>3. CASE stall' = [stall EXCEPT ![o] = [stall[o] EXCEPT !.cells[c].n = @ - NumberSold(p)]]
  <2>1. PICK a : a = Article(o, c)
    OBVIOUS
  <2>2. IsArticle(a) /\ a.kind # NoKind
    BY <1>1, <2>1, Filling
  <2>3. PICK n : n = a.n - NumberSold(p)
    OBVIOUS
  <2>4. PICK b : Renumbered(b, a, n)
    BY DEF Renumbered
  <2>5. IsArticle(b) /\ Alike(b, a)
    BY <2>2, <2>4, GivenNumber
  <2>6. stall' = [stall EXCEPT ![o].cells[c] = b]
    BY <1>3, <2>1, <2>3, <2>4 DEF Article, Renumbered
  <2> QED
    BY <1>1, <2>1, <2>5, <2>6, ArticleKept
<1>4. stall' = [stall EXCEPT ![o] = IF NumberSold(p) = Article(o, c).n THEN Unwant(o, c)
                 ELSE [stall[o] EXCEPT !.cells[c].n = @ - NumberSold(p)]]
  BY DEF Sell
<1> QED
  BY <1>2, <1>3, <1>4

\* A registered article is new, and in the first cell that is free.
LEMMA RegistKeeps ==
  ASSUME Stalls, Items, NEW p \in Player, Regist(p), OfOwner(p),
         NEW s, s = asked[p].slot, NEW c, c = Min(Cell \ Filled(p))
  PROVE  /\ c \in Cell \ Filled(p) /\ \A d \in Cell \ Filled(p) : c <= d
         /\ Rearranged(p) /\ OnlyAt(p, c) /\ KindOf(p) = "SELL"
         /\ Article(p, c)'.id = inv[p][s].id /\ Article(p, c)'.kind = inv[p][s].kind
         /\ Article(p, c)'.n = inv[p][s].n /\ Article(p, c)'.slot = s /\ ~Article(p, c)'.lock
         /\ inv[p][s].kind \in Kind /\ s \in Slot
<1>1. s \in Slot /\ stall[p] # NoStall /\ KindOf(p) = "SELL"
  BY Filling DEF Regist, Handled, CanRegist, OfOwner, HasStall, KindOf
<1>2. PICK w : w = inv[p][s] /\ w.kind \in Kind
  BY <1>1 DEF Regist, CanRegist, Items, IsItem
<1>3. PICK F : F = Filled(p)
  OBVIOUS
<1>4. F \subseteq Cell /\ F # Cell
  BY <1>3, Filling DEF Regist, CanRegist
<1>5. c \in Cell \ F /\ \A d \in Cell \ F : c <= d
  <2>1. PICK T : T = Cell \ F
    OBVIOUS
  <2>2. T # {} /\ T \subseteq Nat
    <3>1. Cell \subseteq Nat
      BY StallAssumption DEF Cell
    <3> QED
      BY <1>4, <2>1, <3>1
  <2>3. \E x \in T : \A y \in T : x <= y
    BY <2>2, Minimum
  <2>4. c = CHOOSE x \in T : \A y \in T : x <= y
    BY <1>3, <2>1 DEF Min
  <2> QED
    BY <2>1, <2>3, <2>4
<1>6. PICK z : z = 0
  OBVIOUS
<1>7. PICK a : a = ArticleOf(w, s, z)
  OBVIOUS
<1>8. IsArticle(a) /\ a.id = w.id /\ a.kind = w.kind /\ a.slot = s /\ a.n = w.n /\ ~a.lock
  BY <1>2, <1>7, NewArticle
<1>9. stall' = [stall EXCEPT ![p].cells[c] = a]
  BY <1>2, <1>6, <1>7 DEF Regist
<1>10. Rearranged(p) /\ OnlyAt(p, c) /\ Article(p, c)' = a
  BY <1>1, <1>5, <1>8, <1>9, ArticleReplaced
<1> QED
  BY <1>1, <1>2, <1>3, <1>5, <1>8, <1>10

\* An article is taken off: those after it move up.
LEMMA TakeOffKeeps ==
  ASSUME Stalls, NEW p \in Player, NEW i, Listed(p, i), TakeOff(p, i), NEW c, c = CellOf(p, i)
  PROVE  /\ c \in Filled(p) /\ Article(p, c).id = i
         /\ Rearranged(p)
         /\ \A d \in Cell : Article(p, d)' = IF d < c THEN Article(p, d)
                                             ELSE IF d < NCells THEN Article(p, d + 1) ELSE NoArticle
         /\ locked' = [locked EXCEPT ![p] = @ \ {Article(p, c).slot}]
<1>1. c \in Filled(p) /\ Article(p, c).id = i
  BY DEF Listed, CellOf
<1>2. c \in Cell /\ stall[p] # NoStall /\ IsStall(stall[p])
  BY <1>1, Filling
<1>3. PICK u : u = stall[p].cells /\ IsList(u)
  BY <1>2 DEF IsStall
<1>4. PICK v : v = [d \in Cell |-> IF d < c THEN u[d] ELSE IF d < NCells THEN u[d + 1] ELSE NoArticle]
  OBVIOUS
<1>5. ASSUME NEW d \in Cell PROVE d < NCells => d + 1 \in Cell
  BY StallAssumption DEF Cell
<1>6. IsList(v)
  BY <1>3, <1>4, <1>5, NoneIsArticle DEF IsList
<1>7. PICK x : WithList(x, stall[p], v)
  BY DEF WithList
<1>8. Like(x, stall[p], v)
  BY <1>2, <1>6, <1>7, WithCells
<1>9. stall' = [stall EXCEPT ![p] = x] /\ locked' = [locked EXCEPT ![p] = @ \ {Article(p, c).slot}]
  BY <1>3, <1>4, <1>7 DEF TakeOff, Without, WithList
<1>10. Rearranged(p) /\ \A d \in Cell : Article(p, d)' = v[d]
  BY <1>2, <1>8, <1>9, ListReplaced
<1> QED
  BY <1>1, <1>3, <1>4, <1>9, <1>10 DEF Article

-----------------------------------------------------------------------------
(* The inductive invariant, and what the steps have in common *)

IInv == Stalls /\ Items /\ Rest /\ Requests /\ Visits /\ Lists /\ Reserves

\* The first cell that is empty is empty.
LEMMA EmptyIsEmpty ==
  ASSUME NEW p, EmptyCells(p) # {}
  PROVE  /\ EmptyCell(p) \in Slot /\ inv[p][EmptyCell(p)] = NoItem
         /\ EmptyCell(p) \notin locked[p] /\ EmptyCell(p) \notin reserved[p]
<1>1. PICK T : T = EmptyCells(p)
  OBVIOUS
<1>2. T # {} /\ T \subseteq Nat
  <2>1. Slot \subseteq Nat
    BY StallAssumption DEF Slot
  <2> QED
    BY <1>1, <2>1 DEF EmptyCells
<1>3. \E x \in T : \A y \in T : x <= y
  BY <1>2, Minimum
<1>4. EmptyCell(p) = CHOOSE x \in T : \A y \in T : x <= y
  BY <1>1 DEF Min, EmptyCell
<1>5. EmptyCell(p) \in T
  BY <1>3, <1>4
<1> QED
  BY <1>1, <1>5 DEF EmptyCells

\* Outside these cells the items are where they were.
Elsewhere(p, s, q, e) ==
  /\ DOMAIN inv' = Player /\ \A r \in Player : DOMAIN inv'[r] = Slot
  /\ \A r \in Player, t \in Slot : (r = p /\ t = s) \/ (r = q /\ t = e) \/ inv'[r][t] = inv[r][t]

\* A whole item goes to another player's cell, or a part of it is to go there.
Whole(p, s, q, e) ==
  /\ Elsewhere(p, s, q, e) /\ inv'[p][s] = NoItem /\ inv'[q][e] = inv[p][s]
  /\ UNCHANGED <<reserved, inserts>>

Part(p, s, n, q, e) ==
  /\ Elsewhere(p, s, p, s) /\ inv'[p][s] = ItemOf(inv[p][s].id, inv[p][s].kind, inv[p][s].n - n)
  /\ reserved' = [reserved EXCEPT ![q] = @ \cup {e}]
  /\ inserts' = inserts \cup {[who |-> q, slot |-> e, kind |-> inv[p][s].kind, n |-> n]}

LEMMA WholeMoved ==
  ASSUME Items, NEW p \in Player, NEW q \in Player, p # q, NEW s \in Slot, NEW e \in Slot,
         e = EmptyCell(q), MoveWhole(p, s, q)
  PROVE  Whole(p, s, q, e)
<1>1. inv' = [inv EXCEPT ![p][s] = NoItem, ![q][e] = inv[p][s]]
  BY DEF MoveWhole
<1>2. PICK f : f = [inv EXCEPT ![p][s] = NoItem]
  OBVIOUS
<1>3. /\ DOMAIN f = Player /\ \A r \in Player : DOMAIN f[r] = Slot
      /\ f[p][s] = NoItem
      /\ \A r \in Player, t \in Slot : (r = p /\ t = s) \/ f[r][t] = inv[r][t]
  BY <1>2 DEF Items
<1>4. inv' = [f EXCEPT ![q][e] = inv[p][s]]
  BY <1>1, <1>2
<1>5. /\ DOMAIN inv' = Player /\ \A r \in Player : DOMAIN inv'[r] = Slot
      /\ inv'[q][e] = inv[p][s]
      /\ \A r \in Player, t \in Slot : (r = q /\ t = e) \/ inv'[r][t] = f[r][t]
  BY <1>3, <1>4
<1>6. Elsewhere(p, s, q, e)
  BY <1>3, <1>5 DEF Elsewhere
<1>7. inv'[p][s] = NoItem
  BY <1>3, <1>5
<1> QED
  BY <1>5, <1>6, <1>7 DEF Whole, MoveWhole

LEMMA PartMoved ==
  ASSUME Items, NEW p \in Player, NEW q \in Player, NEW s \in Slot, NEW e \in Slot, NEW n,
         e = EmptyCell(q), MovePart(p, s, n, q)
  PROVE  Part(p, s, n, q, e)
<1>1. inv' = [inv EXCEPT ![p][s] = ItemOf(inv[p][s].id, inv[p][s].kind, inv[p][s].n - n)]
  BY DEF MovePart
<1>2. PICK x : x = ItemOf(inv[p][s].id, inv[p][s].kind, inv[p][s].n - n)
  OBVIOUS
<1>3. inv' = [inv EXCEPT ![p][s] = x]
  BY <1>1, <1>2
<1>4. Elsewhere(p, s, p, s) /\ inv'[p][s] = x
  BY <1>3 DEF Items, Elsewhere
<1> QED
  BY <1>2, <1>4 DEF Part, MovePart

\* The players' answered requests, and what a list's handlers leave alone
Answered(p) == asked' = [asked EXCEPT ![p] = NoRequest]

ListStep(p) == \/ Regist(p) \/ Lock(p) \/ LockFails(p) \/ Unlocked(p) \/ Delete(p)
               \/ RegistBuy(p) \/ RegistBuyFails(p) \/ Update(p) \/ UpdateEnd(p) \/ DeleteBuy(p)

TradeStep(p) == BuyWhole(p) \/ BuyPart(p) \/ Sell(p)

LEMMA ListSteps ==
  ASSUME IInv, NEW p \in Player, ListStep(p)
  PROVE  /\ UNCHANGED <<online, state, guestStall, inv, reserved, inserts>> /\ Answered(p)
         /\ Rearranged(p) \/ UNCHANGED stall
<1>1. OfOwner(p) /\ Stalls /\ Items
  BY DEF IInv, Requests
<1>2. CASE Regist(p)
  BY <1>1, <1>2, RegistKeeps DEF Regist, Handled, Answered, itemVars
<1>3. CASE Lock(p)
  BY <1>1, <1>3, LockKeeps DEF Lock, Handled, Answered
<1>4. CASE LockFails(p)
  BY <1>1, <1>4, TakeOffKeeps DEF LockFails, Handled, Answered
<1>5. CASE Unlocked(p)
  BY <1>1, <1>5, UnlockKeeps DEF Unlocked, Handled, Answered
<1>6. CASE Delete(p)
  BY <1>1, <1>6, TakeOffKeeps DEF Delete, Handled, Answered
<1>7. CASE RegistBuy(p)
  BY <1>1, <1>7, RegistBuyKeeps DEF RegistBuy, Handled, Answered, itemVars
<1>8. CASE RegistBuyFails(p)
  BY <1>1, <1>8, RegistBuyFailsKeeps DEF RegistBuyFails, Handled, Answered, itemVars
<1>9. CASE Update(p)
  BY <1>1, <1>9, UpdateKeeps DEF Update, Handled, Answered, itemVars
<1>10. CASE UpdateEnd(p)
  BY <1>1, <1>10, UpdateEndKeeps DEF UpdateEnd, Handled, Answered, itemVars
<1>11. CASE DeleteBuy(p)
  BY <1>1, <1>11, DeleteBuyKeeps DEF DeleteBuy, Handled, Answered, itemVars
<1> QED
  BY <1>2, <1>3, <1>4, <1>5, <1>6, <1>7, <1>8, <1>9, <1>10, <1>11 DEF ListStep

\* A trade: a guest and a stall's owner who is there
Trading(p, o, c) ==
  /\ o \in Player /\ o # p /\ o \in online /\ p \in online /\ c \in Filled(o) /\ c \in Cell
  /\ Rearranged(o) /\ Answered(p) /\ UNCHANGED <<online, state, guestStall>>

(* It buys an article, all of it or a part. *)
BuysWhole(p, o, c, s, e) ==
  /\ Trading(p, o, c) /\ KindOf(o) = "SELL" /\ Article(o, c).lock
  /\ s = Article(o, c).slot /\ s \in Slot /\ e = EmptyCell(p) /\ EmptyCells(p) # {}
  /\ inv[o][s] = ItemOf(Article(o, c).id, Article(o, c).kind, Article(o, c).n)
  /\ Whole(o, s, p, e)
  /\ \A d \in Cell : Article(o, d)' = IF d < c THEN Article(o, d)
                                      ELSE IF d < NCells THEN Article(o, d + 1) ELSE NoArticle
  /\ locked' = [locked EXCEPT ![o] = @ \ {s}]

BuysPart(p, o, c, s, n, e) ==
  /\ Trading(p, o, c) /\ KindOf(o) = "SELL" /\ Article(o, c).lock
  /\ s = Article(o, c).slot /\ s \in Slot /\ e = EmptyCell(p) /\ EmptyCells(p) # {}
  /\ inv[o][s] = ItemOf(Article(o, c).id, Article(o, c).kind, Article(o, c).n)
  /\ Part(o, s, n, p, e)
  /\ OnlyAt(o, c) /\ Kept(o, c) /\ Article(o, c)'.lock = Article(o, c).lock
  /\ Article(o, c)'.n = Article(o, c).n - n
  /\ locked' = [locked EXCEPT ![o] = @ \cup {s}]

(* It sells an item, all of it or a part. *)
Sells(p, o, c, s, n, e) ==
  /\ Trading(p, o, c) /\ KindOf(o) = "BUY"
  /\ s \in Slot /\ s = asked[p].slot /\ asked[p].type = "SELL" /\ inv[p][s] # NoItem
  /\ e = EmptyCell(o) /\ EmptyCells(o) # {}
  /\ Whole(p, s, o, e) \/ Part(p, s, n, o, e)
  /\ locked' = [locked EXCEPT ![p] = @ \ {s}]

LEMMA BuySteps ==
  ASSUME IInv, NEW p \in Player, BuyWhole(p) \/ BuyPart(p)
  PROVE  \E o, c, s, n, e : BuysWhole(p, o, c, s, e) \/ BuysPart(p, o, c, s, n, e)
<1>1. Stalls /\ Items /\ OfGuest(p) /\ Lists
  BY DEF IInv, Requests
<1>2. PICK o : o = asked[p].owner
  OBVIOUS
<1>3. PICK c : c = asked[p].cell
  OBVIOUS
<1>4. asked[p].type = "BUY" /\ p \in online /\ Answered(p) /\ UNCHANGED <<online, state, guestStall>>
  BY DEF BuyWhole, BuyPart, Handled, Answered
<1>5. CanBuyItem(p)
  BY DEF BuyWhole, BuyPart
<1>6. /\ o \in Player /\ o # p /\ o \in online /\ c \in Cell /\ KindOf(o) = "SELL"
      /\ guestStall[p] = o /\ EmptyCells(p) # {}
  BY <1>1, <1>2, <1>3, <1>4, <1>5 DEF OfGuest, CanBuyItem
<1>7. c \in Filled(o) /\ Article(o, c).lock
  BY <1>2, <1>3, <1>5, <1>6 DEF Filled, CanBuyItem, Article
<1>8. PICK s : s = Article(o, c).slot
  OBVIOUS
<1>9. s \in Slot /\ inv[o][s] = ItemOf(Article(o, c).id, Article(o, c).kind, Article(o, c).n)
  BY <1>1, <1>6, <1>7, <1>8 DEF Lists, Backed
<1>10. PICK e : e = EmptyCell(p) /\ e \in Slot
  BY <1>6, EmptyIsEmpty
<1>11. CASE BuyWhole(p)
  <2>1. PICK i : i = Article(o, c).id
    OBVIOUS
  <2>2. MoveWhole(o, s, p) /\ TakeOff(o, i) /\ Listed(o, i)
    BY <1>2, <1>3, <1>7, <1>8, <1>11, <2>1 DEF BuyWhole, Listed
  <2>3. PICK d : d = CellOf(o, i)
    OBVIOUS
  <2>4. /\ d \in Filled(o) /\ Article(o, d).id = i /\ Rearranged(o)
        /\ \A k \in Cell : Article(o, k)' = IF k < d THEN Article(o, k)
                                            ELSE IF k < NCells THEN Article(o, k + 1) ELSE NoArticle
        /\ locked' = [locked EXCEPT ![o] = @ \ {Article(o, d).slot}]
    BY <1>1, <1>6, <2>2, <2>3, TakeOffKeeps
  <2>5. d = c
    BY <1>1, <1>6, <1>7, <2>1, <2>4 DEF Lists, Backed
  <2>6. Whole(o, s, p, e)
    BY <1>1, <1>6, <1>9, <1>10, <2>2, WholeMoved
  <2>7. Trading(p, o, c)
    BY <1>4, <1>6, <1>7, <2>4 DEF Trading
  <2>8. BuysWhole(p, o, c, s, e)
    BY <1>6, <1>7, <1>8, <1>9, <1>10, <2>4, <2>5, <2>6, <2>7 DEF BuysWhole
  <2> QED
    BY <2>8
<1>12. CASE BuyPart(p)
  <2>1. PICK n : n = asked[p].n
    OBVIOUS
  <2>2. MovePart(o, s, n, p) /\ locked' = [locked EXCEPT ![o] = @ \cup {s}]
    BY <1>2, <1>3, <1>8, <1>12, <2>1 DEF BuyPart, KeepLocked
  <2>3. /\ Rearranged(o) /\ OnlyAt(o, c) /\ Kept(o, c)
        /\ Article(o, c)'.lock = Article(o, c).lock
        /\ Article(o, c)'.n = Article(o, c).n - n
    BY <1>1, <1>2, <1>3, <1>6, <1>12, <2>1, BuyPartKeeps
  <2>4. Part(o, s, n, p, e)
    BY <1>1, <1>6, <1>9, <1>10, <2>2, PartMoved
  <2>5. Trading(p, o, c)
    BY <1>4, <1>6, <1>7, <2>3 DEF Trading
  <2>6. BuysPart(p, o, c, s, n, e)
    BY <1>6, <1>7, <1>8, <1>9, <1>10, <2>2, <2>3, <2>4, <2>5 DEF BuysPart
  <2> QED
    BY <2>6
<1> QED
  BY <1>11, <1>12

LEMMA SellSteps ==
  ASSUME IInv, NEW p \in Player, Sell(p)
  PROVE  \E o, c, s, n, e : Sells(p, o, c, s, n, e)
<1>1. Stalls /\ Items /\ OfGuest(p) /\ OfItems(p)
  BY DEF IInv, Requests
<1>2. PICK o : o = asked[p].owner
  OBVIOUS
<1>3. PICK c : c = asked[p].cell
  OBVIOUS
<1>4. PICK s : s = asked[p].slot
  OBVIOUS
<1>5. asked[p].type = "SELL" /\ p \in online /\ Answered(p) /\ UNCHANGED <<online, state, guestStall>>
  BY DEF Sell, Handled, Answered
<1>6. CanSellItem(p)
  BY DEF Sell
<1>7. /\ o \in Player /\ o # p /\ o \in online /\ c \in Cell /\ KindOf(o) = "BUY"
      /\ guestStall[p] = o /\ EmptyCells(o) # {} /\ s \in Slot /\ inv[p][s] # NoItem
  BY <1>1, <1>2, <1>3, <1>4, <1>5, <1>6 DEF OfGuest, OfItems, CanSellItem
<1>8. c \in Filled(o)
  BY <1>2, <1>3, <1>6, <1>7 DEF Filled, CanSellItem, Article
<1>9. PICK e : e = EmptyCell(o) /\ e \in Slot
  BY <1>7, EmptyIsEmpty
<1>10. Rearranged(o)
  BY <1>1, <1>2, <1>3, <1>7, SellKeeps
<1>11. PICK n : n = NumberSold(p)
  OBVIOUS
<1>12. MoveWhole(p, s, o) \/ MovePart(p, s, n, o)
  BY <1>2, <1>4, <1>11 DEF Sell
<1>13. Whole(p, s, o, e) \/ Part(p, s, n, o, e)
  BY <1>1, <1>7, <1>9, <1>12, WholeMoved, PartMoved
<1>14. locked' = [locked EXCEPT ![p] = @ \ {s}]
  BY <1>4 DEF Sell
<1>15. Trading(p, o, c)
  BY <1>5, <1>7, <1>8, <1>10 DEF Trading
<1>16. Sells(p, o, c, s, n, e)
  BY <1>4, <1>5, <1>7, <1>9, <1>13, <1>14, <1>15 DEF Sells
<1> QED
  BY <1>16

\* An item, or a part of it, goes from one player to another's empty cell.
ItemGoes(p, s, n, q, e) ==
  /\ p \in online /\ q \in online /\ p # q /\ s \in Slot /\ e \in Slot
  /\ inv[p][s] # NoItem /\ inv[p][s].kind \in Kind
  /\ inv[q][e] = NoItem /\ e \notin reserved[q] /\ e \notin locked[q]
  /\ Whole(p, s, q, e) \/ Part(p, s, n, q, e)

LEMMA BuyGoes ==
  ASSUME IInv, NEW p \in Player, NEW o, NEW c, NEW s, NEW n, NEW e,
         BuysWhole(p, o, c, s, e) \/ BuysPart(p, o, c, s, n, e)
  PROVE  ItemGoes(o, s, n, p, e)
<1>1. Trading(p, o, c)
  BY DEF BuysWhole, BuysPart
<1>2. Article(o, c).kind \in Kind
  BY <1>1, Filling DEF Trading, IInv, IsArticle, NoArticle, ArticleOf, NoItem, ItemOf
<1>3. s \in Slot /\ inv[o][s].kind \in Kind /\ inv[o][s] # NoItem
  BY <1>2, Distinct DEF BuysWhole, BuysPart
<1>4. /\ e \in Slot /\ inv[p][e] = NoItem /\ e \notin reserved[p] /\ e \notin locked[p]
  BY EmptyIsEmpty DEF BuysWhole, BuysPart
<1> QED
  BY <1>1, <1>3, <1>4 DEF ItemGoes, Trading, BuysWhole, BuysPart

LEMMA SellGoes ==
  ASSUME IInv, NEW p \in Player, NEW o, NEW c, NEW s, NEW n, NEW e, Sells(p, o, c, s, n, e)
  PROVE  ItemGoes(p, s, n, o, e)
<1>1. Trading(p, o, c)
  BY DEF Sells
<1>2. s \in Slot /\ inv[p][s].kind \in Kind /\ inv[p][s] # NoItem
  BY DEF Sells, IInv, Items, IsItem
<1>3. /\ e \in Slot /\ inv[o][e] = NoItem /\ e \notin reserved[o] /\ e \notin locked[o]
  BY EmptyIsEmpty DEF Sells
<1> QED
  BY <1>1, <1>2, <1>3 DEF ItemGoes, Trading, Sells

\* In every trade an item goes.
LEMMA TradeGoes ==
  ASSUME IInv, NEW p \in Player, TradeStep(p)
  PROVE  /\ \E a, s, n, b, e : ItemGoes(a, s, n, b, e)
         /\ \E o, c : Trading(p, o, c)
         /\ \E q \in Player, T \in SUBSET Slot : locked' = [locked EXCEPT ![q] = T]
<1>1. Rest
  BY DEF IInv
<1>2. CASE BuyWhole(p) \/ BuyPart(p)
  <2>1. PICK o, c, s, n, e : BuysWhole(p, o, c, s, e) \/ BuysPart(p, o, c, s, n, e)
    BY <1>2, BuySteps
  <2>2. ItemGoes(o, s, n, p, e)
    BY <2>1, BuyGoes
  <2>3. Trading(p, o, c) /\ s \in Slot
    BY <2>1 DEF BuysWhole, BuysPart
  <2>4. o \in Player /\ locked[o] \ {s} \in SUBSET Slot /\ locked[o] \cup {s} \in SUBSET Slot
    BY <1>1, <2>3 DEF Rest, Trading
  <2>5. locked' = [locked EXCEPT ![o] = locked[o] \ {s}] \/ locked' = [locked EXCEPT ![o] = locked[o] \cup {s}]
    BY <2>1 DEF BuysWhole, BuysPart
  <2> QED
    BY <2>2, <2>3, <2>4, <2>5
<1>3. CASE Sell(p)
  <2>1. PICK o, c, s, n, e : Sells(p, o, c, s, n, e)
    BY <1>3, SellSteps
  <2>2. ItemGoes(p, s, n, o, e)
    BY <2>1, SellGoes
  <2>3. Trading(p, o, c) /\ locked' = [locked EXCEPT ![p] = locked[p] \ {s}]
    BY <2>1 DEF Sells
  <2>4. locked[p] \ {s} \in SUBSET Slot
    BY <1>1 DEF Rest
  <2> QED
    BY <2>2, <2>3, <2>4
<1> QED
  BY <1>2, <1>3 DEF TradeStep

\* Every step is one of these.
OtherStep(p) == \/ Open(p) \/ Close(p) \/ GuestIn(p) \/ GuestOut(p) \/ Move(p) \/ Refuse(p)
                \/ RegistBuyCrashes(p) \/ Die(p) \/ DieByPet(p) \/ Revive(p) \/ LogOut(p) \/ Earn(p)

LEMMA Steps ==
  ASSUME Next
  PROVE  \/ \E p \in Player : Ask(p) \/ ListStep(p) \/ TradeStep(p) \/ OtherStep(p)
         \/ \E r \in inserts : Inserted(r)
BY DEF Next, Handle, ListStep, TradeStep, OtherStep

\* A request is made, and nothing else happens.
LEMMA AskOnly ==
  ASSUME NEW p, Ask(p)
  PROVE  /\ UNCHANGED <<online, state, guestStall, stall, inv, locked, reserved, inserts>>
         /\ \E m : asked' = [asked EXCEPT ![p] = m]
<1>1. ASSUME NEW m, Asks(p, m)
      PROVE  /\ UNCHANGED <<online, state, guestStall, stall, inv, locked, reserved, inserts>>
             /\ \E x : asked' = [asked EXCEPT ![p] = x]
  BY <1>1 DEF Asks, stallVars, itemVars
<1>2. \E m : Asks(p, m)
  BY DEF Ask, AskOpen, AskClose, AskOfArticle, AskOfWanted, AskGuestIn, AskGuestOut, AskBuy, AskSell, AskMove
<1> QED
  BY <1>1, <1>2

-----------------------------------------------------------------------------
(* The reserved cells *)

Reserve(p) ==
  /\ reserved[p] = {r.slot : r \in {q \in inserts : q.who = p}}
  /\ \A r, q \in inserts : r.who = p /\ q.who = p /\ r.slot = q.slot => r = q
  /\ \A s \in reserved[p] : inv[p][s] = NoItem

LEMMA ReserveKept ==
  ASSUME Reserves, UNCHANGED <<inv, reserved, inserts>>, online' \subseteq online
  PROVE  Reserves'
BY DEF Reserves

LEMMA ReserveOfTrade ==
  ASSUME IInv, NEW a, NEW s, NEW n, NEW b, NEW e, ItemGoes(a, s, n, b, e), online' = online
  PROVE  Reserves'
<1>1. /\ \A p \in online : Reserve(p)
      /\ a \in online /\ b \in online /\ a # b /\ s \in Slot /\ e \in Slot /\ inv[a][s] # NoItem
      /\ inv[b][e] = NoItem /\ e \notin reserved[b]
      /\ online \subseteq Player /\ \A p \in Player : reserved[p] \subseteq Slot
      /\ DOMAIN reserved = Player
  BY DEF IInv, Reserves, Reserve, ItemGoes, Rest
<1>2. s \notin reserved[a]
  BY <1>1 DEF Reserve
<1>3. CASE Whole(a, s, b, e)
  <2>1. /\ UNCHANGED <<reserved, inserts>>
        /\ \A r \in Player, t \in Slot : (r = a /\ t = s) \/ (r = b /\ t = e) \/ inv'[r][t] = inv[r][t]
    BY <1>3 DEF Whole, Elsewhere
  <2>2. ASSUME NEW p \in online PROVE Reserve(p)'
    <3>1. ASSUME NEW t \in reserved[p] PROVE inv'[p][t] = NoItem
      BY <1>1, <1>2, <2>1, <3>1 DEF Reserve
    <3> QED
      BY <1>1, <2>1, <3>1 DEF Reserve
  <2> QED
    BY <2>2 DEF Reserves, Reserve
<1>4. CASE Part(a, s, n, b, e)
  <2>1. PICK x : x = [who |-> b, slot |-> e, kind |-> inv[a][s].kind, n |-> n]
    OBVIOUS
  <2>2. /\ reserved' = [reserved EXCEPT ![b] = @ \cup {e}] /\ inserts' = inserts \cup {x}
        /\ x.who = b /\ x.slot = e
        /\ \A r \in Player, t \in Slot : (r = a /\ t = s) \/ inv'[r][t] = inv[r][t]
    BY <1>4, <2>1 DEF Part, Elsewhere
  <2>3. ASSUME NEW p \in online PROVE Reserve(p)'
    <3>1. CASE p # b
      <4>1. reserved'[p] = reserved[p] /\ {q \in inserts' : q.who = p} = {q \in inserts : q.who = p}
        BY <1>1, <2>2, <3>1
      <4>2. ASSUME NEW t \in reserved[p] PROVE inv'[p][t] = NoItem
        BY <1>1, <1>2, <2>2, <4>2 DEF Reserve
      <4>3. \A r, q \in inserts' : r.who = p /\ q.who = p /\ r.slot = q.slot => r = q
        BY <1>1, <2>2, <3>1 DEF Reserve
      <4> QED
        BY <1>1, <4>1, <4>2, <4>3 DEF Reserve
    <3>2. CASE p = b
      <4>1. reserved'[p] = reserved[p] \cup {e}
        BY <1>1, <2>2, <3>2
      <4>2. reserved'[p] = {r.slot : r \in {q \in inserts' : q.who = p}}
        BY <1>1, <2>2, <3>2, <4>1 DEF Reserve
      <4>3. \A r \in inserts : r.who = p => r.slot # e
        BY <1>1, <3>2 DEF Reserve
      <4>4. \A r, q \in inserts' : r.who = p /\ q.who = p /\ r.slot = q.slot => r = q
        BY <1>1, <2>2, <3>2, <4>3 DEF Reserve
      <4>5. \A t \in reserved'[p] : inv'[p][t] = NoItem
        BY <1>1, <2>2, <3>2, <4>1 DEF Reserve
      <4> QED
        BY <4>2, <4>4, <4>5 DEF Reserve
    <3> QED
      BY <3>1, <3>2
  <2> QED
    BY <2>3 DEF Reserves, Reserve
<1> QED
  BY <1>3, <1>4 DEF ItemGoes

LEMMA ReserveOfInserted ==
  ASSUME IInv, NEW r \in inserts, Inserted(r)
  PROVE  Reserves'
<1>1. /\ \A p \in online : Reserve(p)
      /\ r.who \in Player /\ r.slot \in Slot
      /\ online \subseteq Player /\ DOMAIN reserved = Player /\ DOMAIN inv = Player
      /\ \A p \in Player : DOMAIN inv[p] = Slot /\ reserved[p] \subseteq Slot
  BY DEF IInv, Reserves, Reserve, Rest, Items
<1>2. online' = online /\ inserts' = inserts \ {r}
  BY DEF Inserted
<1>3. /\ \A p \in online \ {r.who} : reserved'[p] = reserved[p] /\ inv'[p] = inv[p]
      /\ r.who \in online => reserved'[r.who] = reserved[r.who] \ {r.slot}
      /\ \A t \in Slot \ {r.slot} : r.who \in online => inv'[r.who][t] = inv[r.who][t]
  <2>1. CASE r.who \notin online
    BY <2>1 DEF Inserted
  <2>2. CASE r.who \in online
    <3>1. PICK x : inv' = [inv EXCEPT ![r.who][r.slot] = x]
      BY <2>2 DEF Inserted
    <3>2. reserved' = [reserved EXCEPT ![r.who] = @ \ {r.slot}]
      BY <2>2 DEF Inserted
    <3> QED
      BY <1>1, <3>1, <3>2
  <2> QED
    BY <2>1, <2>2
<1>4. ASSUME NEW p \in online PROVE Reserve(p)'
  <2>1. CASE p # r.who
    <3>1. {q \in inserts' : q.who = p} = {q \in inserts : q.who = p}
      BY <1>2, <2>1
    <3> QED
      BY <1>1, <1>2, <1>3, <2>1, <3>1 DEF Reserve
  <2>2. CASE p = r.who
    <3>1. reserved'[p] = {x.slot : x \in {q \in inserts' : q.who = p}}
      BY <1>1, <1>2, <1>3, <2>2 DEF Reserve
    <3>2. \A s \in reserved'[p] : inv'[p][s] = NoItem
      BY <1>1, <1>3, <2>2 DEF Reserve
    <3>3. \A x, q \in inserts' : x.who = p /\ q.who = p /\ x.slot = q.slot => x = q
      BY <1>1, <1>2 DEF Reserve
    <3> QED
      BY <3>1, <3>2, <3>3 DEF Reserve
  <2> QED
    BY <2>1, <2>2
<1> QED
  BY <1>2, <1>4 DEF Reserves, Reserve

\* Moving items: what is in the other cells stays.
LEMMA MoveItems ==
  ASSUME IInv, NEW p \in Player, Move(p), NEW s, s = asked[p].slot, NEW t, t = asked[p].to
  PROVE  /\ s \in Slot /\ t \in Slot /\ s # t
         /\ {s, t} \cap (locked[p] \cup reserved[p]) = {}
         /\ DOMAIN inv' = Player /\ \A q \in Player : DOMAIN inv'[q] = Slot
         /\ inv'[p][s] = inv[p][t] /\ inv'[p][t] = inv[p][s]
         /\ \A q \in Player, u \in Slot : (q = p /\ u \in {s, t}) \/ inv'[q][u] = inv[q][u]
<1>1. s \in Slot /\ t \in Slot /\ s # t
  BY DEF IInv, Requests, OfItems, Move, Handled
<1>2. inv' = [inv EXCEPT ![p][s] = inv[p][t], ![p][t] = inv[p][s]]
  BY DEF Move
<1>3. PICK f : f = [inv EXCEPT ![p][s] = inv[p][t]]
  OBVIOUS
<1>4. /\ DOMAIN f = Player /\ \A r \in Player : DOMAIN f[r] = Slot
      /\ f[p][s] = inv[p][t]
      /\ \A r \in Player, u \in Slot : (r = p /\ u = s) \/ f[r][u] = inv[r][u]
  BY <1>1, <1>3 DEF IInv, Items
<1>5. inv' = [f EXCEPT ![p][t] = inv[p][s]]
  BY <1>2, <1>3
<1>6. /\ DOMAIN inv' = Player /\ \A r \in Player : DOMAIN inv'[r] = Slot
      /\ inv'[p][t] = inv[p][s]
      /\ \A r \in Player, u \in Slot : (r = p /\ u = t) \/ inv'[r][u] = f[r][u]
  BY <1>1, <1>4, <1>5
<1>7. {s, t} \cap (locked[p] \cup reserved[p]) = {}
  BY DEF Move, CanMove
<1> QED
  BY <1>1, <1>4, <1>6, <1>7

LEMMA ReserveOfMove ==
  ASSUME IInv, NEW p \in Player, Move(p)
  PROVE  Reserves'
<1>1. PICK s, t : s = asked[p].slot /\ t = asked[p].to
  OBVIOUS
<1>2. /\ s \in Slot /\ t \in Slot /\ s # t
      /\ {s, t} \cap (locked[p] \cup reserved[p]) = {}
      /\ \A q \in Player, u \in Slot : (q = p /\ u \in {s, t}) \/ inv'[q][u] = inv[q][u]
  BY <1>1, MoveItems
<1>3. UNCHANGED <<online, reserved, inserts>>
  BY DEF Move, Handled
<1>4. online \subseteq Player /\ \A q \in Player : reserved[q] \subseteq Slot
  BY DEF IInv, Rest
<1>5. ASSUME NEW q \in online, NEW u \in reserved[q] PROVE inv'[q][u] = NoItem
  BY <1>2, <1>4, <1>5 DEF IInv, Reserves
<1> QED
  BY <1>3, <1>5 DEF IInv, Reserves

LEMMA ReservesNext ==
  ASSUME IInv, Next
  PROVE  Reserves'
<1>1. Reserves
  BY DEF IInv
<1>2. ASSUME NEW p \in Player, Ask(p) PROVE Reserves'
  BY <1>1, <1>2, AskOnly, ReserveKept
<1>3. ASSUME NEW p \in Player, ListStep(p) PROVE Reserves'
  BY <1>1, <1>3, ListSteps, ReserveKept
<1>4. ASSUME NEW p \in Player, TradeStep(p) PROVE Reserves'
  <2>1. PICK a, s, n, b, e : ItemGoes(a, s, n, b, e)
    BY <1>4, TradeGoes
  <2>2. online' = online
    BY <1>4, TradeGoes DEF Trading
  <2> QED
    BY <2>1, <2>2, ReserveOfTrade
<1>5. ASSUME NEW p \in Player, OtherStep(p) PROVE Reserves'
  <2>1. CASE Move(p)
    BY <2>1, ReserveOfMove
  <2>2. CASE ~Move(p)
    <3>1. UNCHANGED <<inv, reserved, inserts>> /\ online' \subseteq online
      BY <1>5, <2>2 DEF OtherStep, Open, Close, GuestIn, GuestOut, Refuse, RegistBuyCrashes, Die, DieByPet, Revive,
                        LogOut, Earn, Handled, itemVars
    <3> QED
      BY <1>1, <3>1, ReserveKept
  <2> QED
    BY <2>1, <2>2
<1>6. ASSUME NEW r \in inserts, Inserted(r) PROVE Reserves'
  BY <1>6, ReserveOfInserted
<1> QED
  BY <1>2, <1>3, <1>4, <1>5, <1>6, Steps

-----------------------------------------------------------------------------
(* The types *)

\* Stalls have the same lists, and only their guests may differ.
SameLists ==
  /\ DOMAIN stall' = Player
  /\ \A q \in Player :
       \/ stall'[q] = stall[q]
       \/ /\ IsStall(stall[q]) /\ IsStall(stall'[q])
          /\ stall'[q].kind = stall[q].kind /\ stall'[q].cells = stall[q].cells

\* A guest is struck off a stall's list, or put on it.
LEMMA WithGuests ==
  ASSUME NEW x, IsStall(x), NEW G, G \subseteq Player, NEW y, y = [x EXCEPT !.guests = G]
  PROVE  IsStall(y) /\ y.kind = x.kind /\ y.cells = x.cells /\ y.guests = G
BY DEF IsStall

LEMMA GuestStruck ==
  ASSUME Stalls, NEW o \in Player, stall[o] # NoStall, NEW p,
         stall' = [stall EXCEPT ![o].guests = @ \ {p}]
  PROVE  /\ SameLists /\ stall'[o].guests = stall[o].guests \ {p}
         /\ \A q \in Player \ {o} : stall'[q] = stall[q]
<1>1. IsStall(stall[o])
  BY DEF Stalls
<1>2. PICK G : G = stall[o].guests \ {p}
  OBVIOUS
<1>3. PICK y : y = [stall[o] EXCEPT !.guests = G]
  OBVIOUS
<1>4. G \subseteq Player
  BY <1>1, <1>2 DEF IsStall
<1>5. IsStall(y) /\ y.kind = stall[o].kind /\ y.cells = stall[o].cells /\ y.guests = G
  BY <1>1, <1>3, <1>4, WithGuests
<1>6. stall' = [stall EXCEPT ![o] = y]
  BY <1>2, <1>3
<1>7. DOMAIN stall' = Player /\ stall'[o] = y /\ \A q \in Player \ {o} : stall'[q] = stall[q]
  BY <1>6 DEF Stalls
<1> QED
  BY <1>1, <1>2, <1>5, <1>7 DEF SameLists

\* Whoever logs out or dies leaves a stall, deletes its own or has neither.
Leaves(p) ==
  /\ guestStall[p] \in Player /\ SameLists /\ guestStall' = [guestStall EXCEPT ![p] = NoPlayer]
  /\ stall'[guestStall[p]].guests = stall[guestStall[p]].guests \ {p}
  /\ \A q \in Player \ {guestStall[p]} : stall'[q] = stall[q]
  /\ UNCHANGED locked

Deletes(p) == stall[p] # NoStall /\ guestStall[p] = NoPlayer /\ DeleteStreetStall(p)

Stays(p) == /\ guestStall[p] = NoPlayer \/ guestStall[p] \notin online
            /\ guestStall[p] = NoPlayer => stall[p] = NoStall
            /\ UNCHANGED <<stall, guestStall, locked>>

LEMMA LogOutCases ==
  ASSUME IInv, NEW p \in online, UserLogOut(p)
  PROVE  Leaves(p) \/ Deletes(p) \/ Stays(p)
<1>1. Stalls /\ p \in Player /\ guestStall[p] \in Player \cup {NoPlayer} /\ Visits
  BY DEF IInv, Rest
<1>2. CASE guestStall[p] # NoPlayer
  <2>1. guestStall[p] \in Player /\ stall[guestStall[p]] # NoStall
    BY <1>1, <1>2 DEF Visits, GuestsSound
  <2>2. CASE stall' = [stall EXCEPT ![guestStall[p]].guests = @ \ {p}] /\ UNCHANGED locked
             /\ guestStall' = [guestStall EXCEPT ![p] = NoPlayer]
    BY <1>1, <2>1, <2>2, GuestStruck DEF Leaves
  <2> QED
    BY <1>2, <2>2 DEF UserLogOut, Stays
<1>3. CASE guestStall[p] = NoPlayer
  BY <1>3 DEF UserLogOut, Deletes, Stays
<1> QED
  BY <1>2, <1>3

LEMMA StallsDeleted ==
  ASSUME Stalls, NEW p \in Player, DeleteStreetStall(p)
  PROVE  Stalls' /\ stall'[p] = NoStall /\ \A q \in Player \ {p} : stall'[q] = stall[q]
BY DEF Stalls, DeleteStreetStall

\* A player comes to a stall it has not been at.
LEMMA GuestInCase ==
  ASSUME IInv, NEW p \in Player, GuestIn(p), NEW o, o = asked[p].owner
  PROVE  /\ o \in Player /\ o # p /\ o \in online /\ stall[o] # NoStall /\ guestStall[p] = NoPlayer
         /\ p \in online /\ state[p] \notin {"Guest", "Owner"}
         /\ SameLists /\ stall'[o].guests = stall[o].guests \cup {p}
         /\ \A q \in Player \ {o} : stall'[q] = stall[q]
         /\ guestStall' = [guestStall EXCEPT ![p] = o]
<1>1. Stalls /\ Rest /\ OfGuest(p)
  BY DEF IInv, Requests
<1>2. /\ o \in Player /\ o # p /\ guestStall[p] = NoPlayer /\ o \in online /\ stall[o] # NoStall
      /\ p \in online /\ state[p] \notin {"Guest", "Owner"}
  BY <1>1 DEF GuestIn, CanGuestIn, Handled, OfGuest
<1>3. stall' = [q \in Player |-> IF stall[q] = NoStall THEN NoStall
                 ELSE [stall[q] EXCEPT !.guests = IF q = o THEN @ \cup {p}
                                                  ELSE IF q = guestStall[p] THEN @ \ {p} ELSE @]]
  BY DEF GuestIn
<1>4. ASSUME NEW q \in Player \ {o} PROVE stall'[q] = stall[q]
  <2>1. q # NoPlayer
    BY StallAssumption
  <2>2. CASE stall[q] = NoStall
    BY <1>3, <2>2
  <2>3. CASE stall[q] # NoStall
    <3>1. stall'[q] = [stall[q] EXCEPT !.guests = stall[q].guests]
      BY <1>2, <1>3, <2>1, <2>3
    <3>2. IsStall(stall[q])
      BY <1>1, <2>3 DEF Stalls
    <3> QED
      BY <3>1, <3>2 DEF IsStall
  <2> QED
    BY <2>2, <2>3
<1>5. PICK G : G = stall[o].guests \cup {p}
  OBVIOUS
<1>6. IsStall(stall[o]) /\ G \subseteq Player
  BY <1>1, <1>2, <1>5 DEF Stalls, IsStall
<1>7. PICK y : y = [stall[o] EXCEPT !.guests = G]
  OBVIOUS
<1>8. IsStall(y) /\ y.kind = stall[o].kind /\ y.cells = stall[o].cells /\ y.guests = G
  BY <1>6, <1>7, WithGuests
<1>9. stall'[o] = y
  BY <1>2, <1>3, <1>5, <1>7
<1>10. DOMAIN stall' = Player
  BY <1>3
<1> QED
  BY <1>2, <1>4, <1>5, <1>6, <1>8, <1>9, <1>10 DEF SameLists, GuestIn

LEMMA GuestOutCase ==
  ASSUME IInv, NEW p \in Player, GuestOut(p)
  PROVE  Leaves(p) /\ p \in online
<1>1. Stalls /\ guestStall[p] \in Player \cup {NoPlayer} /\ p \in online /\ Visits
  BY DEF IInv, Rest, GuestOut, Handled
<1>2. guestStall[p] \in online /\ guestStall[p] = asked[p].owner /\ online \subseteq Player
  BY DEF GuestOut, CanGuestOut, IInv, Rest
<1>3. guestStall[p] \in Player /\ stall[guestStall[p]] # NoStall
  BY <1>1, <1>2, StallAssumption DEF Visits, GuestsSound
<1>4. stall' = [stall EXCEPT ![guestStall[p]].guests = @ \ {p}] /\ UNCHANGED locked
      /\ guestStall' = [guestStall EXCEPT ![p] = NoPlayer]
  BY <1>2 DEF GuestOut, itemVars
<1> QED
  BY <1>1, <1>3, <1>4, GuestStruck DEF Leaves

LEMMA NewIsStall ==
  ASSUME NEW k \in {"SELL", "BUY"}
  PROVE  /\ IsStall(NewStall(k)) /\ NewStall(k).kind = k /\ NewStall(k).guests = {}
         /\ \A c \in Cell : NewStall(k).cells[c] = NoArticle
BY NoneIsArticle DEF IsStall, IsList, NewStall

LEMMA OpenCase ==
  ASSUME IInv, NEW p \in Player, Open(p)
  PROVE  /\ KindOf(p) = "NONE" /\ stall[p] = NoStall
         /\ DOMAIN stall' = Player /\ IsStall(stall'[p]) /\ stall'[p].guests = {}
         /\ \A c \in Cell : stall'[p].cells[c] = NoArticle
         /\ \A q \in Player \ {p} : stall'[q] = stall[q]
<1>1. asked[p].kind \in {"SELL", "BUY"} /\ KindOf(p) = "NONE"
  BY DEF IInv, Requests, OfOwner, Open, Handled
<1>2. stall' = [stall EXCEPT ![p] = NewStall(asked[p].kind)]
  BY DEF Open
<1>3. stall[p] = NoStall
  BY <1>1, Filling DEF IInv
<1>4. stall'[p] = NewStall(asked[p].kind) /\ DOMAIN stall' = Player
      /\ \A q \in Player \ {p} : stall'[q] = stall[q]
  BY <1>2 DEF IInv, Stalls
<1> QED
  BY <1>1, <1>3, <1>4, NewIsStall

LEMMA CloseCase ==
  ASSUME IInv, NEW p \in Player, Close(p)
  PROVE  p \in online /\ stall[p] # NoStall /\ DeleteStreetStall(p) /\ online' = online
BY DEF Close, Handled

LEMMA StallsNext ==
  ASSUME IInv, Next
  PROVE  Stalls'
<1>1. Stalls
  BY DEF IInv
<1>2. ASSUME UNCHANGED stall PROVE Stalls'
  BY <1>1, <1>2 DEF Stalls, IsStall, IsList, IsArticle
<1>3. ASSUME SameLists PROVE Stalls'
  BY <1>1, <1>3 DEF Stalls, SameLists
<1>4. ASSUME NEW o \in Player, Rearranged(o) PROVE Stalls'
  BY <1>1, <1>4 DEF Stalls, Rearranged
<1>5. ASSUME NEW p \in Player, Ask(p) PROVE Stalls'
  BY <1>2, <1>5, AskOnly
<1>6. ASSUME NEW p \in Player, ListStep(p) PROVE Stalls'
  BY <1>2, <1>4, <1>6, ListSteps
<1>7. ASSUME NEW p \in Player, TradeStep(p) PROVE Stalls'
  BY <1>4, <1>7, TradeGoes DEF Trading
<1>8. ASSUME NEW p \in Player, OtherStep(p) PROVE Stalls'
  <2>1. CASE Open(p)
    BY <1>1, <2>1, OpenCase DEF Stalls
  <2>2. CASE Close(p)
    BY <1>1, <2>2, CloseCase, StallsDeleted
  <2>3. CASE GuestIn(p)
    BY <1>3, <2>3, GuestInCase
  <2>4. CASE GuestOut(p)
    BY <1>3, <2>4, GuestOutCase DEF Leaves
  <2>5. CASE Die(p) \/ LogOut(p)
    <3>1. p \in online /\ UserLogOut(p)
      BY <2>5 DEF Die, LogOut
    <3> QED
      BY <1>1, <1>2, <1>3, <3>1, LogOutCases, StallsDeleted DEF Leaves, Deletes, Stays
  <2>6. CASE Move(p) \/ Refuse(p) \/ RegistBuyCrashes(p) \/ DieByPet(p) \/ Revive(p) \/ Earn(p)
    <3>1. UNCHANGED stall
      BY <2>6 DEF Move, Refuse, RegistBuyCrashes, DieByPet, Revive, Earn, stallVars
    <3> QED
      BY <1>2, <3>1
  <2> QED
    BY <1>8, <2>1, <2>2, <2>3, <2>4, <2>5, <2>6 DEF OtherStep
<1>9. ASSUME NEW r \in inserts, Inserted(r) PROVE Stalls'
  <2>1. UNCHANGED stall
    BY <1>9 DEF Inserted, stallVars
  <2> QED
    BY <1>2, <2>1
<1> QED
  BY <1>5, <1>6, <1>7, <1>8, <1>9, Steps

LEMMA ItemsNext ==
  ASSUME IInv, Next
  PROVE  Items'
<1>1. Items
  BY DEF IInv
<1>2. ASSUME UNCHANGED inv PROVE Items'
  BY <1>1, <1>2 DEF Items, IsItem
<1>3. IsItem(NoItem) /\ \A i, k, n : k \in Kind => IsItem(ItemOf(i, k, n))
  BY Distinct DEF IsItem
<1>4. ASSUME NEW p \in Player, Ask(p) PROVE Items'
  BY <1>2, <1>4, AskOnly
<1>5. ASSUME NEW p \in Player, ListStep(p) PROVE Items'
  BY <1>2, <1>5, ListSteps
<1>6. ASSUME NEW p \in Player, TradeStep(p) PROVE Items'
  <2>1. PICK a, s, n, b, e : ItemGoes(a, s, n, b, e)
    BY <1>6, TradeGoes
  <2>2. a \in Player /\ b \in Player /\ s \in Slot /\ e \in Slot /\ a # b /\ inv[a][s].kind \in Kind
    BY <2>1 DEF ItemGoes, IInv, Rest
  <2>3. IsItem(inv[a][s])
    BY <1>1, <2>2 DEF Items
  <2>4. CASE Whole(a, s, b, e)
    BY <1>1, <1>3, <2>2, <2>3, <2>4 DEF Whole, Elsewhere, Items
  <2>5. CASE Part(a, s, n, b, e)
    BY <1>1, <1>3, <2>2, <2>5 DEF Part, Elsewhere, Items
  <2> QED
    BY <2>1, <2>4, <2>5 DEF ItemGoes
<1>7. ASSUME NEW p \in Player, OtherStep(p) PROVE Items'
  <2>1. CASE Move(p)
    <3>1. PICK s, t : s = asked[p].slot /\ t = asked[p].to
      OBVIOUS
    <3>2. /\ s \in Slot /\ t \in Slot
          /\ DOMAIN inv' = Player /\ \A q \in Player : DOMAIN inv'[q] = Slot
          /\ inv'[p][s] = inv[p][t] /\ inv'[p][t] = inv[p][s]
          /\ \A q \in Player, u \in Slot : (q = p /\ u \in {s, t}) \/ inv'[q][u] = inv[q][u]
      BY <2>1, <3>1, MoveItems
    <3> QED
      BY <1>1, <3>2 DEF Items
  <2>2. CASE ~Move(p)
    <3>1. UNCHANGED inv
      BY <1>7, <2>2 DEF OtherStep, Open, Close, GuestIn, GuestOut, Refuse, RegistBuyCrashes, Die, DieByPet, Revive,
                        LogOut, Earn, Handled, itemVars
    <3> QED
      BY <1>2, <3>1
  <2> QED
    BY <2>1, <2>2
<1>8. ASSUME NEW r \in inserts, Inserted(r) PROVE Items'
  <2>1. CASE r.who \notin online
    BY <1>2, <1>8, <2>1 DEF Inserted
  <2>2. CASE r.who \in online
    <3>1. PICK x : x = ItemOf(FreshId, r.kind, r.n)
      OBVIOUS
    <3>2. inv' = [inv EXCEPT ![r.who][r.slot] = x] /\ IsItem(x)
      BY <1>3, <1>8, <2>2, <3>1 DEF Inserted, IInv, Rest
    <3> QED
      BY <1>1, <3>2 DEF Items
  <2> QED
    BY <2>1, <2>2
<1> QED
  BY <1>4, <1>5, <1>6, <1>7, <1>8, Steps

-----------------------------------------------------------------------------
(* Guests *)

LEMMA LeavesVisits ==
  ASSUME IInv, NEW p \in online, Leaves(p), online' = online \/ online' = online \ {p},
         \A q \in Player \ {p} : state'[q] = state[q],
         state'[p] # "Guest", state'[p] = "Owner" => state[p] = "Owner"
  PROVE  Visits'
<1>1. PICK o : o = guestStall[p] /\ o \in Player
  BY DEF Leaves
<1>2. /\ DOMAIN guestStall = Player /\ online \subseteq Player /\ p \in Player
      /\ NoPlayer \notin Player
      /\ \A q \in Player : guestStall[q] \in Player \cup {NoPlayer}
  BY StallAssumption DEF IInv, Rest
<1>3. guestStall'[p] = NoPlayer /\ \A q \in Player \ {p} : guestStall'[q] = guestStall[q]
  BY <1>2 DEF Leaves
<1>4. \A q \in Player : stall'[q] = NoStall <=> stall[q] = NoStall
  BY Filling, Distinct DEF Leaves, SameLists, IInv, KindOf, IsStall
<1>5. /\ stall'[o].guests = stall[o].guests \ {p}
      /\ \A q \in Player \ {o} : stall'[q] = stall[q]
  BY <1>1 DEF Leaves
<1>6. /\ \A q \in online : guestStall[q] # NoPlayer => stall[guestStall[q]] # NoStall
      /\ \A q \in online : stall[q] # NoStall => stall[q].guests = {r \in online : guestStall[r] = q}
      /\ \A q \in online : state[q] = "Guest" => guestStall[q] # NoPlayer
      /\ \A q \in online : state[q] = "Owner" => stall[q] # NoStall
      /\ \A q \in Player : guestStall[q] # q
  BY DEF IInv, Visits, GuestsSound
<1>7. \A q \in online' : guestStall'[q] # NoPlayer => stall'[guestStall'[q]] # NoStall
  BY <1>2, <1>3, <1>4, <1>6
<1>8. ASSUME NEW q \in online', stall'[q] # NoStall
      PROVE  stall'[q].guests = {r \in online' : guestStall'[r] = q}
  <2>1. q \in online /\ stall[q] # NoStall /\ stall[q].guests = {r \in online : guestStall[r] = q}
    BY <1>2, <1>4, <1>6, <1>8
  <2>2. CASE q = o
    BY <1>1, <1>2, <1>3, <1>5, <2>1, <2>2
  <2>3. CASE q # o
    BY <1>1, <1>2, <1>3, <1>5, <2>1, <2>3
  <2> QED
    BY <2>2, <2>3
<1>9. \A q \in online' : /\ state'[q] = "Guest" => guestStall'[q] # NoPlayer
                         /\ state'[q] = "Owner" => stall'[q] # NoStall
  BY <1>2, <1>3, <1>4, <1>6
<1>10. \A q \in Player : guestStall'[q] # q
  BY <1>2, <1>3, <1>6
<1> QED
  BY <1>7, <1>8, <1>9, <1>10 DEF Visits, GuestsSound

LEMMA DeletedVisits ==
  ASSUME IInv, NEW p \in online, stall[p] # NoStall, DeleteStreetStall(p),
         online' = online \/ (online' = online \ {p} /\ guestStall[p] = NoPlayer),
         \A q \in Player \ {p} : state'[q] = EndOf(stall[p].guests, "Guest")[q],
         state'[p] # "Owner", state'[p] = "Guest" => state[p] = "Guest"
  PROVE  Visits'
<1>1. /\ DOMAIN guestStall = Player /\ online \subseteq Player /\ p \in Player
      /\ NoPlayer \notin Player
      /\ \A q \in Player : guestStall[q] \in Player \cup {NoPlayer}
  BY StallAssumption DEF IInv, Rest
<1>2. /\ stall'[p] = NoStall /\ \A q \in Player \ {p} : stall'[q] = stall[q]
  BY <1>1, StallsDeleted DEF IInv
<1>3. /\ \A q \in online : guestStall[q] # NoPlayer => stall[guestStall[q]] # NoStall
      /\ \A q \in online : stall[q] # NoStall => stall[q].guests = {r \in online : guestStall[r] = q}
      /\ \A q \in online : state[q] = "Guest" => guestStall[q] # NoPlayer
      /\ \A q \in online : state[q] = "Owner" => stall[q] # NoStall
      /\ \A q \in Player : guestStall[q] # q
  BY DEF IInv, Visits, GuestsSound
<1>4. PICK G : G = stall[p].guests /\ G = {r \in online : guestStall[r] = p}
  BY <1>3
<1>5. \A q \in Player : guestStall'[q] = IF q \in G THEN NoPlayer ELSE guestStall[q]
  BY <1>4 DEF DeleteStreetStall
<1>6. \A q \in Player \ {p} : state'[q] = IF q \in G /\ state[q] = "Guest" THEN "None" ELSE state[q]
  BY <1>4 DEF EndOf
<1>7. \A q \in online' : guestStall'[q] # NoPlayer => stall'[guestStall'[q]] # NoStall
  BY <1>1, <1>2, <1>3, <1>4, <1>5
<1>8. ASSUME NEW q \in online', stall'[q] # NoStall
      PROVE  stall'[q].guests = {r \in online' : guestStall'[r] = q}
  <2>1. q # p /\ q \in online /\ stall'[q] = stall[q] /\ q \in Player
    BY <1>1, <1>2, <1>8
  <2>2. stall[q].guests = {r \in online : guestStall[r] = q}
    BY <1>3, <1>8, <2>1
  <2>3. \A r \in online : guestStall'[r] = q <=> guestStall[r] = q
    BY <1>1, <1>4, <1>5, <2>1
  <2>4. online' = online \/ (online' = online \ {p} /\ guestStall[p] # q)
    BY <1>1, <2>1
  <2> QED
    BY <1>1, <2>1, <2>2, <2>3, <2>4
<1>9. \A q \in online' : /\ state'[q] = "Guest" => guestStall'[q] # NoPlayer
                         /\ state'[q] = "Owner" => stall'[q] # NoStall
  <2>1. ASSUME NEW q \in online' PROVE state'[q] = "Owner" => stall'[q] # NoStall
    BY <1>1, <1>2, <1>3, <1>6
  <2>2. ASSUME NEW q \in online', state'[q] = "Guest" PROVE guestStall'[q] # NoPlayer
    <3>1. q \in online /\ q \in Player /\ state[q] = "Guest" /\ q \notin G
      BY <1>1, <1>3, <1>4, <1>6, <2>2
    <3> QED
      BY <1>3, <1>5, <3>1
  <2> QED
    BY <2>1, <2>2
<1>10. \A q \in Player : guestStall'[q] # q
  BY <1>1, <1>3, <1>5
<1> QED
  BY <1>7, <1>8, <1>9, <1>10 DEF Visits, GuestsSound

LEMMA StaysVisits ==
  ASSUME IInv, NEW p \in online, Stays(p),
         online' = online \/ online' = online \ {p},
         \A q \in Player \ {p} : state'[q] = state[q], state'[p] \notin {"Guest", "Owner"}
  PROVE  Visits'
<1>1. online \subseteq Player /\ NoPlayer \notin Player
  BY StallAssumption DEF IInv, Rest
<1>2. /\ UNCHANGED <<stall, guestStall>>
      /\ online' = online \/ (online' = online \ {p} /\ guestStall[p] \notin online)
  BY <1>1 DEF Stays
<1>3. /\ \A q \in online : guestStall[q] # NoPlayer => stall[guestStall[q]] # NoStall
      /\ \A q \in online : stall[q] # NoStall => stall[q].guests = {r \in online : guestStall[r] = q}
      /\ \A q \in online : state[q] = "Guest" => guestStall[q] # NoPlayer
      /\ \A q \in online : state[q] = "Owner" => stall[q] # NoStall
      /\ \A q \in Player : guestStall[q] # q
  BY DEF IInv, Visits, GuestsSound
<1>4. \A q \in online' : guestStall'[q] # NoPlayer => stall'[guestStall'[q]] # NoStall
  BY <1>2, <1>3
<1>5. \A q \in online' : stall'[q] # NoStall => stall'[q].guests = {r \in online' : guestStall'[r] = q}
  BY <1>2, <1>3
<1>6. \A q \in online' : /\ state'[q] = "Guest" => guestStall'[q] # NoPlayer
                         /\ state'[q] = "Owner" => stall'[q] # NoStall
  BY <1>1, <1>2, <1>3
<1> QED
  BY <1>2, <1>3, <1>4, <1>5, <1>6 DEF Visits, GuestsSound

LEMMA GuestInVisits ==
  ASSUME IInv, NEW p \in Player, GuestIn(p)
  PROVE  Visits'
<1>1. PICK o : o = asked[p].owner
  OBVIOUS
<1>2. /\ o \in Player /\ o # p /\ o \in online /\ stall[o] # NoStall /\ guestStall[p] = NoPlayer
      /\ p \in online
      /\ SameLists /\ stall'[o].guests = stall[o].guests \cup {p}
      /\ \A q \in Player \ {o} : stall'[q] = stall[q]
      /\ guestStall' = [guestStall EXCEPT ![p] = o]
  BY <1>1, GuestInCase
<1>3. /\ DOMAIN guestStall = Player /\ online \subseteq Player /\ online' = online
      /\ NoPlayer \notin Player /\ DOMAIN state = Player
      /\ \A q \in Player : guestStall[q] \in Player \cup {NoPlayer}
  BY StallAssumption DEF IInv, Rest, GuestIn, Handled
<1>4. guestStall'[p] = o /\ \A q \in Player \ {p} : guestStall'[q] = guestStall[q]
  BY <1>2, <1>3
<1>5. \A q \in Player : stall'[q] = NoStall <=> stall[q] = NoStall
  BY <1>2, Distinct DEF SameLists, IsStall
<1>6. /\ \A q \in Player \ {p} : state'[q] = state[q]
      /\ state'[p] \in {"Guest", "Die"}
  BY <1>2, <1>3 DEF GuestIn, Start
<1>7. /\ \A q \in online : guestStall[q] # NoPlayer => stall[guestStall[q]] # NoStall
      /\ \A q \in online : stall[q] # NoStall => stall[q].guests = {r \in online : guestStall[r] = q}
      /\ \A q \in online : state[q] = "Guest" => guestStall[q] # NoPlayer
      /\ \A q \in online : state[q] = "Owner" => stall[q] # NoStall
      /\ \A q \in Player : guestStall[q] # q
  BY DEF IInv, Visits, GuestsSound
<1>8. \A q \in online' : guestStall'[q] # NoPlayer => stall'[guestStall'[q]] # NoStall
  BY <1>2, <1>3, <1>4, <1>5, <1>7
<1>9. ASSUME NEW q \in online', stall'[q] # NoStall
      PROVE  stall'[q].guests = {r \in online' : guestStall'[r] = q}
  <2>1. q \in online /\ stall[q] # NoStall /\ stall[q].guests = {r \in online : guestStall[r] = q}
    BY <1>3, <1>5, <1>7, <1>9
  <2>2. CASE q = o
    BY <1>2, <1>3, <1>4, <2>1, <2>2
  <2>3. CASE q # o
    <3>1. stall'[q] = stall[q]
      BY <1>2, <1>3, <2>1, <2>3
    <3>2. \A r \in online : guestStall'[r] = q <=> guestStall[r] = q
      BY <1>2, <1>3, <1>4, <2>1, <2>3
    <3> QED
      BY <1>3, <2>1, <3>1, <3>2
  <2> QED
    BY <2>2, <2>3
<1>10. \A q \in online' : /\ state'[q] = "Guest" => guestStall'[q] # NoPlayer
                          /\ state'[q] = "Owner" => stall'[q] # NoStall
  BY <1>2, <1>3, <1>4, <1>5, <1>6, <1>7
<1>11. \A q \in Player : guestStall'[q] # q
  BY <1>2, <1>4, <1>7
<1> QED
  BY <1>8, <1>9, <1>10, <1>11 DEF Visits, GuestsSound

LEMMA OpenVisits ==
  ASSUME IInv, NEW p \in Player, Open(p)
  PROVE  Visits'
<1>1. /\ stall[p] = NoStall /\ IsStall(stall'[p]) /\ stall'[p].guests = {}
      /\ \A q \in Player \ {p} : stall'[q] = stall[q]
  BY OpenCase
<1>2. /\ online \subseteq Player /\ online' = online /\ guestStall' = guestStall
      /\ NoPlayer \notin Player /\ DOMAIN state = Player
      /\ \A q \in Player : guestStall[q] \in Player \cup {NoPlayer}
  BY StallAssumption DEF IInv, Rest, Open, Handled
<1>3. stall'[p] # NoStall
  BY <1>1, Distinct DEF IsStall
<1>4. /\ \A q \in Player \ {p} : state'[q] = state[q]
      /\ state'[p] \in {"Owner", "Die"}
  BY <1>2 DEF Open, Start
<1>5. /\ \A q \in online : guestStall[q] # NoPlayer => stall[guestStall[q]] # NoStall
      /\ \A q \in online : stall[q] # NoStall => stall[q].guests = {r \in online : guestStall[r] = q}
      /\ \A q \in online : state[q] = "Guest" => guestStall[q] # NoPlayer
      /\ \A q \in online : state[q] = "Owner" => stall[q] # NoStall
      /\ \A q \in Player : guestStall[q] # q
  BY DEF IInv, Visits, GuestsSound
<1>6. \A q \in online' : guestStall'[q] # NoPlayer => stall'[guestStall'[q]] # NoStall
  BY <1>1, <1>2, <1>3, <1>5
<1>7. ASSUME NEW q \in online', stall'[q] # NoStall
      PROVE  stall'[q].guests = {r \in online' : guestStall'[r] = q}
  <2>1. CASE q = p
    <3>1. \A r \in online : guestStall[r] # p
      BY <1>1, <1>2, <1>5
    <3> QED
      BY <1>1, <1>2, <2>1, <3>1
  <2>2. CASE q # p
    BY <1>1, <1>2, <1>5, <1>7, <2>2
  <2> QED
    BY <2>1, <2>2
<1>8. \A q \in online' : /\ state'[q] = "Guest" => guestStall'[q] # NoPlayer
                         /\ state'[q] = "Owner" => stall'[q] # NoStall
  BY <1>1, <1>2, <1>3, <1>4, <1>5
<1> QED
  BY <1>2, <1>5, <1>6, <1>7, <1>8 DEF Visits, GuestsSound

LEMMA SameVisits ==
  ASSUME IInv, UNCHANGED <<online, guestStall>>,
         UNCHANGED stall \/ \E o \in Player : Rearranged(o),
         \A q \in Player : state'[q] \in {state[q], "None", "Die"}
  PROVE  Visits'
<1>1. \A q \in Player : /\ stall'[q] = NoStall <=> stall[q] = NoStall
                        /\ stall[q] # NoStall => stall'[q].guests = stall[q].guests
  BY Distinct DEF Rearranged, IsStall
<1>2. online \subseteq Player /\ \A q \in Player : guestStall[q] \in Player \cup {NoPlayer}
  BY DEF IInv, Rest
<1>3. /\ \A q \in online : guestStall[q] # NoPlayer => stall[guestStall[q]] # NoStall
      /\ \A q \in online : stall[q] # NoStall => stall[q].guests = {r \in online : guestStall[r] = q}
      /\ \A q \in online : state[q] = "Guest" => guestStall[q] # NoPlayer
      /\ \A q \in online : state[q] = "Owner" => stall[q] # NoStall
      /\ \A q \in Player : guestStall[q] # q
  BY DEF IInv, Visits, GuestsSound
<1>4. \A q \in online' : guestStall'[q] # NoPlayer => stall'[guestStall'[q]] # NoStall
  BY <1>1, <1>2, <1>3
<1>5. \A q \in online' : stall'[q] # NoStall => stall'[q].guests = {r \in online' : guestStall'[r] = q}
  BY <1>1, <1>2, <1>3
<1>6. \A q \in online' : /\ state'[q] = "Guest" => guestStall'[q] # NoPlayer
                         /\ state'[q] = "Owner" => stall'[q] # NoStall
  BY <1>1, <1>2, <1>3
<1> QED
  BY <1>3, <1>4, <1>5, <1>6 DEF Visits, GuestsSound

LEMMA VisitsNext ==
  ASSUME IInv, Next
  PROVE  Visits'
<1>1. online \subseteq Player /\ state \in [Player -> {"None", "Owner", "Guest", "Die"}]
  BY DEF IInv, Rest
<1>2. ASSUME NEW p \in Player, Ask(p) PROVE Visits'
  BY <1>2, AskOnly, SameVisits
<1>3. ASSUME NEW p \in Player, ListStep(p) PROVE Visits'
  BY <1>3, ListSteps, SameVisits
<1>4. ASSUME NEW p \in Player, TradeStep(p) PROVE Visits'
  BY <1>4, TradeGoes, SameVisits DEF Trading
<1>5. ASSUME NEW p \in Player, Close(p) PROVE Visits'
  <2>1. p \in online /\ stall[p] # NoStall /\ DeleteStreetStall(p) /\ online' = online
    BY <1>5, CloseCase
  <2>2. /\ \A q \in Player \ {p} : state'[q] = EndOf(stall[p].guests, "Guest")[q]
        /\ state'[p] # "Owner" /\ (state'[p] = "Guest" => state[p] = "Guest")
    BY <1>5 DEF Close, StateWithout, EndOf
  <2> QED
    BY <2>1, <2>2, DeletedVisits
<1>6. ASSUME NEW p \in Player, GuestOut(p) PROVE Visits'
  <2>1. Leaves(p) /\ p \in online
    BY <1>6, GuestOutCase
  <2>2. /\ online' = online /\ \A q \in Player \ {p} : state'[q] = state[q]
        /\ state'[p] # "Guest" /\ (state'[p] = "Owner" => state[p] = "Owner")
    BY <1>1, <1>6 DEF GuestOut, EndOf, Handled
  <2> QED
    BY <2>1, <2>2, LeavesVisits
<1>7. ASSUME NEW p \in Player, Die(p) \/ LogOut(p) PROVE Visits'
  <2>1. p \in online /\ UserLogOut(p) /\ (online' = online \/ online' = online \ {p})
    BY <1>7 DEF Die, LogOut
  <2>2. PICK x : state' = [StateAfterLogOut(p) EXCEPT ![p] = x] /\ x \in {"None", "Die"}
    BY <1>7 DEF Die, LogOut
  <2>3. CASE Leaves(p)
    <3>1. StateAfterLogOut(p) = state
      BY <2>3, StallAssumption DEF Leaves, StateAfterLogOut
    <3>2. state'[p] = x /\ \A q \in Player \ {p} : state'[q] = state[q]
      BY <1>1, <2>2, <3>1
    <3> QED
      BY <2>1, <2>2, <2>3, <3>2, LeavesVisits
  <2>4. CASE Deletes(p)
    <3>1. StateAfterLogOut(p) = StateWithout(p)
      BY <2>4 DEF Deletes, StateAfterLogOut
    <3>2. state'[p] = x /\ \A q \in Player \ {p} : state'[q] = EndOf(stall[p].guests, "Guest")[q]
      BY <2>2, <3>1 DEF StateWithout
    <3> QED
      BY <2>1, <2>2, <2>4, <3>2, DeletedVisits DEF Deletes
  <2>5. CASE Stays(p)
    <3>1. StateAfterLogOut(p) = state
      BY <2>5 DEF Stays, StateAfterLogOut
    <3>2. state'[p] = x /\ \A q \in Player \ {p} : state'[q] = state[q]
      BY <1>1, <2>2, <3>1
    <3> QED
      BY <2>1, <2>2, <2>5, <3>2, StaysVisits
  <2> QED
    BY <2>1, <2>3, <2>4, <2>5, LogOutCases
<1>8. ASSUME NEW p \in Player, Move(p) \/ Refuse(p) \/ RegistBuyCrashes(p) \/ DieByPet(p) \/ Revive(p) \/ Earn(p)
      PROVE  Visits'
  <2>1. UNCHANGED <<online, guestStall, stall>>
    BY <1>8 DEF Move, Refuse, RegistBuyCrashes, DieByPet, Revive, Earn, stallVars, Handled
  <2>2. \A q \in Player : state'[q] \in {state[q], "None", "Die"}
    BY <1>1, <1>8 DEF Move, Refuse, RegistBuyCrashes, DieByPet, Revive, Earn, stallVars
  <2> QED
    BY <2>1, <2>2, SameVisits
<1>9. ASSUME NEW r \in inserts, Inserted(r) PROVE Visits'
  <2>1. UNCHANGED <<online, guestStall, stall, state>>
    BY <1>9 DEF Inserted, stallVars
  <2> QED
    BY <2>1, SameVisits
<1> QED
  BY <1>2, <1>3, <1>4, <1>5, <1>6, <1>7, <1>8, <1>9, Steps, OpenVisits, GuestInVisits DEF OtherStep

-----------------------------------------------------------------------------
(* Requests *)

\* What a request relies on is not disturbed by what others do.
Undisturbed(q) ==
  /\ asked'[q] = asked[q] /\ (q \in online => q \in online')
  /\ KindOf(q)' \in {KindOf(q), "NONE"}
  /\ guestStall'[q] \in {guestStall[q], NoPlayer}
  /\ guestStall'[q] \in Player => KindOf(guestStall[q])' = KindOf(guestStall[q])
  /\ KindOf(q)' = "SELL" =>
       \A d \in Filled(q)' : \E c \in Filled(q) : Article(q, d)'.slot = Article(q, c).slot

OfPlayer(q) == OfOwner(q) /\ OfGuest(q) /\ OfItems(q)

LEMMA RequestsKept ==
  ASSUME IInv
  PROVE  \A q \in Player : asked'[q] = NoRequest \/ Undisturbed(q) => OfPlayer(q)'
<1>1. \A q \in Player : OfOwner(q) /\ OfGuest(q) /\ OfItems(q)
  BY DEF IInv, Requests
<1>2. ASSUME NEW q \in Player, asked'[q] = NoRequest
      PROVE  (OfOwner(q) /\ OfGuest(q) /\ OfItems(q))'
  BY <1>2 DEF OfOwner, OfGuest, OfItems, NoRequest
<1>3. ASSUME NEW q \in Player, Undisturbed(q)
      PROVE  (OfOwner(q) /\ OfGuest(q) /\ OfItems(q))'
  <2>1. OfOwner(q)'
    BY <1>1, <1>3 DEF OfOwner, Undisturbed
  <2>2. OfGuest(q)'
    BY <1>1, <1>3, StallAssumption DEF OfGuest, Undisturbed
  <2>3. ASSUME NEW s, Free(q, s) PROVE Free(q, s)'
    <3>1. ASSUME KindOf(q)' = "SELL", NEW d \in Filled(q)' PROVE Article(q, d)'.slot # s
      <4>1. KindOf(q) = "SELL"
        BY <1>3, <3>1 DEF Undisturbed
      <4>2. PICK c \in Filled(q) : Article(q, d)'.slot = Article(q, c).slot
        BY <1>3, <3>1 DEF Undisturbed
      <4> QED
        BY <2>3, <4>1, <4>2 DEF Free
    <3> QED
      BY <3>1 DEF Free
  <2>4. OfItems(q)'
    <3>1. PICK m : m = asked[q] /\ m = asked'[q]
      BY <1>3 DEF Undisturbed
    <3>2. /\ m.type \in {"SELL", "MOVE"} => m.slot \in Slot /\ Free(q, m.slot)
          /\ m.type = "MOVE" => m.to \in Slot \ {m.slot} /\ Free(q, m.to)
      BY <1>1, <3>1 DEF OfItems
    <3>3. /\ m.type \in {"SELL", "MOVE"} => m.slot \in Slot /\ Free(q, m.slot)'
          /\ m.type = "MOVE" => m.to \in Slot \ {m.slot} /\ Free(q, m.to)'
      BY <2>3, <3>2
    <3>4. Free(q, m.slot)' = Free(q, asked[q].slot)' /\ Free(q, m.to)' = Free(q, asked[q].to)'
      BY <3>1 DEF Free
    <3> QED
      BY <3>1, <3>3, <3>4 DEF OfItems
  <2> QED
    BY <2>1, <2>2, <2>4
<1> QED
  BY <1>2, <1>3 DEF OfPlayer

LEMMA SameListUndisturbed ==
  ASSUME IInv, NEW q \in Player, asked'[q] = asked[q], q \in online => q \in online',
         guestStall'[q] \in {guestStall[q], NoPlayer},
         guestStall'[q] \in Player => KindOf(guestStall[q])' = KindOf(guestStall[q]),
         stall'[q] = stall[q] \/ stall'[q] = NoStall
                             \/ (stall'[q].kind = stall[q].kind /\ stall'[q].cells = stall[q].cells)
  PROVE  Undisturbed(q)
<1>1. CASE stall'[q] = NoStall
  BY <1>1, Distinct DEF Undisturbed, KindOf
<1>2. CASE stall'[q].kind = stall[q].kind /\ stall'[q].cells = stall[q].cells
  <2>1. KindOf(q)' = KindOf(q) /\ \A c \in Cell : Article(q, c)' = Article(q, c)
    BY <1>2 DEF KindOf, Article
  <2>2. KindOf(q) = "SELL" => \A c \in Cell : c \in Filled(q)' => c \in Filled(q)
    BY <1>2, Distinct DEF KindOf, Filled
  <2>3. \A c : c \in Filled(q)' => c \in Cell
    BY DEF Filled
  <2> QED
    BY <2>1, <2>2, <2>3 DEF Undisturbed
<1> QED
  BY <1>1, <1>2

LEMMA TradeUndisturbed ==
  ASSUME IInv, NEW p \in Player, TradeStep(p), NEW q \in Player \ {p}
  PROVE  Undisturbed(q)
<1>1. PICK o, c : Trading(p, o, c) /\
        \/ KindOf(o) = "BUY"
        \/ \E s, e : BuysWhole(p, o, c, s, e)
        \/ \E s, n, e : BuysPart(p, o, c, s, n, e)
  BY BuySteps, SellSteps DEF TradeStep, BuysWhole, BuysPart, Sells
<1>2. /\ o \in Player /\ Rearranged(o) /\ asked'[q] = asked[q] /\ UNCHANGED <<online, guestStall>>
  BY <1>1 DEF Trading, Answered, IInv, Requests
<1>3. \A r \in Player : KindOf(r)' = KindOf(r)
  BY <1>2 DEF Rearranged, KindOf
<1>4. CASE q # o
  <2>1. stall'[q] = stall[q]
    BY <1>2, <1>4 DEF Rearranged
  <2> QED
    BY <1>2, <1>3, <2>1, SameListUndisturbed
<1>5. CASE q = o /\ KindOf(o) = "BUY"
  BY <1>2, <1>3, <1>5 DEF Undisturbed
<1>6. CASE q = o /\ KindOf(o) = "SELL"
  <2>1. ASSUME NEW d \in Filled(o)' PROVE \E k \in Filled(o) : Article(o, d)'.slot = Article(o, k).slot
    <3>1. d \in Cell /\ Article(o, d)'.kind # NoKind
      <4>1. Article(o, d)' # NoArticle /\ d \in Cell
        BY DEF Filled, Article
      <4>2. IsArticle(Article(o, d))'
        BY <1>2, <4>1 DEF Rearranged, IsStall, IsList, Article
      <4> QED
        BY <4>1, <4>2, Distinct DEF IsArticle, NoArticle, ArticleOf, NoItem, ItemOf
    <3>2. CASE \E s, e : BuysWhole(p, o, c, s, e)
      <4>1. Article(o, d)' = IF d < c THEN Article(o, d)
                             ELSE IF d < NCells THEN Article(o, d + 1) ELSE NoArticle
        BY <3>1, <3>2 DEF BuysWhole
      <4>2. d < NCells => d + 1 \in Cell
        BY <3>1, StallAssumption DEF Cell
      <4>3. PICK k \in Cell : Article(o, d)' = Article(o, k)
        BY <3>1, <4>1, <4>2, Distinct
      <4>4. k \in Filled(o)
        BY <1>2, <1>6, <3>1, <4>3, Filling DEF IInv
      <4> QED
        BY <4>3, <4>4
    <3>3. CASE \E s, n, e : BuysPart(p, o, c, s, n, e)
      <4>1. OnlyAt(o, c) /\ Kept(o, c)
        BY <3>3 DEF BuysPart
      <4>2. CASE d = c
        BY <4>1, <4>2 DEF Kept, Alike
      <4>3. CASE d # c
        <5>1. Article(o, d)' = Article(o, d)
          BY <3>1, <4>1, <4>3 DEF OnlyAt
        <5>2. d \in Filled(o)
          BY <1>2, <1>6, <3>1, <5>1, Filling DEF IInv
        <5> QED
          BY <5>1, <5>2
      <4> QED
        BY <4>2, <4>3
    <3> QED
      BY <1>1, <1>6, <3>2, <3>3
  <2> QED
    BY <1>2, <1>3, <1>6, <2>1 DEF Undisturbed
<1> QED
  BY <1>1, <1>4, <1>5, <1>6 DEF BuysWhole, BuysPart

\* A new request fits what there is.
Fits(p, m) ==
  /\ p \in online
  /\ m.type = "OPEN" => KindOf(p) = "NONE" /\ m.kind \in {"SELL", "BUY"}
  /\ m.type \in {"REGIST", "LOCK", "UNLOCK", "DELETE"} => KindOf(p) # "BUY"
  /\ m.type \in {"REGISTBUY", "UPDATE", "UPDATEEND", "DELETEBUY"} => KindOf(p) # "SELL"
  /\ m.type = "REGIST" => m.slot \in Slot
  /\ m.type = "REGISTBUY" => m.cell \in Cell /\ m.kind \in Kind
  /\ m.type = "GUESTIN" => m.owner \in Player \ {p} /\ guestStall[p] = NoPlayer
  /\ m.type \in {"BUY", "SELL"} => m.owner \in Player \ {p} /\ m.cell \in Cell
  /\ m.type = "BUY" => KindOf(m.owner) = "SELL"
  /\ m.type = "SELL" => KindOf(m.owner) = "BUY"
  /\ m.type \in {"SELL", "MOVE"} => m.slot \in Slot /\ Free(p, m.slot)
  /\ m.type = "MOVE" => m.to \in Slot \ {m.slot} /\ Free(p, m.to)

LEMMA FreeCells ==
  ASSUME IInv, NEW p \in Player, NEW s \in Slot
  PROVE  /\ s \in Unlisted(p) => Free(p, s)
         /\ inv[p][s] = NoItem => Free(p, s)
<1>1. ASSUME KindOf(p) = "SELL", NEW c \in Filled(p), Article(p, c).slot = s
      PROVE  inv[p][s].id = Article(p, c).id /\ inv[p][s] # NoItem
  <2>1. inv[p][s] = ItemOf(Article(p, c).id, Article(p, c).kind, Article(p, c).n)
    BY <1>1 DEF IInv, Lists, Backed
  <2>2. Article(p, c).kind # NoKind
    BY Filling DEF IInv
  <2> QED
    BY <2>1, <2>2, Distinct
<1>2. s \in Unlisted(p) /\ KindOf(p) = "SELL" => ~Listed(p, inv[p][s].id)
  BY Filling DEF Unlisted, IInv
<1> QED
  BY <1>1, <1>2 DEF Free, Listed

LEMMA AskFits ==
  ASSUME IInv, NEW p \in Player, Ask(p)
  PROVE  \E m : Fits(p, m) /\ Asks(p, m)
<1>1. /\ \A q \in Player : guestStall[q] \in Player \cup {NoPlayer}
      /\ \A q \in Player : guestStall[q] # q /\ Filled(q) \subseteq Cell
      /\ \A q \in Player : \A k \in {"SELL", "BUY"} : HasStall(q, k) <=> KindOf(q) = k
      /\ online \subseteq Player
  BY Filling DEF IInv, Rest, Visits
<1>2. p \in online
  BY DEF Ask, AskOpen, AskClose, AskOfArticle, AskOfWanted, AskGuestIn, AskGuestOut, AskBuy, AskSell,
         AskMove, MayAsk, IsKeeper
<1>3. CASE AskOpen(p)
  <2>1. KindOf(p) = "NONE" /\ \A k \in Opens[p] : k \in {"SELL", "BUY"}
    BY <1>3, StallAssumption, Filling DEF IInv, AskOpen
  <2> QED
    BY <1>2, <1>3, <2>1 DEF AskOpen, Fits
<1>4. CASE AskClose(p)
  BY <1>2, <1>4 DEF AskClose, Fits
<1>5. CASE AskOfArticle(p)
  <2>1. KindOf(p) = "SELL"
    BY <1>1, <1>5 DEF AskOfArticle, IsKeeper
  <2>2. \A s \in Unlisted(p) : s \in Slot
    BY DEF Unlisted
  <2> QED
    BY <1>2, <1>5, <2>1, <2>2 DEF AskOfArticle, Fits
<1>6. CASE AskOfWanted(p)
  <2>1. KindOf(p) = "BUY"
    BY <1>1, <1>6 DEF AskOfWanted, IsKeeper
  <2> QED
    BY <1>2, <1>6, <2>1 DEF AskOfWanted, Fits
<1>7. CASE AskGuestIn(p)
  BY <1>1, <1>2, <1>7 DEF AskGuestIn, Fits
<1>8. CASE AskGuestOut(p)
  BY <1>2, <1>8 DEF AskGuestOut, Fits
<1>9. CASE AskBuy(p)
  <2>1. PICK o : o = guestStall[p] /\ o \in Player \ {p} /\ KindOf(o) = "SELL"
    BY <1>1, <1>9 DEF AskBuy
  <2> QED
    BY <1>1, <1>2, <1>9, <2>1 DEF AskBuy, Fits
<1>10. CASE AskSell(p)
  <2>1. PICK o : o = guestStall[p] /\ o \in Player \ {p} /\ KindOf(o) = "BUY"
    BY <1>1, <1>10 DEF AskSell
  <2>2. \A s \in Unlisted(p) : s \in Slot /\ Free(p, s)
    BY FreeCells DEF Unlisted
  <2> QED
    BY <1>1, <1>2, <1>10, <2>1, <2>2 DEF AskSell, Fits
<1>11. CASE AskMove(p)
  <2>1. \A s \in Unlisted(p) : s \in Slot /\ Free(p, s)
    BY FreeCells DEF Unlisted
  <2>2. \A t \in Slot : inv[p][t] = NoItem => Free(p, t)
    BY FreeCells
  <2> QED
    BY <1>2, <1>11, <2>1, <2>2 DEF AskMove, Fits
<1> QED
  BY <1>3, <1>4, <1>5, <1>6, <1>7, <1>8, <1>9, <1>10, <1>11 DEF Ask

LEMMA AskRequests ==
  ASSUME IInv, NEW p \in Player, Ask(p)
  PROVE  Requests'
<1>1. PICK m : Fits(p, m) /\ Asks(p, m)
  BY AskFits
<1>2. /\ DOMAIN asked' = Player /\ asked'[p] = m /\ \A q \in Player \ {p} : asked'[q] = asked[q]
      /\ UNCHANGED <<online, guestStall, stall>>
  BY <1>1 DEF Asks, IInv, Requests, stallVars
<1>3. OfPlayer(p)'
  <2>1. KindOf(p)' = KindOf(p) /\ KindOf(m.owner)' = KindOf(m.owner)
    BY <1>2 DEF KindOf
  <2>2. /\ Free(p, m.slot) => Free(p, asked[p].slot)'
        /\ Free(p, m.to) => Free(p, asked[p].to)'
    BY <1>2 DEF Free, KindOf, Filled, Article
  <2>3. OfItems(p)'
    BY <1>1, <1>2, <2>2 DEF Fits, OfItems
  <2>4. OfGuest(p)'
    BY <1>1, <1>2, <2>1 DEF Fits, OfGuest, KindOf
  <2>5. OfOwner(p)'
    BY <1>1, <1>2, <2>1 DEF Fits, OfOwner
  <2> QED
    BY <2>3, <2>4, <2>5 DEF OfPlayer
<1>4. ASSUME NEW q \in Player \ {p} PROVE OfPlayer(q)'
  <2>1. /\ asked'[q] = asked[q] /\ (q \in online => q \in online')
        /\ guestStall'[q] \in {guestStall[q], NoPlayer} /\ stall'[q] = stall[q]
        /\ guestStall'[q] \in Player => KindOf(guestStall[q])' = KindOf(guestStall[q])
    BY <1>2 DEF KindOf
  <2>2. Undisturbed(q)
    BY <2>1, SameListUndisturbed
  <2> QED
    BY <2>2, RequestsKept
<1> QED
  BY <1>2, <1>3, <1>4 DEF Requests, OfPlayer

\* Requests stay as they are, or are answered.
LEMMA OthersRequests ==
  ASSUME IInv, DOMAIN asked' = Player, \A q \in Player : asked'[q] \in {asked[q], NoRequest},
         \A q \in online : asked'[q] = NoRequest \/
           /\ q \in online'
           /\ guestStall'[q] \in {guestStall[q], NoPlayer}
           /\ guestStall'[q] \in Player => KindOf(guestStall[q])' = KindOf(guestStall[q])
           /\ stall'[q] = stall[q] \/ stall'[q] = NoStall
                             \/ (stall'[q].kind = stall[q].kind /\ stall'[q].cells = stall[q].cells)
  PROVE  Requests'
<1>1. ASSUME NEW q \in Player, asked'[q] # NoRequest PROVE Undisturbed(q)
  <2>1. asked'[q] = asked[q]
    BY <1>1
  <2>2. q \in online
    BY <1>1, <2>1 DEF IInv, Requests, OfOwner
  <2> QED
    BY <1>1, <2>1, <2>2, SameListUndisturbed
<1> QED
  BY <1>1, RequestsKept DEF Requests, OfPlayer

\* The requests of others, when a stall's list, or nothing of stalls and guests, changes
LEMMA ListRequests ==
  ASSUME IInv, NEW p \in Player, UNCHANGED <<online, guestStall>>,
         (Answered(p) /\ Rearranged(p)) \/ ((Answered(p) \/ UNCHANGED asked) /\ UNCHANGED stall)
  PROVE  Requests'
<1>1. DOMAIN asked' = Player /\ \A q \in Player : asked'[q] \in {asked[q], NoRequest}
  BY DEF Answered, IInv, Requests
<1>2. \A q \in Player : KindOf(q)' = KindOf(q)
  BY DEF Rearranged, KindOf
<1>3. \A q \in Player : asked'[q] = NoRequest \/ stall'[q] = stall[q]
  BY DEF Answered, Rearranged, IInv, Requests
<1>4. online \subseteq Player
  BY DEF IInv, Rest
<1> QED
  BY <1>1, <1>2, <1>3, <1>4, OthersRequests

LEMMA LogOutRequests ==
  ASSUME IInv, NEW p \in online, Leaves(p) \/ (DeleteStreetStall(p) /\ stall[p] # NoStall) \/ Stays(p),
         online' = online \/ (online' = online \ {p} /\ Answered(p)),
         asked' = asked \/ Answered(p)
  PROVE  Requests'
<1>1. DOMAIN asked' = Player /\ \A q \in Player : asked'[q] \in {asked[q], NoRequest}
  BY DEF Answered, IInv, Requests
<1>2. \A q \in online : asked'[q] = NoRequest \/ q \in online'
  BY DEF Answered, IInv, Requests, Rest
<1>3. /\ online \subseteq Player /\ NoPlayer \notin Player /\ DOMAIN guestStall = Player
      /\ \A q \in Player : guestStall[q] \in Player \cup {NoPlayer}
  BY StallAssumption DEF IInv, Rest
<1>4. CASE Leaves(p) \/ Stays(p)
  <2>1. \A q \in Player : \/ stall'[q] = stall[q]
                          \/ (stall'[q].kind = stall[q].kind /\ stall'[q].cells = stall[q].cells)
    BY <1>4 DEF Leaves, Stays, SameLists
  <2>2. \A q \in Player : KindOf(q)' = KindOf(q)
    BY <2>1 DEF KindOf
  <2>3. \A q \in Player : guestStall'[q] \in {guestStall[q], NoPlayer}
    BY <1>3, <1>4 DEF Leaves, Stays
  <2>4. ASSUME NEW q \in online, guestStall'[q] \in Player
        PROVE  KindOf(guestStall[q])' = KindOf(guestStall[q])
    BY <1>3, <2>2, <2>3, <2>4
  <2> QED
    BY <1>1, <1>2, <1>3, <2>1, <2>3, <2>4, OthersRequests
<1>5. CASE DeleteStreetStall(p) /\ stall[p] # NoStall
  <2>1. stall'[p] = NoStall /\ \A q \in Player \ {p} : stall'[q] = stall[q]
    BY <1>3, <1>5, StallsDeleted DEF IInv
  <2>2. stall[p].guests = {q \in online : guestStall[q] = p}
    BY <1>5 DEF IInv, Visits, GuestsSound
  <2>3. \A q \in Player : guestStall'[q] = IF q \in stall[p].guests THEN NoPlayer ELSE guestStall[q]
    BY <1>5 DEF DeleteStreetStall
  <2>4. ASSUME NEW q \in online, guestStall'[q] \in Player
        PROVE  KindOf(guestStall[q])' = KindOf(guestStall[q])
    <3>1. guestStall[q] # p /\ guestStall[q] \in Player /\ guestStall'[q] = guestStall[q]
      BY <1>3, <2>2, <2>3, <2>4
    <3> QED
      BY <2>1, <3>1 DEF KindOf
  <2> QED
    BY <1>1, <1>2, <1>3, <2>1, <2>3, <2>4, OthersRequests
<1> QED
  BY <1>4, <1>5

LEMMA OpenRequests ==
  ASSUME IInv, NEW p \in Player, Open(p)
  PROVE  Requests'
<1>1. stall[p] = NoStall /\ \A q \in Player \ {p} : stall'[q] = stall[q]
  BY OpenCase
<1>2. UNCHANGED <<online, guestStall>> /\ Answered(p) /\ online \subseteq Player
  BY DEF Open, Handled, Answered, IInv, Rest
<1>3. DOMAIN asked' = Player /\ asked'[p] = NoRequest /\ \A q \in Player \ {p} : asked'[q] = asked[q]
  BY <1>2 DEF Answered, IInv, Requests
<1>4. ASSUME NEW q \in online, guestStall[q] \in Player
      PROVE  KindOf(guestStall[q])' = KindOf(guestStall[q])
  <2>1. stall[guestStall[q]] # NoStall
    BY <1>4, StallAssumption DEF IInv, Visits, GuestsSound
  <2> QED
    BY <1>1, <1>2, <1>4, <2>1 DEF KindOf
<1> QED
  BY <1>1, <1>2, <1>3, <1>4, OthersRequests

LEMMA GuestInRequests ==
  ASSUME IInv, NEW p \in Player, GuestIn(p)
  PROVE  Requests'
<1>1. PICK o : o = asked[p].owner
  OBVIOUS
<1>2. SameLists /\ guestStall' = [guestStall EXCEPT ![p] = o]
  BY <1>1, GuestInCase
<1>3. online' = online /\ Answered(p) /\ online \subseteq Player /\ DOMAIN guestStall = Player
  BY DEF GuestIn, Handled, Answered, IInv, Rest
<1>4. DOMAIN asked' = Player /\ asked'[p] = NoRequest /\ \A q \in Player \ {p} : asked'[q] = asked[q]
  BY <1>3 DEF Answered, IInv, Requests
<1>5. \A q \in Player : \/ stall'[q] = stall[q]
                        \/ (stall'[q].kind = stall[q].kind /\ stall'[q].cells = stall[q].cells)
  BY <1>2 DEF SameLists
<1>6. \A q \in Player : KindOf(q)' = KindOf(q)
  BY <1>5 DEF KindOf
<1>7. \A q \in Player \ {p} : guestStall'[q] = guestStall[q]
  BY <1>2, <1>3
<1> QED
  BY <1>3, <1>4, <1>5, <1>6, <1>7, OthersRequests

LEMMA RequestsNext ==
  ASSUME IInv, Next
  PROVE  Requests'
<1>1. online \subseteq Player
  BY DEF IInv, Rest
<1>2. ASSUME NEW p \in Player, ListStep(p) PROVE Requests'
  BY <1>2, ListSteps, ListRequests
<1>3. ASSUME NEW p \in Player, TradeStep(p) PROVE Requests'
  <2>1. Answered(p)
    BY <1>3, TradeGoes DEF Trading
  <2>2. DOMAIN asked' = Player /\ asked'[p] = NoRequest
    BY <2>1 DEF Answered, IInv, Requests
  <2> QED
    BY <1>3, <2>2, TradeUndisturbed, RequestsKept DEF Requests, OfPlayer
<1>4. ASSUME NEW p \in Player, Close(p) PROVE Requests'
  <2>1. Answered(p)
    BY <1>4 DEF Close, Handled, Answered
  <2> QED
    BY <1>4, <2>1, CloseCase, LogOutRequests
<1>5. ASSUME NEW p \in Player, GuestOut(p) PROVE Requests'
  <2>1. Answered(p) /\ online' = online
    BY <1>5 DEF GuestOut, Handled, Answered
  <2> QED
    BY <1>5, <2>1, GuestOutCase, LogOutRequests
<1>6. ASSUME NEW p \in Player, Die(p) \/ LogOut(p) PROVE Requests'
  <2>1. /\ p \in online /\ UserLogOut(p)
        /\ (online' = online /\ asked' = asked) \/ (online' = online \ {p} /\ Answered(p))
    BY <1>6 DEF Die, LogOut, Answered
  <2>2. Leaves(p) \/ (DeleteStreetStall(p) /\ stall[p] # NoStall) \/ Stays(p)
    BY <2>1, LogOutCases DEF Deletes
  <2> QED
    BY <2>1, <2>2, LogOutRequests
<1>7. ASSUME NEW p \in Player, Move(p) \/ Refuse(p) \/ RegistBuyCrashes(p) \/ DieByPet(p) \/ Revive(p) \/ Earn(p)
      PROVE  Requests'
  <2>1. UNCHANGED <<online, guestStall, stall>> /\ (Answered(p) \/ UNCHANGED asked)
    BY <1>7 DEF Move, Refuse, RegistBuyCrashes, DieByPet, Revive, Earn, stallVars, Handled, Answered
  <2> QED
    BY <2>1, ListRequests
<1>8. ASSUME NEW r \in inserts, Inserted(r) PROVE Requests'
  <2>1. UNCHANGED <<online, guestStall, stall, asked>> /\ r.who \in Player
    BY <1>8 DEF Inserted, stallVars, IInv, Rest
  <2> QED
    BY <2>1, ListRequests
<1> QED
  BY <1>2, <1>3, <1>4, <1>5, <1>6, <1>7, <1>8, Steps, AskRequests, OpenRequests, GuestInRequests
     DEF OtherStep

-----------------------------------------------------------------------------
(* The other types *)

\* A set of slots that is locked or not any more
LEMMA LockedReplaced ==
  ASSUME Rest, NEW p \in Player, NEW T, T \subseteq Slot, locked' = [locked EXCEPT ![p] = T]
  PROVE  locked' \in [Player -> SUBSET Slot]
BY DEF Rest

LEMMA LockTypes ==
  ASSUME IInv, NEW p \in Player, ListStep(p)
  PROVE  locked' \in [Player -> SUBSET Slot]
<1>1. Rest /\ Stalls /\ locked[p] \subseteq Slot /\ locked \in [Player -> SUBSET Slot]
  BY DEF IInv, Rest
<1>2. CASE Lock(p)
  <2>1. PICK c : c = asked[p].cell /\ c \in Filled(p) /\ asked[p].type = "LOCK"
    BY <1>2 DEF Lock, CanLock, IsAt, Handled
  <2>2. KindOf(p) = "SELL"
    BY <1>1, <2>1, Filling DEF IInv, Requests, OfOwner, Stalls, IsStall, KindOf
  <2>3. PICK s : s = Article(p, c).slot /\ s \in Slot
    BY <2>1, <2>2 DEF IInv, Lists, Backed
  <2>4. locked' = [locked EXCEPT ![p] = locked[p] \cup {s}] /\ locked[p] \cup {s} \subseteq Slot
    BY <1>1, <1>2, <2>1, <2>3 DEF Lock
  <2> QED
    BY <1>1, <2>4, LockedReplaced
<1>3. CASE Unlocked(p)
  <2>1. PICK s : s = Article(p, asked[p].cell).slot
    OBVIOUS
  <2>2. locked' = [locked EXCEPT ![p] = locked[p] \ {s}] /\ locked[p] \ {s} \subseteq Slot
    BY <1>1, <1>3, <2>1 DEF Unlocked
  <2> QED
    BY <1>1, <2>2, LockedReplaced
<1>4. CASE LockFails(p) \/ Delete(p)
  <2>1. PICK s : s = Article(p, CellOf(p, asked[p].id)).slot
    OBVIOUS
  <2>2. locked' = [locked EXCEPT ![p] = locked[p] \ {s}] /\ locked[p] \ {s} \subseteq Slot
    BY <1>1, <1>4, <2>1 DEF LockFails, Delete, TakeOff
  <2> QED
    BY <1>1, <2>2, LockedReplaced
<1>5. CASE \/ Regist(p) \/ RegistBuy(p) \/ RegistBuyFails(p) \/ Update(p) \/ UpdateEnd(p) \/ DeleteBuy(p)
  <2>1. UNCHANGED locked
    BY <1>5 DEF Regist, RegistBuy, RegistBuyFails, Update, UpdateEnd, DeleteBuy, itemVars
  <2> QED
    BY <1>1, <2>1
<1> QED
  BY <1>2, <1>3, <1>4, <1>5 DEF ListStep

LEMMA UnlockTypes ==
  ASSUME Rest, NEW p \in Player, Unlock(p)
  PROVE  locked' \in [Player -> SUBSET Slot]
<1>1. PICK T : T = locked[p] \ IF HasStall(p, "SELL") THEN {Article(p, c).slot : c \in Filled(p)} ELSE {}
  OBVIOUS
<1>2. locked' = [locked EXCEPT ![p] = T]
  BY <1>1 DEF Unlock
<1>3. T \subseteq Slot
  BY <1>1 DEF Rest
<1> QED
  BY <1>2, <1>3, LockedReplaced

LEMMA DeletedTypes ==
  ASSUME Rest, NEW p \in Player, DeleteStreetStall(p)
  PROVE  guestStall' \in [Player -> Player \cup {NoPlayer}] /\ locked' \in [Player -> SUBSET Slot]
BY UnlockTypes DEF Rest, DeleteStreetStall

LEMMA EndTypes ==
  ASSUME Rest
  PROVE  /\ \A ps, s : EndOf(ps, s) \in [Player -> {"None", "Owner", "Guest", "Die"}]
         /\ \A p : StateWithout(p) \in [Player -> {"None", "Owner", "Guest", "Die"}]
         /\ \A p : StateAfterLogOut(p) \in [Player -> {"None", "Owner", "Guest", "Die"}]
<1>1. \A ps, s : EndOf(ps, s) \in [Player -> {"None", "Owner", "Guest", "Die"}]
  BY DEF Rest, EndOf
<1>2. \A p : StateWithout(p) \in [Player -> {"None", "Owner", "Guest", "Die"}]
  BY <1>1 DEF StateWithout
<1>3. \A p : StateAfterLogOut(p) \in [Player -> {"None", "Owner", "Guest", "Die"}]
  BY <1>2 DEF StateAfterLogOut, Rest
<1> QED
  BY <1>1, <1>2, <1>3

LEMMA LogOutTypes ==
  ASSUME IInv, NEW p \in online, UserLogOut(p)
  PROVE  guestStall' \in [Player -> Player \cup {NoPlayer}] /\ locked' \in [Player -> SUBSET Slot]
<1>1. Rest /\ p \in Player
  BY DEF IInv, Rest
<1>2. CASE Leaves(p)
  BY <1>1, <1>2 DEF Leaves, Rest
<1>3. CASE Deletes(p)
  BY <1>1, <1>3, DeletedTypes DEF Deletes
<1>4. CASE Stays(p)
  BY <1>1, <1>4 DEF Stays, Rest
<1> QED
  BY <1>2, <1>3, <1>4, LogOutCases

LEMMA TradeTypes ==
  ASSUME IInv, NEW p \in Player, TradeStep(p)
  PROVE  Rest'
<1>1. Rest
  BY DEF IInv
<1>2. locked' \in [Player -> SUBSET Slot]
  BY <1>1, TradeGoes, LockedReplaced
<1>3. PICK a, s, n, b, e : ItemGoes(a, s, n, b, e)
  BY TradeGoes
<1>4. b \in Player /\ e \in Slot /\ inv[a][s].kind \in Kind
  BY <1>1, <1>3 DEF ItemGoes, Rest
<1>5. /\ reserved' \in [Player -> SUBSET Slot]
      /\ \A r \in inserts' : r.who \in Player /\ r.slot \in Slot /\ r.kind \in Kind
  <2>1. CASE Whole(a, s, b, e)
    BY <1>1, <2>1 DEF Whole, Rest
  <2>2. CASE Part(a, s, n, b, e)
    BY <1>1, <1>4, <2>2 DEF Part, Rest
  <2> QED
    BY <1>3, <2>1, <2>2 DEF ItemGoes
<1>6. UNCHANGED <<online, state, guestStall>>
  BY TradeGoes DEF Trading
<1> QED
  BY <1>1, <1>2, <1>5, <1>6 DEF Rest

LEMMA InsertedTypes ==
  ASSUME IInv, NEW r \in inserts, Inserted(r)
  PROVE  Rest'
<1>1. Rest
  BY DEF IInv
<1>2. UNCHANGED <<online, state, guestStall>> /\ inserts' = inserts \ {r}
  BY DEF Inserted, stallVars
<1>3. reserved' \in [Player -> SUBSET Slot] /\ locked' \in [Player -> SUBSET Slot]
  BY <1>1 DEF Inserted, Rest
<1> QED
  BY <1>1, <1>2, <1>3 DEF Rest

LEMMA OtherTypes ==
  ASSUME IInv, NEW p \in Player, OtherStep(p)
  PROVE  Rest'
<1>1. Rest
  BY DEF IInv
<1>2. /\ UNCHANGED <<reserved, inserts>> /\ online' \subseteq Player
  BY <1>1 DEF OtherStep, Open, Close, GuestIn, GuestOut, Refuse, RegistBuyCrashes, Die, DieByPet, Revive,
         LogOut, Earn, Move, Handled, itemVars, Rest
<1>3. ASSUME guestStall' \in [Player -> Player \cup {NoPlayer}], locked' \in [Player -> SUBSET Slot],
             state' \in [Player -> {"None", "Owner", "Guest", "Die"}]
      PROVE  Rest'
  BY <1>1, <1>2, <1>3 DEF Rest
<1>4. CASE Open(p)
  BY <1>1, <1>3, <1>4 DEF Open, Start, itemVars, Rest
<1>5. CASE Close(p)
  BY <1>1, <1>3, <1>5, DeletedTypes, EndTypes DEF Close
<1>6. CASE GuestIn(p)
  <2>1. PICK o : o = asked[p].owner /\ o \in Player
    BY <1>6, GuestInCase
  <2> QED
    BY <1>1, <1>3, <1>6, <2>1 DEF GuestIn, Start, itemVars, Rest
<1>7. CASE GuestOut(p)
  BY <1>1, <1>3, <1>7, EndTypes DEF GuestOut, itemVars, Rest
<1>8. CASE Die(p) \/ LogOut(p)
  <2>1. p \in online /\ UserLogOut(p)
    BY <1>8 DEF Die, LogOut
  <2>2. state' \in [Player -> {"None", "Owner", "Guest", "Die"}]
    <3>1. PICK x : state' = [StateAfterLogOut(p) EXCEPT ![p] = x] /\ x \in {"None", "Die"}
      BY <1>8 DEF Die, LogOut
    <3> QED
      BY <1>1, <3>1, EndTypes
  <2> QED
    BY <1>3, <2>1, <2>2, LogOutTypes
<1>9. CASE Move(p) \/ Refuse(p) \/ RegistBuyCrashes(p) \/ DieByPet(p) \/ Revive(p) \/ Earn(p)
  BY <1>1, <1>3, <1>9 DEF Move, Refuse, RegistBuyCrashes, DieByPet, Revive, Earn, stallVars, itemVars, Rest
<1> QED
  BY <1>4, <1>5, <1>6, <1>7, <1>8, <1>9 DEF OtherStep

LEMMA RestNext ==
  ASSUME IInv, Next
  PROVE  Rest'
<1>1. Rest
  BY DEF IInv
<1>2. ASSUME NEW p \in Player, Ask(p) PROVE Rest'
  BY <1>1, <1>2, AskOnly DEF Rest
<1>3. ASSUME NEW p \in Player, ListStep(p) PROVE Rest'
  BY <1>1, <1>3, ListSteps, LockTypes DEF Rest
<1> QED
  BY <1>2, <1>3, Steps, TradeTypes, OtherTypes, InsertedTypes

-----------------------------------------------------------------------------
(* The lists of articles *)

SameList(q) == stall'[q] = stall[q] \/ (stall'[q].kind = stall[q].kind /\ stall'[q].cells = stall[q].cells)

InList(q) == Backed(q) /\ LockedOf(q)

\* What a list says, for a stall that sells
LEMMA Listing ==
  ASSUME IInv, NEW o \in Player, KindOf(o) = "SELL"
  PROVE  /\ \E n \in 0..NCells : Filled(o) = 1..n
         /\ \A c \in Filled(o) : Article(o, c).slot \in Slot
         /\ \A c \in Filled(o) : inv[o][Article(o, c).slot]
                  = ItemOf(Article(o, c).id, Article(o, c).kind, Article(o, c).n)
         /\ \A c, d \in Filled(o) : Article(o, c).id = Article(o, d).id => c = d
         /\ \A c, d \in Filled(o) : Article(o, c).slot = Article(o, d).slot => c = d
         /\ \A s : s \in locked[o] <=> \E c \in Filled(o) : Article(o, c).lock /\ Article(o, c).slot = s
<1>1. /\ \E n \in 0..NCells : Filled(o) = 1..n
      /\ \A c \in Filled(o) : Article(o, c).slot \in Slot
      /\ \A c \in Filled(o) : inv[o][Article(o, c).slot]
               = ItemOf(Article(o, c).id, Article(o, c).kind, Article(o, c).n)
      /\ \A c, d \in Filled(o) : Article(o, c).id = Article(o, d).id => c = d
  BY DEF IInv, Lists, Backed
<1>2. ASSUME NEW c \in Filled(o), NEW d \in Filled(o), Article(o, c).slot = Article(o, d).slot
      PROVE  c = d
  <2>1. inv[o][Article(o, c).slot].id = Article(o, c).id /\ inv[o][Article(o, d).slot].id = Article(o, d).id
    BY <1>1, Distinct
  <2> QED
    BY <1>1, <1>2, <2>1
<1>3. \A s : s \in locked[o] <=> \E c \in Filled(o) : Article(o, c).lock /\ Article(o, c).slot = s
  <2>1. locked[o] = {Article(o, c).slot : c \in Sold(o)}
    BY DEF IInv, Lists, LockedOf
  <2>2. Sold(o) = {c \in Filled(o) : Article(o, c).lock}
    BY Filling DEF Sold, IInv
  <2> QED
    BY <2>1, <2>2
<1> QED
  BY <1>1, <1>2, <1>3

(* What a list must be *)
IsListing(o) ==
  /\ KindOf(o) = "SELL" /\ \E n \in 0..NCells : Filled(o) = 1..n
  /\ \A c \in Filled(o) : Article(o, c).slot \in Slot
  /\ \A c \in Filled(o) : inv[o][Article(o, c).slot]
                            = ItemOf(Article(o, c).id, Article(o, c).kind, Article(o, c).n)
  /\ \A c, d \in Filled(o) : Article(o, c).id = Article(o, d).id => c = d
  /\ \A s : s \in locked[o] <=> \E c \in Filled(o) : Article(o, c).lock /\ Article(o, c).slot = s

LEMMA IsInList == \A o \in Player : IsListing(o) => InList(o)
<1>1. ASSUME NEW o \in Player, IsListing(o) PROVE InList(o)
  <2>1. Backed(o)
    BY <1>1 DEF IsListing, Backed
  <2>2. Sold(o) = {c \in Filled(o) : Article(o, c).lock}
    BY <1>1 DEF IsListing, Sold, Filled
  <2>3. LockedOf(o)
    BY <1>1, <2>2 DEF IsListing, LockedOf
  <2> QED
    BY <2>1, <2>3 DEF InList
<1> QED
  BY <1>1

LEMMA WillBeInList == (\A o \in Player : IsListing(o) => InList(o))'
BY IsInList, PTL

LEMMA NotSelling ==
  ASSUME NEW o, KindOf(o) # "SELL"
  PROVE  LockedOf(o) <=> locked[o] = {}
BY DEF LockedOf, Sold

\* Who does not sell has no locked cell.
LEMMA NoneLocked ==
  ASSUME NEW o, KindOf(o)' # "SELL", locked'[o] = {}
  PROVE  InList(o)'
BY DEF InList, LockedOf, Sold, Backed

\* Items come and go in cells that no article is of.
LEMMA Untouched ==
  ASSUME IInv, NEW q \in Player, SameList(q),
         \A t \in Slot : Free(q, t) \/ inv'[q][t] = inv[q][t],
         locked'[q] = locked[q] \/ \E t : Free(q, t) /\ locked'[q] = locked[q] \ {t}
  PROVE  InList(q)'
<1>1. KindOf(q)' = KindOf(q)
  BY DEF SameList, KindOf
<1>2. CASE KindOf(q) # "SELL"
  <2>1. locked[q] = {}
    BY <1>2, NotSelling DEF IInv, Lists
  <2> QED
    BY <1>1, <1>2, <2>1, NoneLocked
<1>3. CASE KindOf(q) = "SELL"
  <2>1. stall'[q].cells = stall[q].cells /\ stall'[q] # NoStall /\ stall[q] # NoStall
    BY <1>1, <1>3, Distinct DEF SameList, KindOf
  <2>2. (Filled(q))' = Filled(q) /\ \A c : Article(q, c)' = Article(q, c)
    BY <2>1 DEF Filled, Article
  <2>3. /\ \E n \in 0..NCells : Filled(q) = 1..n
        /\ \A c \in Filled(q) : Article(q, c).slot \in Slot
        /\ \A c \in Filled(q) : inv[q][Article(q, c).slot]
                 = ItemOf(Article(q, c).id, Article(q, c).kind, Article(q, c).n)
        /\ \A c, d \in Filled(q) : Article(q, c).id = Article(q, d).id => c = d
        /\ \A s : s \in locked[q] <=> \E c \in Filled(q) : Article(q, c).lock /\ Article(q, c).slot = s
    BY <1>3, Listing
  <2>4. \A t : Free(q, t) => \A c \in Filled(q) : Article(q, c).slot # t
    BY <1>3 DEF Free
  <2>5. \A c \in Filled(q) : inv'[q][Article(q, c).slot] = inv[q][Article(q, c).slot]
    BY <2>3, <2>4
  <2>6. locked'[q] = locked[q]
    <3>1. ASSUME NEW t, Free(q, t) PROVE locked[q] \ {t} = locked[q]
      BY <2>3, <2>4, <3>1
    <3> QED
      BY <3>1
  <2>7. IsListing(q)'
    BY <1>1, <1>3, <2>2, <2>3, <2>5, <2>6 DEF IsListing
  <2> QED
    BY <2>7, WillBeInList
<1> QED
  BY <1>2, <1>3

\* Which articles there are, after a list was changed
LEMMA FilledThen ==
  ASSUME NEW o \in Player, Rearranged(o)
  PROVE  /\ \A c \in Cell : c \in (Filled(o))' <=> Article(o, c)'.kind # NoKind
         /\ (Filled(o))' \subseteq Cell /\ KindOf(o)' = KindOf(o)
<1>1. stall'[o] # NoStall /\ KindOf(o)' = KindOf(o)
  BY Distinct DEF Rearranged, IsStall
<1>2. ASSUME NEW c \in Cell PROVE IsArticle(stall'[o].cells[c])
  BY DEF Rearranged, IsStall, IsList
<1>3. ASSUME NEW c \in Cell PROVE stall'[o].cells[c] # NoArticle <=> stall'[o].cells[c].kind # NoKind
  BY <1>2, Distinct DEF IsArticle
<1> QED
  BY <1>1, <1>3 DEF Filled, Article

\* An article is locked, unlocked or sold in part.
LEMMA Adjusted ==
  ASSUME IInv, NEW o \in Player, NEW c \in Filled(o), KindOf(o) = "SELL",
         Rearranged(o), OnlyAt(o, c), Kept(o, c), NEW s, s = Article(o, c).slot,
         inv'[o][s] = ItemOf(Article(o, c).id, Article(o, c).kind, Article(o, c)'.n),
         \A t \in Slot : t = s \/ inv'[o][t] = inv[o][t],
         locked'[o] = IF Article(o, c)'.lock THEN locked[o] \cup {s} ELSE locked[o] \ {s}
  PROVE  InList(o)'
<1>1. /\ \E n \in 0..NCells : Filled(o) = 1..n
      /\ \A d \in Filled(o) : Article(o, d).slot \in Slot
      /\ \A d \in Filled(o) : inv[o][Article(o, d).slot]
               = ItemOf(Article(o, d).id, Article(o, d).kind, Article(o, d).n)
      /\ \A d, e \in Filled(o) : Article(o, d).id = Article(o, e).id => d = e
      /\ \A d, e \in Filled(o) : Article(o, d).slot = Article(o, e).slot => d = e
      /\ \A t : t \in locked[o] <=> \E d \in Filled(o) : Article(o, d).lock /\ Article(o, d).slot = t
  BY Listing
<1>2. Filled(o) \subseteq Cell /\ \A d \in Cell : d \in Filled(o) <=> Article(o, d).kind # NoKind
  BY Filling, Distinct DEF IInv
<1>3. \A d \in Cell \ {c} : Article(o, d)' = Article(o, d)
  BY DEF OnlyAt
<1>4. /\ Article(o, c)'.id = Article(o, c).id /\ Article(o, c)'.kind = Article(o, c).kind
      /\ Article(o, c)'.slot = s
  BY DEF Kept, Alike
<1>5. (Filled(o))' = Filled(o)
  <2>1. \A d \in Cell : d \in (Filled(o))' <=> Article(o, d)'.kind # NoKind
    BY FilledThen
  <2>2. (Filled(o))' \subseteq Cell
    BY FilledThen
  <2>3. \A d \in Cell : Article(o, d)'.kind = Article(o, d).kind
    BY <1>3, <1>4
  <2> QED
    BY <1>2, <2>1, <2>2, <2>3
<1>6. \A d \in Filled(o) : d # c => Article(o, d)' = Article(o, d)
  BY <1>2, <1>3
<1>7. \A d \in Filled(o) : /\ Article(o, d)'.id = Article(o, d).id
                           /\ Article(o, d)'.kind = Article(o, d).kind
                           /\ Article(o, d)'.slot = Article(o, d).slot
  BY <1>4, <1>6
<1>8. \A d \in Filled(o) : d # c => Article(o, d).slot # s
  BY <1>1
<1>9. \A d \in Filled(o) : inv'[o][Article(o, d)'.slot]
               = ItemOf(Article(o, d)'.id, Article(o, d)'.kind, Article(o, d)'.n)
  <2>1. ASSUME NEW d \in Filled(o), d # c
        PROVE  inv'[o][Article(o, d)'.slot] = ItemOf(Article(o, d)'.id, Article(o, d)'.kind, Article(o, d)'.n)
    BY <1>1, <1>6, <1>8, <2>1
  <2> QED
    BY <1>4, <2>1
<1>10. \A t : t \in locked'[o] <=> \E d \in Filled(o) : Article(o, d)'.lock /\ Article(o, d)'.slot = t
  <2>1. ASSUME NEW t, t # s PROVE t \in locked'[o] <=> t \in locked[o]
    BY <2>1
  <2>2. ASSUME NEW t, t # s
        PROVE  t \in locked[o] <=> \E d \in Filled(o) : Article(o, d)'.lock /\ Article(o, d)'.slot = t
    BY <1>1, <1>4, <1>6, <2>2
  <2>3. s \in locked'[o] <=> Article(o, c)'.lock
    OBVIOUS
  <2>4. (\E d \in Filled(o) : Article(o, d)'.lock /\ Article(o, d)'.slot = s) <=> Article(o, c)'.lock
    BY <1>4, <1>7, <1>8
  <2> QED
    BY <2>1, <2>2, <2>3, <2>4
<1>11. KindOf(o)' = "SELL"
  BY FilledThen
<1>12. \A d, e \in Filled(o) : Article(o, d)'.id = Article(o, e)'.id => d = e
  BY <1>1, <1>7
<1>13. \A d \in Filled(o) : Article(o, d)'.slot \in Slot
  BY <1>1, <1>7
<1>14. IsListing(o)'
  BY <1>1, <1>5, <1>9, <1>10, <1>11, <1>12, <1>13 DEF IsListing
<1> QED
  BY <1>14, WillBeInList

\* An item is registered.
LEMMA Registered ==
  ASSUME IInv, NEW o \in Player, NEW c \in Cell \ Filled(o), KindOf(o) = "SELL",
         \A d \in Cell \ Filled(o) : c <= d,
         Rearranged(o), OnlyAt(o, c), NEW s \in Slot, inv[o][s].kind \in Kind,
         ~Listed(o, inv[o][s].id),
         Article(o, c)'.id = inv[o][s].id, Article(o, c)'.kind = inv[o][s].kind,
         Article(o, c)'.n = inv[o][s].n, Article(o, c)'.slot = s, ~Article(o, c)'.lock,
         inv' = inv, locked' = locked
  PROVE  InList(o)'
<1>1. /\ \E n \in 0..NCells : Filled(o) = 1..n
      /\ \A d \in Filled(o) : Article(o, d).slot \in Slot
      /\ \A d \in Filled(o) : inv[o][Article(o, d).slot]
               = ItemOf(Article(o, d).id, Article(o, d).kind, Article(o, d).n)
      /\ \A d, e \in Filled(o) : Article(o, d).id = Article(o, e).id => d = e
      /\ \A t : t \in locked[o] <=> \E d \in Filled(o) : Article(o, d).lock /\ Article(o, d).slot = t
  BY Listing
<1>2. Filled(o) \subseteq Cell /\ \A d \in Cell : d \in Filled(o) <=> Article(o, d).kind # NoKind
  BY Filling, Distinct DEF IInv
<1>3. \A d \in Cell \ {c} : Article(o, d)' = Article(o, d)
  BY DEF OnlyAt
<1>4. (Filled(o))' = Filled(o) \cup {c}
  <2>1. \A d \in Cell : d \in (Filled(o))' <=> Article(o, d)'.kind # NoKind
    BY FilledThen
  <2>2. (Filled(o))' \subseteq Cell
    BY FilledThen
  <2>3. Article(o, c)'.kind # NoKind
    BY Distinct
  <2> QED
    BY <1>2, <1>3, <2>1, <2>2, <2>3
<1>5. \E n \in 0..NCells : (Filled(o))' = 1..n
  <2>1. PICK n \in 0..NCells : Filled(o) = 1..n
    BY <1>1
  <2>2. n \in Nat /\ c \in 1..NCells /\ NCells \in Nat /\ c > n
    BY <2>1, StallAssumption DEF Cell
  <2>3. n + 1 \in Cell \ Filled(o)
    BY <2>1, <2>2 DEF Cell
  <2>4. c <= n + 1
    BY <2>3
  <2>5. c = n + 1
    BY <2>2, <2>4
  <2>6. Filled(o) \cup {c} = 1..(n + 1) /\ n + 1 \in 0..NCells
    BY <2>1, <2>2, <2>5
  <2> QED
    BY <1>4, <2>6
<1>6. \A d \in Filled(o) : Article(o, d)' = Article(o, d)
  BY <1>2, <1>3
<1>7. \A d \in Filled(o) : Article(o, d)'.id # inv[o][s].id
  BY <1>6 DEF Listed
<1>8. inv[o][s] = ItemOf(inv[o][s].id, inv[o][s].kind, inv[o][s].n)
  BY Distinct DEF IInv, Items, IsItem
<1>9. \A d \in (Filled(o))' : inv'[o][Article(o, d)'.slot]
               = ItemOf(Article(o, d)'.id, Article(o, d)'.kind, Article(o, d)'.n)
  <2>1. ASSUME NEW d \in Filled(o)
        PROVE  inv'[o][Article(o, d)'.slot] = ItemOf(Article(o, d)'.id, Article(o, d)'.kind, Article(o, d)'.n)
    BY <1>1, <1>6
  <2>2. inv'[o][Article(o, c)'.slot] = ItemOf(Article(o, c)'.id, Article(o, c)'.kind, Article(o, c)'.n)
    BY <1>8
  <2> QED
    BY <1>4, <2>1, <2>2
<1>10. \A t : t \in locked'[o] <=> \E d \in (Filled(o))' : Article(o, d)'.lock /\ Article(o, d)'.slot = t
  BY <1>1, <1>4, <1>6
<1>11. \A d, e \in (Filled(o))' : Article(o, d)'.id = Article(o, e)'.id => d = e
  BY <1>1, <1>4, <1>6, <1>7
<1>12. \A d \in (Filled(o))' : Article(o, d)'.slot \in Slot
  BY <1>1, <1>4, <1>6
<1>13. KindOf(o)' = "SELL"
  BY FilledThen
<1>14. IsListing(o)'
  BY <1>5, <1>9, <1>10, <1>11, <1>12, <1>13 DEF IsListing
<1> QED
  BY <1>14, WillBeInList

\* An article is taken off, and perhaps its item has gone: those after it move up.
LEMMA Shifted ==
  ASSUME IInv, NEW o \in Player, NEW c \in Filled(o), KindOf(o) = "SELL", Rearranged(o),
         \A d \in Cell : Article(o, d)' = IF d < c THEN Article(o, d)
                                          ELSE IF d < NCells THEN Article(o, d + 1) ELSE NoArticle,
         NEW s, s = Article(o, c).slot,
         \A t \in Slot : t = s \/ inv'[o][t] = inv[o][t],
         locked'[o] = locked[o] \ {s}
  PROVE  InList(o)'
<1>1. /\ \E n \in 0..NCells : Filled(o) = 1..n
      /\ \A d \in Filled(o) : Article(o, d).slot \in Slot
      /\ \A d \in Filled(o) : inv[o][Article(o, d).slot]
               = ItemOf(Article(o, d).id, Article(o, d).kind, Article(o, d).n)
      /\ \A d, e \in Filled(o) : Article(o, d).id = Article(o, e).id => d = e
      /\ \A d, e \in Filled(o) : Article(o, d).slot = Article(o, e).slot => d = e
      /\ \A t : t \in locked[o] <=> \E d \in Filled(o) : Article(o, d).lock /\ Article(o, d).slot = t
  BY Listing
<1>2. PICK n \in 0..NCells : Filled(o) = 1..n
  BY <1>1
<1>3. n \in Nat /\ NCells \in Nat /\ n <= NCells /\ c \in 1..n /\ Cell = 1..NCells
  BY <1>2, StallAssumption DEF Cell
<1>4. \A d \in Cell : d \in Filled(o) <=> Article(o, d).kind # NoKind
  BY Filling, Distinct DEF IInv
<1>5. PICK F : F = 1..(n - 1)
  OBVIOUS
<1>6. \A d \in Cell : Article(o, d)'.kind # NoKind <=> d \in F
  <2>1. ASSUME NEW d \in Cell, d < c PROVE Article(o, d)'.kind # NoKind <=> d \in F
    <3>1. d \in Filled(o) /\ d \in F
      BY <1>2, <1>3, <1>5, <2>1
    <3> QED
      BY <1>4, <2>1, <3>1
  <2>2. ASSUME NEW d \in Cell, ~(d < c), d < NCells PROVE Article(o, d)'.kind # NoKind <=> d \in F
    <3>1. d + 1 \in Cell /\ (d + 1 \in Filled(o) <=> d \in F)
      BY <1>2, <1>3, <1>5, <2>2
    <3> QED
      BY <1>4, <2>2, <3>1
  <2>3. ASSUME NEW d \in Cell, ~(d < c), ~(d < NCells) PROVE Article(o, d)'.kind # NoKind <=> d \in F
    <3>1. d \notin F
      BY <1>3, <1>5, <2>3
    <3> QED
      BY <2>3, <3>1, Distinct
  <2> QED
    BY <2>1, <2>2, <2>3
<1>7. (Filled(o))' = F
  <2>1. \A d \in Cell : d \in (Filled(o))' <=> Article(o, d)'.kind # NoKind
    BY FilledThen
  <2>2. (Filled(o))' \subseteq Cell
    BY FilledThen
  <2>3. F \subseteq Cell
    BY <1>3, <1>5
  <2> QED
    BY <1>6, <2>1, <2>2, <2>3
<1>8. PICK f : f = [d \in F |-> IF d < c THEN d ELSE d + 1]
  OBVIOUS
<1>9. /\ \A d \in F : f[d] \in Filled(o) /\ f[d] # c /\ Article(o, d)' = Article(o, f[d])
      /\ \A d, e \in F : f[d] = f[e] => d = e
      /\ \A e \in Filled(o) : e # c => \E d \in F : f[d] = e
  <2>1. ASSUME NEW d \in F PROVE f[d] \in Filled(o) /\ f[d] # c /\ Article(o, d)' = Article(o, f[d])
    <3>1. d \in Cell /\ d < NCells
      BY <1>3, <1>5
    <3>2. f[d] = IF d < c THEN d ELSE d + 1
      BY <1>8
    <3>3. f[d] \in Filled(o) /\ f[d] # c
      BY <1>2, <1>3, <1>5, <3>2
    <3> QED
      BY <3>1, <3>2, <3>3
  <2>2. ASSUME NEW d \in F, NEW e \in F, f[d] = f[e] PROVE d = e
    BY <1>3, <1>5, <1>8, <2>2
  <2>3. ASSUME NEW e \in Filled(o), e # c PROVE \E d \in F : f[d] = e
    <3>1. CASE e < c
      <4>1. e \in F /\ f[e] = e
        BY <1>2, <1>3, <1>5, <1>8, <3>1
      <4> QED
        BY <4>1
    <3>2. CASE ~(e < c)
      <4>1. e - 1 \in F /\ ~(e - 1 < c) /\ (e - 1) + 1 = e
        BY <1>2, <1>3, <1>5, <2>3, <3>2
      <4>2. f[e - 1] = e
        BY <1>8, <4>1
      <4> QED
        BY <4>1, <4>2
    <3> QED
      BY <3>1, <3>2
  <2> QED
    BY <2>1, <2>2, <2>3
<1> HIDE <1>8
<1>10. \A d \in F : Article(o, f[d]).slot # s
  BY <1>1, <1>9
<1>11. n - 1 \in 0..NCells /\ (Filled(o))' = 1..(n - 1)
  BY <1>3, <1>5, <1>7
<1>12. \A d \in F : inv'[o][Article(o, d)'.slot]
               = ItemOf(Article(o, d)'.id, Article(o, d)'.kind, Article(o, d)'.n)
  BY <1>1, <1>9, <1>10
<1>13. \A t : t \in locked'[o] <=> \E d \in F : Article(o, d)'.lock /\ Article(o, d)'.slot = t
  <2>1. ASSUME NEW t, t \in locked'[o] PROVE \E d \in F : Article(o, d)'.lock /\ Article(o, d)'.slot = t
    <3>1. t \in locked[o] /\ t # s
      BY <2>1
    <3>2. PICK e \in Filled(o) : Article(o, e).lock /\ Article(o, e).slot = t
      BY <1>1, <3>1
    <3>3. PICK d \in F : f[d] = e
      BY <1>9, <3>1, <3>2
    <3> QED
      BY <1>9, <3>2, <3>3
  <2>2. ASSUME NEW t, NEW d \in F, Article(o, d)'.lock, Article(o, d)'.slot = t PROVE t \in locked'[o]
    <3>1. t \in locked[o] /\ t # s
      BY <1>1, <1>9, <1>10, <2>2
    <3> QED
      BY <3>1
  <2> QED
    BY <2>1, <2>2
<1>14. \A d, e \in F : Article(o, d)'.id = Article(o, e)'.id => d = e
  BY <1>1, <1>9
<1>15. \A d \in F : Article(o, d)'.slot \in Slot
  BY <1>1, <1>9
<1>16. KindOf(o)' = "SELL"
  BY FilledThen
<1>17. IsListing(o)'
  BY <1>7, <1>11, <1>12, <1>13, <1>14, <1>15, <1>16 DEF IsListing
<1> QED
  BY <1>17, WillBeInList

\* The stall that the handler changes the list of
LEMMA OwnList ==
  ASSUME IInv, NEW p \in Player, ListStep(p)
  PROVE  InList(p)'
<1>1. Stalls /\ Items /\ OfOwner(p) /\ DOMAIN locked = Player
  BY DEF IInv, Requests, Rest
<1>2. UNCHANGED inv /\ (Rearranged(p) \/ UNCHANGED stall)
  BY ListSteps
<1>3. KindOf(p)' = KindOf(p)
  BY <1>2 DEF Rearranged, KindOf
<1>4. ASSUME NEW c \in Filled(p), OfOwner(p), asked[p].type \in {"LOCK", "UNLOCK", "DELETE"}
      PROVE  /\ KindOf(p) = "SELL"
             /\ inv[p][Article(p, c).slot] = ItemOf(Article(p, c).id, Article(p, c).kind, Article(p, c).n)
  <2>1. KindOf(p) = "SELL"
    BY <1>1, <1>4, Filling DEF Stalls, IsStall, OfOwner, KindOf
  <2> QED
    BY <2>1, Listing
<1>5. CASE Regist(p)
  <2>1. PICK s, c : s = asked[p].slot /\ c = Min(Cell \ Filled(p))
    OBVIOUS
  <2>2. /\ c \in Cell \ Filled(p) /\ \A d \in Cell \ Filled(p) : c <= d
        /\ Rearranged(p) /\ OnlyAt(p, c) /\ KindOf(p) = "SELL"
        /\ Article(p, c)'.id = inv[p][s].id /\ Article(p, c)'.kind = inv[p][s].kind
        /\ Article(p, c)'.n = inv[p][s].n /\ Article(p, c)'.slot = s /\ ~Article(p, c)'.lock
        /\ inv[p][s].kind \in Kind /\ s \in Slot
    BY <1>1, <1>5, <2>1, RegistKeeps
  <2>3. ~Listed(p, inv[p][s].id) /\ locked' = locked
    BY <1>5, <2>1 DEF Regist, CanRegist, itemVars
  <2> QED
    BY <1>2, <2>2, <2>3, Registered
<1>6. CASE Lock(p)
  <2>1. PICK c : c = asked[p].cell
    OBVIOUS
  <2>2. Rearranged(p) /\ OnlyAt(p, c) /\ Kept(p, c) /\ Article(p, c)'.lock /\ Article(p, c)'.n = Article(p, c).n
    BY <1>1, <1>6, <2>1, LockKeeps
  <2>3. PICK s : s = Article(p, c).slot
    OBVIOUS
  <2>4. c \in Filled(p) /\ asked[p].type = "LOCK" /\ locked'[p] = locked[p] \cup {s}
    BY <1>1, <1>6, <2>1, <2>2, <2>3 DEF Lock, Kept, Handled
  <2>5. KindOf(p) = "SELL" /\ inv'[p][s] = ItemOf(Article(p, c).id, Article(p, c).kind, Article(p, c)'.n)
    BY <1>1, <1>2, <1>4, <2>2, <2>3, <2>4
  <2> QED
    BY <1>2, <2>2, <2>3, <2>4, <2>5, Adjusted
<1>7. CASE Unlocked(p)
  <2>1. PICK c : c = asked[p].cell
    OBVIOUS
  <2>2. Rearranged(p) /\ OnlyAt(p, c) /\ Kept(p, c) /\ ~Article(p, c)'.lock /\ Article(p, c)'.n = Article(p, c).n
    BY <1>1, <1>7, <2>1, UnlockKeeps
  <2>3. PICK s : s = Article(p, c).slot
    OBVIOUS
  <2>4. c \in Filled(p) /\ asked[p].type = "UNLOCK" /\ locked'[p] = locked[p] \ {s}
    BY <1>1, <1>7, <2>1, <2>2, <2>3 DEF Unlocked, Kept, Handled
  <2>5. KindOf(p) = "SELL" /\ inv'[p][s] = ItemOf(Article(p, c).id, Article(p, c).kind, Article(p, c)'.n)
    BY <1>1, <1>2, <1>4, <2>2, <2>3, <2>4
  <2> QED
    BY <1>2, <2>2, <2>3, <2>4, <2>5, Adjusted
<1>8. CASE LockFails(p) \/ Delete(p)
  <2>1. PICK i : i = asked[p].id
    OBVIOUS
  <2>2. PICK c : c = CellOf(p, i)
    OBVIOUS
  <2>3. Listed(p, i) /\ TakeOff(p, i) /\ asked[p].type \in {"LOCK", "DELETE"}
    BY <1>8, <2>1 DEF LockFails, Delete, Handled
  <2>4. /\ c \in Filled(p) /\ Rearranged(p)
        /\ \A d \in Cell : Article(p, d)' = IF d < c THEN Article(p, d)
                                            ELSE IF d < NCells THEN Article(p, d + 1) ELSE NoArticle
        /\ locked' = [locked EXCEPT ![p] = @ \ {Article(p, c).slot}]
    BY <1>1, <2>2, <2>3, TakeOffKeeps
  <2>5. PICK s : s = Article(p, c).slot
    OBVIOUS
  <2>6. KindOf(p) = "SELL" /\ locked'[p] = locked[p] \ {s}
    BY <1>1, <1>4, <2>3, <2>4, <2>5
  <2> QED
    BY <1>2, <2>4, <2>5, <2>6, Shifted
<1>9. CASE RegistBuy(p) \/ RegistBuyFails(p) \/ Update(p) \/ UpdateEnd(p) \/ DeleteBuy(p)
  <2>1. KindOf(p) # "SELL" /\ locked' = locked
    BY <1>1, <1>9 DEF RegistBuy, RegistBuyFails, Update, UpdateEnd, DeleteBuy, Handled, OfOwner, itemVars
  <2>2. locked[p] = {}
    BY <2>1, NotSelling DEF IInv, Lists
  <2> QED
    BY <1>3, <2>1, <2>2, NoneLocked
<1> QED
  BY <1>5, <1>6, <1>7, <1>8, <1>9 DEF ListStep

LEMMA ListLists ==
  ASSUME IInv, NEW p \in Player, ListStep(p), NEW q \in Player \ {p}
  PROVE  InList(q)'
<1>1. UNCHANGED inv /\ stall'[q] = stall[q]
  BY ListSteps DEF Rearranged
<1>2. locked'[q] = locked[q]
  BY DEF ListStep, Regist, Lock, LockFails, Unlocked, Delete, TakeOff, RegistBuy, RegistBuyFails, Update,
         UpdateEnd, DeleteBuy, itemVars, IInv, Rest
<1> QED
  BY <1>1, <1>2, Untouched DEF SameList

\* An empty cell is none of an article.
LEMMA EmptyIsFree ==
  ASSUME IInv, NEW q \in Player
  PROVE  \A t \in Slot : inv[q][t] = NoItem => Free(q, t) /\ t \notin locked[q]
<1>1. ASSUME NEW t \in Slot, inv[q][t] = NoItem PROVE Free(q, t)
  BY <1>1, FreeCells
<1>2. ASSUME NEW t \in Slot, Free(q, t) PROVE t \notin locked[q]
  <2>1. CASE KindOf(q) = "SELL"
    BY <1>2, <2>1, Listing DEF Free
  <2>2. CASE KindOf(q) # "SELL"
    BY <2>2, NotSelling DEF IInv, Lists
  <2> QED
    BY <2>1, <2>2
<1> QED
  BY <1>1, <1>2

\* What goes and comes in a trade
LEMMA GoesAndComes ==
  ASSUME IInv, NEW a, NEW s, NEW n, NEW b, NEW e, ItemGoes(a, s, n, b, e)
  PROVE  /\ \A t \in Slot : inv'[a][t] = inv[a][t] \/ t = s
         /\ \A q \in Player \ {a}, t \in Slot : inv'[q][t] = inv[q][t] \/ Free(q, t)
<1>1. a \in Player /\ b \in Player /\ a # b /\ inv[b][e] = NoItem /\ s \in Slot /\ e \in Slot
  BY DEF ItemGoes, IInv, Rest
<1>2. Free(b, e)
  BY <1>1, EmptyIsFree
<1>3. \A r \in Player, t \in Slot : (r = a /\ t = s) \/ (r = b /\ t = e) \/ inv'[r][t] = inv[r][t]
  BY DEF ItemGoes, Whole, Part, Elsewhere
<1> QED
  BY <1>1, <1>2, <1>3

LEMMA BuyLists ==
  ASSUME IInv, NEW p \in Player, BuyWhole(p) \/ BuyPart(p), NEW q \in Player
  PROVE  InList(q)'
<1>1. PICK o, c, s, n, e : BuysWhole(p, o, c, s, e) \/ BuysPart(p, o, c, s, n, e)
  BY BuySteps
<1>2. ItemGoes(o, s, n, p, e)
  BY <1>1, BuyGoes
<1>3. /\ o \in Player /\ Rearranged(o) /\ c \in Filled(o) /\ KindOf(o) = "SELL"
      /\ s = Article(o, c).slot /\ s \in Slot /\ Article(o, c).lock
      /\ inv[o][s] = ItemOf(Article(o, c).id, Article(o, c).kind, Article(o, c).n)
      /\ DOMAIN locked = Player
  BY <1>1 DEF BuysWhole, BuysPart, Trading, IInv, Rest
<1>4. /\ \A t \in Slot : inv'[o][t] = inv[o][t] \/ t = s
      /\ \A r \in Player \ {o}, t \in Slot : inv'[r][t] = inv[r][t] \/ Free(r, t)
  BY <1>2, GoesAndComes
<1>5. CASE q # o
  <2>1. stall'[q] = stall[q] /\ locked'[q] = locked[q]
    BY <1>1, <1>3, <1>5 DEF Rearranged, BuysWhole, BuysPart
  <2> QED
    BY <1>4, <1>5, <2>1, Untouched DEF SameList
<1>6. CASE q = o /\ BuysWhole(p, o, c, s, e)
  <2>1. /\ \A d \in Cell : Article(o, d)' = IF d < c THEN Article(o, d)
                                            ELSE IF d < NCells THEN Article(o, d + 1) ELSE NoArticle
        /\ locked'[o] = locked[o] \ {s}
    BY <1>3, <1>6 DEF BuysWhole
  <2>2. InList(o)'
    BY <1>3, <1>4, <2>1, Shifted
  <2> QED
    BY <1>6, <2>2
<1>7. CASE q = o /\ BuysPart(p, o, c, s, n, e)
  <2>1. /\ OnlyAt(o, c) /\ Kept(o, c) /\ Article(o, c)'.lock /\ Article(o, c)'.n = Article(o, c).n - n
        /\ locked'[o] = locked[o] \cup {s}
    BY <1>3, <1>7 DEF BuysPart
  <2>2. inv'[o][s] = ItemOf(Article(o, c).id, Article(o, c).kind, Article(o, c)'.n)
    <3>1. /\ inv[o][s].id = Article(o, c).id /\ inv[o][s].kind = Article(o, c).kind
          /\ inv[o][s].n = Article(o, c).n
      BY <1>3, Distinct
    <3>2. inv'[o][s] = ItemOf(inv[o][s].id, inv[o][s].kind, inv[o][s].n - n)
      BY <1>7 DEF BuysPart, Part
    <3> QED
      BY <2>1, <3>1, <3>2
  <2>3. InList(o)'
    BY <1>3, <1>4, <2>1, <2>2, Adjusted
  <2> QED
    BY <1>7, <2>3
<1> QED
  BY <1>1, <1>5, <1>6, <1>7

LEMMA SellLists ==
  ASSUME IInv, NEW p \in Player, Sell(p), NEW q \in Player
  PROVE  InList(q)'
<1>1. PICK o, c, s, n, e : Sells(p, o, c, s, n, e)
  BY SellSteps
<1>2. ItemGoes(p, s, n, o, e)
  BY <1>1, SellGoes
<1>3. /\ o \in Player /\ o # p /\ Rearranged(o) /\ KindOf(o) = "BUY"
      /\ locked' = [locked EXCEPT ![p] = @ \ {s}] /\ DOMAIN locked = Player
  BY <1>1 DEF Sells, Trading, IInv, Rest
<1>4. /\ \A t \in Slot : inv'[p][t] = inv[p][t] \/ t = s
      /\ \A r \in Player \ {p}, t \in Slot : inv'[r][t] = inv[r][t] \/ Free(r, t)
  BY <1>2, GoesAndComes
<1>5. Free(p, s)
  BY <1>1 DEF Sells, IInv, Requests, OfItems
<1>6. CASE q = o
  <2>1. locked[o] = {}
    BY <1>3, NotSelling DEF IInv, Lists
  <2>2. KindOf(o)' = "BUY" /\ locked'[o] = {}
    BY <1>3, <2>1 DEF Rearranged
  <2> QED
    BY <1>6, <2>2, NoneLocked
<1>7. CASE q # o
  <2>1. stall'[q] = stall[q]
    BY <1>3, <1>7 DEF Rearranged
  <2>2. locked'[q] = locked[q] \/ \E t : Free(q, t) /\ locked'[q] = locked[q] \ {t}
    BY <1>3, <1>5
  <2>3. \A t \in Slot : Free(q, t) \/ inv'[q][t] = inv[q][t]
    BY <1>4, <1>5
  <2> QED
    BY <2>1, <2>2, <2>3, Untouched DEF SameList
<1> QED
  BY <1>6, <1>7

\* A stall that is deleted leaves no locked cell.
LEMMA DeletedLists ==
  ASSUME IInv, NEW p \in Player, DeleteStreetStall(p), UNCHANGED inv, NEW q \in Player
  PROVE  InList(q)'
<1>1. stall'[p] = NoStall /\ \A r \in Player \ {p} : stall'[r] = stall[r]
  BY StallsDeleted DEF IInv
<1>2. PICK T : T = IF HasStall(p, "SELL") THEN {Article(p, c).slot : c \in Filled(p)} ELSE {}
  OBVIOUS
<1>3. locked' = [locked EXCEPT ![p] = @ \ T] /\ DOMAIN locked = Player
  BY <1>2 DEF DeleteStreetStall, Unlock, IInv, Rest
<1>4. CASE q = p
  <2>1. locked[p] \ T = {}
    <3>1. CASE KindOf(p) = "SELL"
      <4>1. HasStall(p, "SELL")
        BY <3>1, Filling DEF IInv
      <4> QED
        BY <1>2, <3>1, <4>1, Listing
    <3>2. CASE KindOf(p) # "SELL"
      BY <3>2, NotSelling DEF IInv, Lists
    <3> QED
      BY <3>1, <3>2
  <2>2. KindOf(p)' # "SELL"
    BY <1>1, Distinct DEF KindOf
  <2> QED
    BY <1>3, <1>4, <2>1, <2>2, NoneLocked
<1>5. CASE q # p
  BY <1>1, <1>3, <1>5, Untouched DEF SameList
<1> QED
  BY <1>4, <1>5

LEMMA OpenLists ==
  ASSUME IInv, NEW p \in Player, Open(p), NEW q \in Player
  PROVE  InList(q)'
<1>1. /\ KindOf(p) = "NONE" /\ \A c \in Cell : stall'[p].cells[c] = NoArticle
      /\ \A r \in Player \ {p} : stall'[r] = stall[r]
  BY OpenCase
<1>2. UNCHANGED <<inv, locked>>
  BY DEF Open, itemVars
<1>3. CASE q = p
  <2>1. locked'[p] = {}
    BY <1>1, <1>2, NotSelling DEF IInv, Lists
  <2>2. (Filled(p))' = {}
    BY <1>1 DEF Filled
  <2>3. CASE KindOf(p)' = "SELL"
    <3>1. 0 \in 0..NCells /\ 1..0 = {}
      BY StallAssumption
    <3>2. IsListing(p)'
      BY <2>1, <2>2, <2>3, <3>1 DEF IsListing
    <3> QED
      BY <1>3, <3>2, WillBeInList
  <2>4. CASE KindOf(p)' # "SELL"
    BY <1>3, <2>1, <2>4, NoneLocked
  <2> QED
    BY <2>3, <2>4
<1>4. CASE q # p
  BY <1>1, <1>2, <1>4, Untouched DEF SameList
<1> QED
  BY <1>3, <1>4

LEMMA GuestsLists ==
  ASSUME IInv, UNCHANGED <<inv, locked>>, \A q \in Player : SameList(q), NEW q \in Player
  PROVE  InList(q)'
BY Untouched

LEMMA MoveLists ==
  ASSUME IInv, NEW p \in Player, Move(p), NEW q \in Player
  PROVE  InList(q)'
<1>1. PICK s, t : s = asked[p].slot /\ t = asked[p].to
  OBVIOUS
<1>2. \A r \in Player, u \in Slot : (r = p /\ u \in {s, t}) \/ inv'[r][u] = inv[r][u]
  BY <1>1, MoveItems
<1>3. Free(p, s) /\ Free(p, t)
  BY <1>1 DEF Move, Handled, IInv, Requests, OfItems
<1>4. UNCHANGED <<stall, locked>>
  BY DEF Move, stallVars
<1> QED
  BY <1>2, <1>3, <1>4, Untouched DEF SameList

LEMMA InsertedLists ==
  ASSUME IInv, NEW r \in inserts, Inserted(r), NEW q \in Player
  PROVE  InList(q)'
<1>1. UNCHANGED stall
  BY DEF Inserted, stallVars
<1>2. CASE r.who \notin online
  BY <1>1, <1>2, GuestsLists DEF SameList, Inserted
<1>3. CASE r.who \in online
  <2>1. PICK x : inv' = [inv EXCEPT ![r.who][r.slot] = x]
    BY <1>3 DEF Inserted
  <2>2. locked' = [locked EXCEPT ![r.who] = @ \ {r.slot}]
    BY <1>3 DEF Inserted
  <2>3. /\ r.who \in Player /\ r.slot \in Slot /\ DOMAIN locked = Player /\ DOMAIN inv = Player
        /\ \A p \in Player : DOMAIN inv[p] = Slot
    BY DEF IInv, Rest, Items
  <2>4. inv[r.who][r.slot] = NoItem
    BY <1>3 DEF IInv, Reserves
  <2>5. Free(r.who, r.slot)
    BY <2>3, <2>4, EmptyIsFree
  <2>6. \A p \in Player, t \in Slot : (p = r.who /\ t = r.slot) \/ inv'[p][t] = inv[p][t]
    BY <2>1, <2>3
  <2>7. locked'[q] = locked[q] \/ (q = r.who /\ locked'[q] = locked[q] \ {r.slot})
    BY <2>2, <2>3
  <2> QED
    BY <1>1, <2>5, <2>6, <2>7, Untouched DEF SameList
<1> QED
  BY <1>2, <1>3

LEMMA OtherLists ==
  ASSUME IInv, NEW p \in Player, OtherStep(p), NEW q \in Player
  PROVE  InList(q)'
<1>1. CASE Close(p)
  BY <1>1, CloseCase, DeletedLists DEF Close
<1>2. CASE GuestIn(p)
  <2>1. SameLists
    BY <1>2, GuestInCase
  <2>2. UNCHANGED <<inv, locked>>
    BY <1>2 DEF GuestIn, itemVars
  <2> QED
    BY <2>1, <2>2, GuestsLists DEF SameLists, SameList
<1>3. CASE GuestOut(p)
  <2>1. SameLists
    BY <1>3, GuestOutCase DEF Leaves
  <2>2. UNCHANGED <<inv, locked>>
    BY <1>3 DEF GuestOut, itemVars
  <2> QED
    BY <2>1, <2>2, GuestsLists DEF SameLists, SameList
<1>4. CASE Die(p) \/ LogOut(p)
  <2>1. p \in online /\ UserLogOut(p) /\ UNCHANGED inv
    BY <1>4 DEF Die, LogOut
  <2>2. CASE Leaves(p) \/ Stays(p)
    <3>1. UNCHANGED locked /\ \A r \in Player : SameList(r)
      BY <2>2 DEF Leaves, Stays, SameLists, SameList
    <3> QED
      BY <2>1, <3>1, GuestsLists
  <2>3. CASE Deletes(p)
    BY <2>1, <2>3, DeletedLists DEF Deletes
  <2> QED
    BY <2>1, <2>2, <2>3, LogOutCases
<1>5. CASE Refuse(p) \/ RegistBuyCrashes(p) \/ DieByPet(p) \/ Revive(p) \/ Earn(p)
  <2>1. UNCHANGED <<inv, locked, stall>>
    BY <1>5 DEF Refuse, RegistBuyCrashes, DieByPet, Revive, Earn, stallVars, itemVars
  <2> QED
    BY <2>1, GuestsLists DEF SameList
<1> QED
  BY <1>1, <1>2, <1>3, <1>4, <1>5, OpenLists, MoveLists DEF OtherStep

LEMMA ListsNext ==
  ASSUME IInv, Next
  PROVE  Lists'
<1>1. ASSUME NEW q \in Player PROVE InList(q)'
  <2>1. ASSUME NEW p \in Player, Ask(p) PROVE InList(q)'
    BY <2>1, AskOnly, GuestsLists DEF SameList
  <2>2. ASSUME NEW p \in Player, ListStep(p) PROVE InList(q)'
    BY <2>2, OwnList, ListLists
  <2>3. ASSUME NEW p \in Player, TradeStep(p) PROVE InList(q)'
    BY <2>3, BuyLists, SellLists DEF TradeStep
  <2>4. ASSUME NEW p \in Player, OtherStep(p) PROVE InList(q)'
    BY <2>4, OtherLists
  <2>5. ASSUME NEW r \in inserts, Inserted(r) PROVE InList(q)'
    BY <2>5, InsertedLists
  <2> QED
    BY <2>1, <2>2, <2>3, <2>4, <2>5, Steps
<1> QED
  BY <1>1 DEF Lists, InList

-----------------------------------------------------------------------------
(* The invariant *)

LEMMA InitIInv == Init => IInv
<1> SUFFICES ASSUME Init PROVE IInv
  OBVIOUS
<1>1. Stalls /\ \A p \in Player : KindOf(p) = "NONE" /\ locked[p] = {}
  BY Distinct DEF Init, Stalls, KindOf
<1>2. Items
  <2>1. ASSUME NEW p \in Player PROVE DOMAIN inv[p] = Slot /\ \A s \in Slot : IsItem(inv[p][s])
    <3>1. inv[p] \in [1..NSlots -> {[id |-> 0, kind |-> NoKind, n |-> 0]} \cup [id : Nat, kind : Kind, n : Nat \ {0}]]
      BY StallAssumption DEF Init
    <3>2. ASSUME NEW x \in {[id |-> 0, kind |-> NoKind, n |-> 0]} \cup [id : Nat, kind : Kind, n : Nat \ {0}]
          PROVE  IsItem(x)
      BY DEF IsItem, NoItem, ItemOf
    <3> QED
      BY <3>1, <3>2 DEF Slot
  <2> QED
    BY <2>1, StallAssumption DEF Items, Init
<1>3. Rest
  BY StallAssumption DEF Init, Rest
<1>4. Requests
  BY DEF Init, Requests, OfOwner, OfGuest, OfItems, NoRequest
<1>5. Visits
  BY StallAssumption DEF Init, Visits, GuestsSound
<1>6. Lists
  BY <1>1 DEF Lists, Backed, LockedOf, Sold
<1>7. Reserves
  BY <1>3 DEF Init, Reserves, Rest
<1> QED
  BY <1>1, <1>2, <1>3, <1>4, <1>5, <1>6, <1>7 DEF IInv

LEMMA KeepsIInv == IInv /\ [Next]_vars => IInv'
<1>1. ASSUME IInv, Next PROVE IInv'
  BY <1>1, StallsNext, ItemsNext, RestNext, RequestsNext, VisitsNext, ListsNext, ReservesNext DEF IInv
<1>2. ASSUME IInv, UNCHANGED vars PROVE IInv'
  <2>1. UNCHANGED <<up, online, state, guestStall, stall, inv, locked, reserved, inserts, gold, asked>>
    BY <1>2 DEF vars
  <2>2. Stalls' /\ Items' /\ Rest'
    BY <1>2, <2>1 DEF IInv, Stalls, IsStall, IsList, IsArticle, Items, IsItem, Rest
  <2>3. ASSUME NEW q \in Player PROVE (OfOwner(q) /\ OfGuest(q) /\ OfItems(q))'
    BY <1>2, <2>1 DEF IInv, Requests, OfOwner, OfGuest, OfItems, Free, KindOf, Filled, Article
  <2>4. Requests'
    BY <1>2, <2>1, <2>3 DEF IInv, Requests
  <2>5. Visits' /\ Reserves'
    BY <1>2, <2>1 DEF IInv, Visits, GuestsSound, Reserves
  <2>6. Lists'
    BY <1>2, <2>1, GuestsLists DEF SameList, Lists, InList
  <2> QED
    BY <2>2, <2>4, <2>5, <2>6 DEF IInv
<1> QED
  BY <1>1, <1>2

\* The inductive invariant holds: shapes and types, guests, requests under way,
\* lists of articles and reserved cells, through every handler, death, log-out and
\* answer of the database.
THEOREM StallsStaySound == Spec => []IInv
BY InitIInv, KeepsIInv, PTL DEF Spec

\* A guest is in the list of the stall it points to and in no other, that stall
\* exists, and nobody stays in the state of a guest or of an owner without a
\* stall: MP_STREETSTALL_GUESTIN_SYN to _GUESTOUT_SYN, DeleteGuestAll, UserLogOut.
THEOREM GuestsStaySound == Spec => []GuestsSound
<1>1. IInv => GuestsSound
  BY DEF IInv, Visits
<1> QED
  BY <1>1, StallsStaySound, PTL

\* What a guest can buy is there: a locked article is the item of a locked cell
\* of its owner with its number, nothing else is locked, nothing is on offer
\* twice, and the list has no hole (FillCell, EmptyCell, ChangeCellState, BuyItem).
THEOREM OffersStayBacked == Spec => []OffersBacked
<1>1. ASSUME IInv PROVE OffersBacked
  <2>1. ASSUME NEW o \in online
        PROVE  LET sold == IF HasStall(o, "SELL") THEN {c \in Filled(o) : Article(o, c).lock} ELSE {} IN
               /\ locked[o] = {Article(o, c).slot : c \in sold}
               /\ \A c \in sold : LET a == Article(o, c) IN inv[o][a.slot] = ItemOf(a.id, a.kind, a.n)
               /\ HasStall(o, "SELL") =>
                    /\ Filled(o) = 1..Cardinality(Filled(o))
                    /\ \A c, d \in Filled(o) : Article(o, c).id = Article(o, d).id => c = d
    <3>1. o \in Player /\ (HasStall(o, "SELL") <=> KindOf(o) = "SELL")
      BY <1>1, Filling DEF IInv, Rest
    <3>2. PICK sold : sold = IF HasStall(o, "SELL") THEN {c \in Filled(o) : Article(o, c).lock} ELSE {}
      OBVIOUS
    <3>3. sold = Sold(o)
      BY <3>1, <3>2 DEF Sold, Filled
    <3>4. locked[o] = {Article(o, c).slot : c \in sold}
      BY <1>1, <3>1, <3>3 DEF IInv, Lists, LockedOf
    <3>5. \A c \in sold : inv[o][Article(o, c).slot]
                            = ItemOf(Article(o, c).id, Article(o, c).kind, Article(o, c).n)
      BY <1>1, <3>1, <3>2, Listing
    <3>6. ASSUME KindOf(o) = "SELL" PROVE Filled(o) = 1..Cardinality(Filled(o))
      <4>1. PICK n \in 0..NCells : Filled(o) = 1..n
        BY <1>1, <3>1, <3>6, Listing
      <4>2. n \in Int /\ n >= 0
        BY <4>1, StallAssumption
      <4>3. Cardinality(1..n) = n
        BY <4>2, FS_Interval
      <4> QED
        BY <4>1, <4>3
    <3>7. KindOf(o) = "SELL" => \A c, d \in Filled(o) : Article(o, c).id = Article(o, d).id => c = d
      BY <1>1, <3>1, Listing
    <3> QED
      BY <3>1, <3>2, <3>4, <3>5, <3>6, <3>7
  <2> QED
    BY <2>1 DEF OffersBacked
<1> QED
  BY <1>1, StallsStaySound, PTL

\* Every insertion under way has an empty cell of its own that is reserved
\* (SS_PREINSERT), and no other cell is: SSItemInsert, RSSItemInsert.
THEOREM ReservedStayHeld == Spec => []ReservedHeld
<1>1. ASSUME IInv PROVE ReservedHeld
  <2>1. ASSUME NEW p \in online, NEW M, M = {r \in inserts : r.who = p}
        PROVE  Cardinality(reserved[p]) = Cardinality(M)
    <3>1. /\ reserved[p] = {r.slot : r \in M}
          /\ \A r, q \in M : r.slot = q.slot => r = q
          /\ reserved[p] \subseteq 1..NSlots
      BY <1>1, <2>1 DEF IInv, Reserves, Rest, Slot
    <3>2. IsFiniteSet(reserved[p])
      <4>1. IsFiniteSet(1..NSlots)
        BY StallAssumption, FS_Interval
      <4> QED
        BY <3>1, <4>1, FS_Subset
    <3>3. PICK f : f = [r \in M |-> r.slot]
      OBVIOUS
    <3>4. f \in Injection(M, reserved[p]) /\ f \in Surjection(M, reserved[p])
      BY <3>1, <3>3 DEF Injection, Surjection, IsInjective
    <3> QED
      BY <3>2, <3>4, FS_Injection
  <2>2. \A p \in online : /\ reserved[p] = {r.slot : r \in {q \in inserts : q.who = p}}
                          /\ \A s \in reserved[p] : inv[p][s] = NoItem
    BY <1>1 DEF IInv, Reserves
  <2> QED
    BY <2>1, <2>2 DEF ReservedHeld
<1> QED
  BY <1>1, StallsStaySound, PTL

-----------------------------------------------------------------------------
(* Numbers of pieces *)

Each(T, n) == UNION {{t} \X (1..n[t]) : t \in T}

\* The pieces in finitely many cells are finitely many.
LEMMA EachFinite ==
  ASSUME NEW T, IsFiniteSet(T), NEW n, \A t \in T : n[t] \in Nat
  PROVE  IsFiniteSet(Each(T, n)) /\ Pieces(T, n) = Cardinality(Each(T, n)) /\ Pieces(T, n) \in Nat
<1>1. PICK f : f = [t \in T |-> {t} \X (1..n[t])]
  OBVIOUS
<1>2. PICK S : S = {{t} \X (1..n[t]) : t \in T}
  OBVIOUS
<1>3. f \in Surjection(T, S)
  BY <1>1, <1>2 DEF Surjection
<1>4. IsFiniteSet(S)
  BY <1>3, FS_Surjection
<1>5. ASSUME NEW U \in S PROVE IsFiniteSet(U)
  <2>1. PICK t \in T : U = {t} \X (1..n[t])
    BY <1>2
  <2>2. IsFiniteSet({t}) /\ IsFiniteSet(1..n[t])
    <3>1. n[t] \in Int /\ 1 \in Int
      OBVIOUS
    <3> QED
      BY <3>1, FS_Singleton, FS_Interval
  <2> QED
    BY <2>1, <2>2, FS_Product
<1>6. IsFiniteSet(UNION S)
  BY <1>4, <1>5, FS_UNION
<1>7. Each(T, n) = UNION S /\ Pieces(T, n) = Cardinality(UNION S)
  BY <1>2 DEF Each, Pieces
<1> QED
  BY <1>6, <1>7, FS_CardinalityType

\* Cells with the same numbers have as many pieces.
LEMMA EachSame ==
  ASSUME NEW T, NEW n, NEW m, \A t \in T : n[t] = m[t]
  PROVE  Pieces(T, n) = Pieces(T, m)
<1>1. Each(T, n) = Each(T, m)
  BY DEF Each
<1>2. Pieces(T, n) = Cardinality(Each(T, n)) /\ Pieces(T, m) = Cardinality(Each(T, m))
  BY DEF Each, Pieces
<1> QED
  BY <1>1, <1>2

\* One cell's are its number.
LEMMA OneCell ==
  ASSUME NEW T, IsFiniteSet(T), NEW n, \A t \in T : n[t] \in Nat, NEW t \in T
  PROVE  Pieces(T, n) = Pieces(T \ {t}, n) + n[t]
<1>1. PICK A, B : A = Each(T \ {t}, n) /\ B = {t} \X (1..n[t])
  OBVIOUS
<1>2. IsFiniteSet(T \ {t})
  BY FS_Difference
<1>3. IsFiniteSet(A) /\ Pieces(T \ {t}, n) = Cardinality(A) /\ Cardinality(A) \in Nat
  BY <1>1, <1>2, EachFinite
<1>4. IsFiniteSet(B) /\ Cardinality(B) = n[t]
  <2>1. n[t] \in Nat /\ IsFiniteSet({t}) /\ Cardinality({t}) = 1
    BY FS_Singleton
  <2>2. IsFiniteSet(1..n[t]) /\ Cardinality(1..n[t]) = n[t]
    BY <2>1, FS_Interval
  <2>3. Cardinality({t} \X (1..n[t])) = 1 * n[t] /\ IsFiniteSet({t} \X (1..n[t]))
    BY <2>1, <2>2, FS_Product
  <2> QED
    BY <1>1, <2>1, <2>3
<1>5. A \cap B = {}
  BY <1>1 DEF Each
<1>6. Each(T, n) = A \cup B
  BY <1>1 DEF Each
<1>7. Pieces(T, n) = Cardinality(A \cup B)
  BY <1>6, EachFinite
<1>8. Cardinality(A \cup B) = Cardinality(A) + Cardinality(B) - Cardinality(A \cap B)
  BY <1>3, <1>4, FS_Union
<1>9. Cardinality(A \cap B) = 0
  BY <1>5, FS_EmptySet
<1> QED
  BY <1>3, <1>4, <1>7, <1>8, <1>9

(* How many of a kind an item is, how many an inventory has, and how many are coming *)
Of(x, k) == IF x.kind = k THEN x.n ELSE 0
InCells(I, k) == Pieces({s \in Slot : I[s].kind = k}, [s \in Slot |-> I[s].n])
Coming(N, p, k) == Pieces({r \in N : r.who = p /\ r.kind = k}, [r \in N |-> r.n])

Numbered(I) == \A s \in Slot : I[s].n \in Nat

LEMMA InCellsType ==
  ASSUME NEW I, Numbered(I), NEW k
  PROVE  InCells(I, k) \in Nat
<1>1. PICK T, n : T = {s \in Slot : I[s].kind = k} /\ n = [s \in Slot |-> I[s].n]
  OBVIOUS
<1>2. IsFiniteSet(T)
  <2>1. IsFiniteSet(Slot) /\ T \subseteq Slot
    BY <1>1, StallAssumption, FS_Interval DEF Slot
  <2> QED
    BY <2>1, FS_Subset
<1>3. \A t \in T : n[t] \in Nat
  BY <1>1 DEF Numbered
<1> QED
  BY <1>1, <1>2, <1>3, EachFinite DEF InCells

(* The cells of a kind but one, and the number of each *)
But(I, k, s) == {t \in Slot \ {s} : I[t].kind = k}
NumberOf(I)  == [t \in Slot |-> I[t].n]

\* All but one cell's
LEMMA CellsBut ==
  ASSUME NEW I, Numbered(I), NEW k, NEW s \in Slot
  PROVE  /\ InCells(I, k) = Pieces(But(I, k, s), NumberOf(I)) + Of(I[s], k)
         /\ Pieces(But(I, k, s), NumberOf(I)) \in Nat
<1> PICK T, n : T = But(I, k, s) /\ n = NumberOf(I)
  OBVIOUS
<1>0. T = {t \in Slot \ {s} : I[t].kind = k} /\ n = [t \in Slot |-> I[t].n]
  BY DEF But, NumberOf
<1>1. PICK A : A = {t \in Slot : I[t].kind = k}
  OBVIOUS
<1>2. IsFiniteSet(A) /\ IsFiniteSet(T)
  <2>1. IsFiniteSet(Slot) /\ A \subseteq Slot /\ T \subseteq Slot
    BY <1>0, <1>1, StallAssumption, FS_Interval DEF Slot
  <2> QED
    BY <2>1, FS_Subset
<1>3. \A t \in A : n[t] \in Nat
  BY <1>0, <1>1 DEF Numbered
<1>4. Pieces(T, n) \in Nat
  <2>1. \A t \in T : n[t] \in Nat
    BY <1>0 DEF Numbered
  <2> QED
    BY <1>2, <2>1, EachFinite
<1>5. InCells(I, k) = Pieces(A, n)
  BY <1>0, <1>1 DEF InCells
<1>6. CASE I[s].kind = k
  <2>1. s \in A /\ T = A \ {s} /\ n[s] = I[s].n
    BY <1>0, <1>1, <1>6
  <2>2. Pieces(A, n) = Pieces(T, n) + n[s]
    BY <1>2, <1>3, <2>1, OneCell
  <2> QED
    BY <1>4, <1>5, <1>6, <2>1, <2>2 DEF Of
<1>7. CASE I[s].kind # k
  <2>1. T = A
    BY <1>0, <1>1, <1>7
  <2>2. Pieces(T, n) = Pieces(A, n)
    BY <2>1
  <2>3. Of(I[s], k) = 0
    BY <1>7 DEF Of
  <2> QED
    BY <1>4, <1>5, <2>2, <2>3
<1> QED
  BY <1>6, <1>7

\* When one cell changes, the number changes by what was there and what is there now.
LEMMA CellChanged ==
  ASSUME NEW I, NEW J, Numbered(I), Numbered(J), NEW s \in Slot,
         \A t \in Slot \ {s} : J[t] = I[t], NEW k
  PROVE  InCells(J, k) = InCells(I, k) - Of(I[s], k) + Of(J[s], k)
<1>1. PICK T, n, m : T = But(I, k, s) /\ n = NumberOf(I) /\ m = NumberOf(J)
  OBVIOUS
<1>2. T = But(J, k, s)
  BY <1>1 DEF But
<1>3. \A t \in T : n[t] = m[t]
  BY <1>1 DEF But, NumberOf
<1>4. Pieces(T, n) = Pieces(T, m)
  BY <1>3, EachSame
<1>5. InCells(I, k) = Pieces(T, n) + Of(I[s], k) /\ Pieces(T, n) \in Nat
  BY <1>1, CellsBut
<1>6. InCells(J, k) = Pieces(T, m) + Of(J[s], k)
  BY <1>1, <1>2, CellsBut
<1>7. Of(I[s], k) \in Nat /\ Of(J[s], k) \in Nat
  BY DEF Of, Numbered
<1> QED
  BY <1>4, <1>5, <1>6, <1>7

LEMMA CellsSame ==
  ASSUME NEW I, NEW J, \A s \in Slot : J[s] = I[s], NEW k
  PROVE  InCells(J, k) = InCells(I, k)
<1>1. PICK T : T = {t \in Slot : I[t].kind = k}
  OBVIOUS
<1>2. PICK n, m : n = [t \in Slot |-> I[t].n] /\ m = [t \in Slot |-> J[t].n]
  OBVIOUS
<1>3. T = {t \in Slot : J[t].kind = k} /\ \A t \in T : n[t] = m[t]
  BY <1>1, <1>2
<1>4. Pieces(T, n) = Pieces(T, m)
  BY <1>3, EachSame
<1> QED
  BY <1>1, <1>2, <1>3, <1>4 DEF InCells

\* An insertion more
LEMMA OneMoreComing ==
  ASSUME NEW N, IsFiniteSet(N), \A r \in N : r.n \in Nat, NEW x, x \notin N, x.n \in Nat,
         NEW M, M = N \cup {x}, NEW p, NEW k
  PROVE  /\ Coming(N, p, k) \in Nat
         /\ Coming(M, p, k) = Coming(N, p, k) + IF x.who = p THEN Of(x, k) ELSE 0
<1>1. PICK A, B : A = {r \in N : r.who = p /\ r.kind = k} /\ B = {r \in M : r.who = p /\ r.kind = k}
  OBVIOUS
<1>2. PICK n, m : n = [r \in N |-> r.n] /\ m = [r \in M |-> r.n]
  OBVIOUS
<1>3. IsFiniteSet(A) /\ IsFiniteSet(B)
  <2>1. IsFiniteSet(M)
    BY FS_AddElement
  <2> QED
    BY <1>1, <2>1, FS_Subset
<1>4. Pieces(A, n) = Pieces(A, m)
  <2>1. \A r \in A : n[r] = m[r]
    BY <1>1, <1>2
  <2> QED
    BY <2>1, EachSame
<1>5. Pieces(A, n) \in Nat
  <2>1. \A r \in A : n[r] \in Nat
    BY <1>1, <1>2
  <2> QED
    BY <1>3, <2>1, EachFinite
<1>6. Coming(N, p, k) = Pieces(A, n) /\ Coming(M, p, k) = Pieces(B, m)
  BY <1>1, <1>2 DEF Coming
<1>7. CASE x.who = p /\ x.kind = k
  <2>1. x \in B /\ B \ {x} = A /\ m[x] = x.n
    BY <1>1, <1>2, <1>7
  <2>2. \A r \in B : m[r] \in Nat
    BY <1>1, <1>2
  <2>3. Pieces(B, m) = Pieces(A, m) + m[x]
    BY <1>3, <2>1, <2>2, OneCell
  <2> QED
    BY <1>4, <1>5, <1>6, <1>7, <2>1, <2>3 DEF Of
<1>8. CASE ~(x.who = p /\ x.kind = k)
  <2>1. B = A
    BY <1>1, <1>8
  <2> QED
    BY <1>4, <1>5, <1>6, <1>8, <2>1 DEF Of
<1> QED
  BY <1>5, <1>6, <1>7, <1>8

-----------------------------------------------------------------------------
(* Items, numbers, prices and purses *)

(* An item of number i is of kind k. *)
Known(i, k) == \E q \in Player, s \in Slot :
                 inv[q][s] # NoItem /\ inv[q][s].id = i /\ inv[q][s].kind = k

Named == \A i, k, l : Known(i, k) /\ Known(i, l) => k = l

Counted ==
  /\ \A p \in Player, s \in Slot :
       /\ inv[p][s].n \in Nat
       /\ inv[p][s] # NoItem => inv[p][s].n # 0 /\ (inv[p][s].kind \notin Stackable => inv[p][s].n = 1)
  /\ IsFiniteSet(inserts) /\ \A r \in inserts : r.n \in Nat \ {0} /\ r.kind \in Stackable

Numeric(a) == a.price \in Nat /\ a.n \in Nat

Priced == \A o \in Player : stall[o] # NoStall => \A c \in Cell : Numeric(Article(o, c))

Purses == gold \in [Player -> 0..MaxMoney]

(* What a request was made from: numbers, the item its guest was shown, and the
   item it has for sale *)
Fair(p, m) ==
  /\ m.type = "LOCK" => m.price \in Nat
  /\ m.type = "REGISTBUY" => m.price \in Nat /\ m.n \in Nat
  /\ m.type \in {"BUY", "SELL"} => m.price \in Nat /\ m.n \in Nat \ {0}
  /\ m.type \in {"BUY", "SELL"} => m.kind \in Kind /\ (m.kind \notin Stackable => m.n = 1)
  /\ m.type = "BUY" => Known(m.id, m.kind)
  /\ m.type = "SELL" => inv[p][m.slot] # NoItem /\ inv[p][m.slot].kind = m.kind

Fairly == \A p \in Player : Fair(p, asked[p])

Goods == Named /\ Counted /\ Priced /\ Purses /\ Fairly

LEMMA HeldIs == \A p, k : Held(p, k) = InCells(inv[p], k) + Coming(inserts, p, k)
BY DEF Held, InCells, Coming, KindAt

LEMMA HeldThen == \A p, k : Held(p, k)' = InCells(inv'[p], k) + Coming(inserts', p, k)
BY DEF Held, InCells, Coming, KindAt

LEMMA ComingType ==
  ASSUME Counted, NEW p, NEW k
  PROVE  Coming(inserts, p, k) \in Nat
<1>1. PICK T : T = {r \in inserts : r.who = p /\ r.kind = k}
  OBVIOUS
<1>2. PICK n : n = [r \in inserts |-> r.n]
  OBVIOUS
<1>3. IsFiniteSet(T)
  BY <1>1, FS_Subset DEF Counted
<1>4. \A t \in T : n[t] \in Nat
  BY <1>1, <1>2 DEF Counted
<1> QED
  BY <1>1, <1>2, <1>3, <1>4, EachFinite DEF Coming

\* n pieces of an item go, all of them or a part.
Gives(a, s, n, b, e) ==
  /\ a \in online /\ b \in online /\ a # b /\ s \in Slot /\ e \in Slot
  /\ inv[a][s] # NoItem /\ inv[b][e] = NoItem /\ e \notin reserved[b]
  /\ n \in Nat \ {0} /\ n <= inv[a][s].n
  /\ n = inv[a][s].n => Whole(a, s, b, e)
  /\ n < inv[a][s].n => Part(a, s, n, b, e)

\* They are the receiver's then, and no more the giver's; nobody else's number changes.
LEMMA GivesHeld ==
  ASSUME IInv, Counted, NEW a, NEW s, NEW n, NEW b, NEW e, Gives(a, s, n, b, e),
         NEW p \in Player, NEW l \in Kind
  PROVE  Held(p, l)' = Held(p, l) + IF l # inv[a][s].kind THEN 0
                                    ELSE IF p = b THEN n ELSE IF p = a THEN -n ELSE 0
<1>1. /\ a \in Player /\ b \in Player /\ a # b /\ s \in Slot /\ e \in Slot
      /\ n \in Nat /\ inv[b][e] = NoItem /\ b \in online
  BY DEF Gives, IInv, Rest
<1>2. PICK x : x = inv[a][s]
  OBVIOUS
<1>3. x.n \in Nat /\ n <= x.n
  BY <1>1, <1>2 DEF Gives, Counted
<1>4. Numbered(inv[p])
  BY DEF Counted, Numbered
<1>5. PICK h : h = InCells(inv[p], l) /\ h \in Nat
  BY <1>4, InCellsType
<1>6. PICK g : g = Coming(inserts, p, l) /\ g \in Nat
  BY ComingType
<1>7. Held(p, l) = h + g
  BY <1>5, <1>6, HeldIs
<1>8. Of(NoItem, l) = 0 /\ NoItem.n = 0
  BY Distinct DEF Of, NoItem
<1>9. CASE n = x.n
  <2>1. Whole(a, s, b, e)
    BY <1>2, <1>9 DEF Gives
  <2>2. inserts' = inserts
    BY <2>1 DEF Whole
  <2>3. Held(p, l)' = InCells(inv'[p], l) + g
    BY <1>6, <2>2, HeldThen
  <2>4. /\ inv'[a][s] = NoItem /\ inv'[b][e] = x
        /\ \A r \in Player, t \in Slot : (r = a /\ t = s) \/ (r = b /\ t = e) \/ inv'[r][t] = inv[r][t]
    BY <1>2, <2>1 DEF Whole, Elsewhere
  <2>5. Numbered(inv'[p])
    BY <1>1, <1>3, <1>4, <1>8, <2>4 DEF Numbered
  <2>6. CASE p = a
    <3>1. \A t \in Slot \ {s} : inv'[p][t] = inv[p][t]
      BY <1>1, <2>4, <2>6
    <3>2. InCells(inv'[p], l) = h - Of(inv[p][s], l) + Of(inv'[p][s], l)
      BY <1>1, <1>4, <1>5, <2>5, <3>1, CellChanged
    <3>3. Of(inv[p][s], l) = (IF x.kind = l THEN n ELSE 0) /\ Of(inv'[p][s], l) = 0
      BY <1>2, <1>8, <1>9, <2>4, <2>6 DEF Of
    <3> QED
      BY <1>1, <1>2, <1>5, <1>6, <1>7, <2>3, <2>6, <3>2, <3>3
  <2>7. CASE p = b
    <3>1. \A t \in Slot \ {e} : inv'[p][t] = inv[p][t]
      BY <1>1, <2>4, <2>7
    <3>2. InCells(inv'[p], l) = h - Of(inv[p][e], l) + Of(inv'[p][e], l)
      BY <1>1, <1>4, <1>5, <2>5, <3>1, CellChanged
    <3>3. Of(inv'[p][e], l) = (IF x.kind = l THEN n ELSE 0) /\ Of(inv[p][e], l) = 0
      BY <1>1, <1>8, <1>9, <2>4, <2>7 DEF Of
    <3> QED
      BY <1>1, <1>2, <1>5, <1>6, <1>7, <2>3, <2>7, <3>2, <3>3
  <2>8. CASE p # a /\ p # b
    <3>1. \A t \in Slot : inv'[p][t] = inv[p][t]
      BY <2>4, <2>8
    <3>2. InCells(inv'[p], l) = h
      BY <1>5, <3>1, CellsSame
    <3> QED
      BY <1>5, <1>6, <1>7, <2>3, <2>8, <3>2
  <2> QED
    BY <2>6, <2>7, <2>8
<1>10. CASE n # x.n
  <2>1. Part(a, s, n, b, e)
    BY <1>1, <1>2, <1>3, <1>10 DEF Gives
  <2>2. PICK y : y = ItemOf(x.id, x.kind, x.n - n)
    OBVIOUS
  <2>3. y.kind = x.kind /\ y.n = x.n - n
    BY <2>2, Distinct
  <2>4. PICK z : z = [who |-> b, slot |-> e, kind |-> x.kind, n |-> n]
    OBVIOUS
  <2>5. /\ inserts' = inserts \cup {z} /\ inv'[a][s] = y
        /\ \A r \in Player, t \in Slot : (r = a /\ t = s) \/ inv'[r][t] = inv[r][t]
    BY <1>2, <2>1, <2>2, <2>4 DEF Part, Elsewhere
  <2>6. z.who = b /\ z.slot = e /\ z.kind = x.kind /\ z.n = n
    BY <2>4
  <2>7. z \notin inserts
    BY <1>1, <2>6 DEF Gives, IInv, Reserves
  <2>8. Coming(inserts', p, l) = g + IF z.who = p THEN Of(z, l) ELSE 0
    <3>1. IsFiniteSet(inserts) /\ \A r \in inserts : r.n \in Nat
      BY DEF Counted
    <3> QED
      BY <1>1, <1>6, <2>5, <2>6, <2>7, <3>1, OneMoreComing
  <2>9. Of(z, l) = IF x.kind = l THEN n ELSE 0
    BY <2>6 DEF Of
  <2>10. CASE p = a
    <3>1. \A t \in Slot \ {s} : inv'[p][t] = inv[p][t]
      BY <1>1, <2>5, <2>10
    <3>2. Numbered(inv'[p])
      BY <1>1, <1>3, <1>4, <2>3, <2>5, <2>10, <3>1 DEF Numbered
    <3>3. InCells(inv'[p], l) = h - Of(inv[p][s], l) + Of(inv'[p][s], l)
      BY <1>1, <1>4, <1>5, <3>1, <3>2, CellChanged
    <3>4. inv[p][s] = x /\ inv'[p][s] = y
      BY <1>2, <2>5, <2>10
    <3>5. Of(x, l) = (IF x.kind = l THEN x.n ELSE 0) /\ Of(y, l) = IF x.kind = l THEN x.n - n ELSE 0
      BY <2>3 DEF Of
    <3>6. InCells(inv'[p], l) = h - IF x.kind = l THEN n ELSE 0
      BY <1>1, <1>3, <1>5, <3>3, <3>4, <3>5
    <3>7. Coming(inserts', p, l) = g
      BY <1>1, <1>6, <2>6, <2>8, <2>10
    <3>8. Held(p, l)' = (h - IF x.kind = l THEN n ELSE 0) + g
      BY <3>6, <3>7, HeldThen
    <3> QED
      BY <1>1, <1>2, <1>5, <1>6, <1>7, <2>10, <3>8
  <2>11. CASE p # a
    <3>1. \A t \in Slot : inv'[p][t] = inv[p][t]
      BY <2>5, <2>11
    <3>2. InCells(inv'[p], l) = h
      BY <1>5, <3>1, CellsSame
    <3>3. Held(p, l)' = h + (g + IF z.who = p THEN Of(z, l) ELSE 0)
      BY <2>8, <3>2, HeldThen
    <3> QED
      BY <1>1, <1>2, <1>5, <1>6, <1>7, <2>6, <2>9, <2>11, <3>3
  <2> QED
    BY <2>10, <2>11
<1> QED
  BY <1>9, <1>10

-----------------------------------------------------------------------------
(* What a trade does *)

LEMMA LeastOf ==
  ASSUME NEW T \in SUBSET Nat, T # {}
  PROVE  Min(T) \in T /\ \A y \in T : Min(T) <= y
<1>1. \E x \in T : \A y \in T : x <= y
  BY Minimum
<1>2. Min(T) = CHOOSE x \in T : \A y \in T : x <= y
  BY DEF Min
<1> QED
  BY <1>1, <1>2

LEMMA Products ==
  ASSUME NEW q \in Nat, NEW n \in Nat, NEW m \in Nat, n <= m
  PROVE  q * n \in Nat /\ q * m \in Nat /\ q * n <= q * m /\ n * q = q * n /\ 1 * q = q /\ q * 1 = q
<1>1. q * n \in Nat /\ q * m \in Nat /\ n * q = q * n /\ 1 * q = q /\ q * 1 = q
  OBVIOUS
<1>2. PICK d \in Nat : m = n + d
  <2>1. m - n \in Nat /\ m = n + (m - n)
    OBVIOUS
  <2> QED
    BY <2>1
<1>3. q * (n + d) = q * n + q * d /\ q * d \in Nat
  OBVIOUS
<1>4. q * m = q * n + q * d
  BY <1>2, <1>3
<1> QED
  BY <1>1, <1>3, <1>4

\* A payment that the payer can afford: the receiver's purse may overflow.
LEMMA Paid ==
  ASSUME Purses, NEW a \in Player, NEW b \in Player, a # b, NEW w \in Nat, w <= gold[a], Pay(a, b, w)
  PROVE  /\ Purses'
         /\ \A q \in Player : gold'[q] < gold[q] => q = a
         /\ \/ gold[b] + w <= MaxMoney /\ gold' = [gold EXCEPT ![a] = @ - w, ![b] = @ + w]
            \/ gold[b] + w > MaxMoney /\ gold' = [gold EXCEPT ![a] = @ - w, ![b] = MaxMoney]
<1>1. /\ gold \in [Player -> 0..MaxMoney] /\ MaxMoney \in Nat
      /\ gold[a] \in 0..MaxMoney /\ gold[b] \in 0..MaxMoney
  BY StallAssumption DEF Purses
<1>2. PICK z : z = AddMoney(gold[b], w)
  OBVIOUS
<1>3. z = IF gold[b] + w <= MaxMoney THEN gold[b] + w ELSE MaxMoney
  <2>1. PICK T : T = {MaxMoney, gold[b] + w}
    OBVIOUS
  <2>2. T \in SUBSET Nat /\ T # {} /\ MaxMoney \in T /\ gold[b] + w \in T
    BY <1>1, <2>1
  <2>3. Min(T) \in T /\ \A y \in T : Min(T) <= y
    BY <2>2, LeastOf
  <2>4. z = Min(T)
    BY <1>2, <2>1 DEF AddMoney
  <2>5. z \in T /\ z <= MaxMoney /\ z <= gold[b] + w
    BY <2>2, <2>3, <2>4
  <2> QED
    BY <1>1, <2>1, <2>5
<1>4. gold' = [gold EXCEPT ![a] = @ - w, ![b] = z]
  BY <1>1, <1>2 DEF Pay
<1>5. z \in 0..MaxMoney /\ z >= gold[b] /\ gold[a] - w \in 0..MaxMoney
  BY <1>1, <1>3
<1>6. gold' \in [Player -> 0..MaxMoney]
  BY <1>1, <1>4, <1>5
<1>7. \A q \in Player : q # a => gold'[q] = gold[q] \/ (q = b /\ gold'[q] = z)
  BY <1>1, <1>4
<1>8. ASSUME NEW q \in Player, gold'[q] < gold[q] PROVE q = a
  <2>1. gold[q] \in 0..MaxMoney
    BY <1>1
  <2> QED
    BY <1>5, <1>7, <1>8, <2>1
<1>9. Purses'
  BY <1>6 DEF Purses
<1>10. \/ gold[b] + w <= MaxMoney /\ gold' = [gold EXCEPT ![a] = @ - w, ![b] = gold[b] + w]
       \/ gold[b] + w > MaxMoney /\ gold' = [gold EXCEPT ![a] = @ - w, ![b] = MaxMoney]
  <2>1. CASE gold[b] + w <= MaxMoney
    <3>1. z = gold[b] + w
      BY <1>3, <2>1
    <3> QED
      BY <1>4, <2>1, <3>1
  <2>2. CASE ~(gold[b] + w <= MaxMoney)
    <3>1. z = MaxMoney /\ gold[b] + w > MaxMoney
      BY <1>1, <1>3, <2>2
    <3> QED
      BY <1>4, <3>1
  <2> QED
    BY <2>1, <2>2
<1> QED
  BY <1>1, <1>8, <1>9, <1>10

\* Both sides of a trade have what they should.
LEMMA GivesExchanged ==
  ASSUME IInv, Counted, Purses, NEW a, NEW s, NEW n, NEW b, NEW e, Gives(a, s, n, b, e),
         NEW k, inv[a][s].kind = k, NEW q \in Nat, q * n <= gold[b], Pay(b, a, q * n),
         n > 1 \/ gold[a] + q * n <= MaxMoney
  PROVE  Exchanged(a, b, k, n, q)
<1>1. a \in Player /\ b \in Player /\ a # b /\ n \in Nat
  BY DEF Gives, IInv, Rest
<1>2. PICK w : w = q * n /\ w = n * q /\ w \in Nat
  BY <1>1, Products
<1>3. \/ gold' = [gold EXCEPT ![b] = @ - w, ![a] = @ + w]
      \/ n > 1 /\ gold' = [gold EXCEPT ![b] = @ - w, ![a] = MaxMoney]
  <2>1. \/ gold[a] + w <= MaxMoney /\ gold' = [gold EXCEPT ![b] = @ - w, ![a] = @ + w]
        \/ gold[a] + w > MaxMoney /\ gold' = [gold EXCEPT ![b] = @ - w, ![a] = MaxMoney]
    BY <1>1, <1>2, Paid
  <2>2. gold[a] \in Nat /\ MaxMoney \in Nat
    BY <1>1, StallAssumption DEF Purses
  <2> QED
    BY <1>2, <2>1, <2>2
<1>4. \A p \in Player, l \in Kind :
        Held(p, l)' = Held(p, l) + IF l # k THEN 0 ELSE IF p = b THEN n ELSE IF p = a THEN -n ELSE 0
  BY GivesHeld
<1> QED
  BY <1>2, <1>3, <1>4 DEF Exchanged

(* The purchase of a guest: a number of pieces of the item it was shown *)
Purchase(p, m, o, s, e) ==
  /\ m = asked[p] /\ m.type = "BUY" /\ o = m.owner /\ o # p /\ Trading(p, o, m.cell)
  /\ Gives(o, s, m.n, p, e)
  /\ inv[o][s] = ItemOf(m.id, m.kind, inv[o][s].n) /\ ~Free(o, s)
  /\ m.price * m.n <= gold[p] /\ gold[o] + m.price <= MaxMoney /\ Pay(p, o, m.price * m.n)

LEMMA BuyIsPurchase ==
  ASSUME IInv, Goods, NEW p \in Player, BuyWhole(p) \/ BuyPart(p)
  PROVE  \E m, o, s, e : Purchase(p, m, o, s, e)
<1>1. PICK m : m = asked[p]
  OBVIOUS
<1>2. PICK o, c : o = m.owner /\ c = m.cell
  OBVIOUS
<1>3. Stalls /\ Items /\ OfGuest(p) /\ Lists /\ Named /\ Counted /\ Fair(p, asked[p])
  BY DEF IInv, Requests, Goods, Fairly
<1>4. m.type = "BUY" /\ p \in online /\ Answered(p) /\ UNCHANGED <<online, state, guestStall>>
  BY <1>1 DEF BuyWhole, BuyPart, Handled, Answered
<1>5. CanBuyItem(p)
  BY DEF BuyWhole, BuyPart
<1>6. /\ o \in Player /\ o # p /\ o \in online /\ c \in Cell /\ KindOf(o) = "SELL"
      /\ guestStall[p] = o /\ EmptyCells(p) # {}
  BY <1>1, <1>2, <1>3, <1>4, <1>5 DEF OfGuest, CanBuyItem
<1>7. PICK x : x = Article(o, c)
  OBVIOUS
<1>8. c \in Filled(o) /\ x.price = m.price /\ x.id = m.id /\ m.n <= x.n /\ gold[p] >= x.price * m.n
      /\ gold[o] + x.price <= MaxMoney
  BY <1>1, <1>2, <1>5, <1>6, <1>7 DEF Filled, CanBuyItem, Article
<1>9. PICK s : s = x.slot
  OBVIOUS
<1>10. s \in Slot /\ inv[o][s] = ItemOf(x.id, x.kind, x.n)
  BY <1>3, <1>6, <1>7, <1>8, <1>9 DEF Lists, Backed
<1>11. PICK e : e = EmptyCell(p) /\ e \in Slot /\ inv[p][e] = NoItem /\ e \notin reserved[p]
  BY <1>6, EmptyIsEmpty
<1>12. x.kind \in Kind
  BY <1>6, <1>7, <1>8, Filling DEF IInv, IsArticle, NoArticle, ArticleOf, NoItem, ItemOf
<1>13. inv[o][s].kind = x.kind /\ inv[o][s].n = x.n /\ inv[o][s].id = m.id /\ inv[o][s] # NoItem
  BY <1>8, <1>10, <1>12, Distinct
<1>14. m.price \in Nat /\ m.n \in Nat \ {0} /\ Known(m.id, m.kind)
  <2>1. Known(m.id, m.kind)
    BY <1>1, <1>3, <1>4 DEF Fair
  <2>2. asked[p].type \in {"BUY", "SELL"}
    BY <1>1, <1>4
  <2>3. asked[p].price \in Nat /\ asked[p].n \in Nat \ {0}
    BY <1>3, <2>2 DEF Fair
  <2> QED
    BY <1>1, <2>1, <2>3
<1>15. x.kind = m.kind
  <2>1. Known(m.id, x.kind)
    BY <1>6, <1>10, <1>13 DEF Known
  <2> QED
    BY <1>3, <1>14, <2>1 DEF Named
<1>16. x.n \in Nat
  BY <1>3, <1>6, <1>10, <1>13 DEF Counted
<1>17. /\ BuyWhole(p) => m.n = x.n /\ MoveWhole(o, s, p)
       /\ BuyPart(p) => m.n < x.n /\ MovePart(o, s, m.n, p)
       /\ Pay(p, o, x.price * m.n)
  BY <1>1, <1>2, <1>7, <1>9 DEF BuyWhole, BuyPart
<1>18. /\ m.n = x.n => Whole(o, s, p, e)
       /\ m.n < x.n => Part(o, s, m.n, p, e)
  BY <1>3, <1>6, <1>10, <1>11, <1>14, <1>16, <1>17, WholeMoved, PartMoved
<1>19. Gives(o, s, m.n, p, e)
  BY <1>4, <1>6, <1>8, <1>10, <1>11, <1>13, <1>14, <1>18 DEF Gives
<1>20. Rearranged(o)
  <2>1. PICK q, d : Trading(p, q, d)
    BY TradeGoes DEF TradeStep
  <2>2. CASE BuyPart(p)
    BY <1>1, <1>2, <1>3, <1>6, <2>2, BuyPartKeeps
  <2>3. CASE BuyWhole(p)
    <3>1. TakeOff(o, x.id) /\ Listed(o, x.id)
      BY <1>1, <1>2, <1>7, <1>8, <2>3 DEF BuyWhole, Listed
    <3>2. PICK i : i = x.id
      OBVIOUS
    <3> QED
      BY <1>3, <1>6, <3>1, <3>2, TakeOffKeeps
  <2> QED
    BY <2>2, <2>3
<1>21. Trading(p, o, m.cell)
  BY <1>2, <1>4, <1>6, <1>8, <1>20 DEF Trading
<1>22. inv[o][s] = ItemOf(m.id, m.kind, inv[o][s].n)
  BY <1>8, <1>10, <1>13, <1>15
<1>23. ~Free(o, s)
  BY <1>6, <1>7, <1>8, <1>9 DEF Free
<1>24. m.price * m.n <= gold[p] /\ gold[o] + m.price <= MaxMoney /\ Pay(p, o, m.price * m.n)
  <2>1. gold[p] \in Nat
    <3>1. p \in Player /\ MaxMoney \in Nat
      BY StallAssumption
    <3> QED
      BY <3>1 DEF Goods, Purses
  <2>2. m.price * m.n \in Nat
    BY <1>14
  <2> QED
    BY <1>8, <1>17, <2>1, <2>2
<1> QED
  BY <1>1, <1>2, <1>4, <1>6, <1>19, <1>21, <1>22, <1>23, <1>24 DEF Purchase

(* The sale of a guest *)
Sale(p, m, o, s, n, e) ==
  /\ m = asked[p] /\ m.type = "SELL" /\ o = m.owner /\ o # p /\ Trading(p, o, m.cell)
  /\ s = m.slot /\ Gives(p, s, n, o, e) /\ inv[p][s].kind = m.kind
  /\ n \in 1..m.n /\ n <= Article(o, m.cell).n
  /\ m.price * n <= gold[o] /\ gold[p] + m.price * n <= MaxMoney /\ Pay(o, p, m.price * n)
  /\ n = NumberSold(p)

LEMMA SellIsSale ==
  ASSUME IInv, Goods, NEW p \in Player, Sell(p)
  PROVE  \E m, o, s, n, e : Sale(p, m, o, s, n, e)
<1>1. PICK m : m = asked[p]
  OBVIOUS
<1>2. PICK o, c, s : o = m.owner /\ c = m.cell /\ s = m.slot
  OBVIOUS
<1>3. Stalls /\ Items /\ OfGuest(p) /\ OfItems(p) /\ Counted /\ Priced /\ Fair(p, asked[p]) /\ Purses
  BY DEF IInv, Requests, Goods, Fairly
<1>4. m.type = "SELL" /\ p \in online /\ Answered(p) /\ UNCHANGED <<online, state, guestStall>>
  BY <1>1 DEF Sell, Handled, Answered
<1>5. CanSellItem(p)
  BY DEF Sell
<1>6. /\ o \in Player /\ o # p /\ o \in online /\ c \in Cell /\ KindOf(o) = "BUY"
      /\ guestStall[p] = o /\ EmptyCells(o) # {} /\ s \in Slot /\ inv[p][s] # NoItem
      /\ stall[o] # NoStall
  BY <1>1, <1>2, <1>3, <1>4, <1>5 DEF OfGuest, OfItems, CanSellItem
<1>7. PICK x : x = Article(o, c)
  OBVIOUS
<1>8. /\ c \in Filled(o) /\ x.price = m.price /\ x.n >= 1
      /\ gold[o] >= x.price * m.n /\ gold[p] + x.price * m.n <= MaxMoney
  BY <1>1, <1>2, <1>5, <1>6, <1>7 DEF Filled, CanSellItem, Article
<1>9. PICK e : e = EmptyCell(o) /\ e \in Slot /\ inv[o][e] = NoItem /\ e \notin reserved[o]
  BY <1>6, EmptyIsEmpty
<1>10. Rearranged(o)
  BY <1>1, <1>2, <1>3, <1>6, SellKeeps
<1>11. m.price \in Nat /\ m.n \in Nat \ {0} /\ inv[p][s].kind = m.kind
  <2>1. inv[p][s].kind = m.kind
    BY <1>1, <1>2, <1>3, <1>4 DEF Fair
  <2>2. asked[p].type \in {"BUY", "SELL"}
    BY <1>1, <1>4
  <2>3. asked[p].price \in Nat /\ asked[p].n \in Nat \ {0}
    BY <1>3, <2>2 DEF Fair
  <2> QED
    BY <1>1, <2>1, <2>3
<1>12. PICK v : v = inv[p][s].n /\ v \in Nat \ {0}
  BY <1>3, <1>6 DEF Counted
<1>13. x.n \in Nat \ {0}
  BY <1>3, <1>6, <1>7, <1>8 DEF Priced, Numeric
<1>14. PICK n : n = NumberSold(p)
  OBVIOUS
<1>15. n \in Nat \ {0} /\ n <= m.n /\ n <= v /\ n <= x.n
  <2>1. PICK T : T = {m.n, v, x.n}
    OBVIOUS
  <2>2. T \in SUBSET Nat /\ T # {} /\ 0 \notin T
    BY <1>11, <1>12, <1>13, <2>1
  <2>3. n = Min(T)
    BY <1>1, <1>2, <1>7, <1>12, <1>14, <2>1 DEF NumberSold
  <2>4. n \in T /\ \A y \in T : n <= y
    BY <2>2, <2>3, LeastOf
  <2> QED
    BY <2>1, <2>2, <2>4
<1>16. /\ n = v => MoveWhole(p, s, o)
       /\ n # v => MovePart(p, s, n, o)
       /\ Pay(o, p, m.price * n)
  BY <1>1, <1>2, <1>12, <1>14 DEF Sell
<1>17. /\ n = v => Whole(p, s, o, e)
       /\ n # v => Part(p, s, n, o, e)
  BY <1>3, <1>6, <1>9, <1>16, WholeMoved, PartMoved
<1>18. Gives(p, s, n, o, e)
  BY <1>4, <1>6, <1>9, <1>12, <1>15, <1>17 DEF Gives
<1>19. Trading(p, o, m.cell)
  BY <1>2, <1>4, <1>6, <1>8, <1>10 DEF Trading
<1>20. PICK w \in Nat, u \in Nat : w = m.price * n /\ u = m.price * m.n /\ w <= u
  <2>1. m.price \in Nat /\ n \in Nat /\ m.n \in Nat /\ n <= m.n
    BY <1>11, <1>15
  <2>2. m.price * n \in Nat /\ m.price * m.n \in Nat /\ m.price * n <= m.price * m.n
    BY <2>1, Products
  <2> QED
    BY <2>2
<1>21. w <= gold[o] /\ gold[p] + w <= MaxMoney
  <2>1. gold[o] \in Nat /\ gold[p] \in Nat /\ MaxMoney \in Nat
    BY <1>3, <1>6, StallAssumption DEF Purses
  <2>2. gold[o] >= u /\ gold[p] + u <= MaxMoney
    BY <1>8, <1>20
  <2> QED
    BY <1>20, <2>1, <2>2
<1>22. n \in 1..m.n
  BY <1>11, <1>15
<1> QED
  BY <1>1, <1>2, <1>4, <1>6, <1>7, <1>11, <1>14, <1>15, <1>16, <1>18, <1>19, <1>20, <1>21, <1>22 DEF Sale

-----------------------------------------------------------------------------
(* Prices and numbers stay numbers. *)

LEMMA NumericArticles ==
  ASSUME NEW a, IsArticle(a)
  PROVE  /\ Numeric(NoArticle)
         /\ Numeric(a) => \A b : On(b, a) \/ Off(b, a) => Numeric(b)
         /\ Numeric(a) => \A b, n : Renumbered(b, a, n) /\ n \in Nat => Numeric(b)
         /\ Numeric(a) => \A b, q : Repriced(b, a, q) /\ q \in Nat => Numeric(b)
<1>1. Numeric(NoArticle)
  BY DEF Numeric, NoArticle, ArticleOf, NoItem, ItemOf
<1>2. DOMAIN a = {"id", "kind", "slot", "n", "price", "lock"}
  BY DEF IsArticle
<1>3. ASSUME Numeric(a), NEW b, On(b, a) \/ Off(b, a) PROVE Numeric(b)
  BY <1>2, <1>3 DEF On, Off, Numeric
<1>4. ASSUME Numeric(a), NEW b, NEW n \in Nat, Renumbered(b, a, n) PROVE Numeric(b)
  BY <1>2, <1>4 DEF Renumbered, Numeric
<1>5. ASSUME Numeric(a), NEW b, NEW q \in Nat, Repriced(b, a, q) PROVE Numeric(b)
  BY <1>2, <1>5 DEF Repriced, Numeric
<1> QED
  BY <1>1, <1>3, <1>4, <1>5

\* One stall has other articles.
LEMMA PricedList ==
  ASSUME Priced, NEW p \in Player, Rearranged(p), \A c \in Cell : Numeric(Article(p, c)')
  PROVE  Priced'
<1>1. ASSUME NEW o \in Player, stall'[o] # NoStall, NEW c \in Cell PROVE Numeric(Article(o, c)')
  <2>1. CASE o = p
    BY <2>1
  <2>2. CASE o # p
    <3>1. stall'[o] = stall[o]
      BY <2>2 DEF Rearranged
    <3> QED
      BY <1>1, <3>1 DEF Priced, Article
  <2> QED
    BY <2>1, <2>2
<1> QED
  BY <1>1 DEF Priced, Numeric

\* One article is replaced.
LEMMA PricedOne ==
  ASSUME Stalls, Priced, NEW p \in Player, stall[p] # NoStall, NEW c \in Cell,
         NEW b, IsArticle(b), Numeric(b), stall' = [stall EXCEPT ![p].cells[c] = b]
  PROVE  Priced'
<1>1. Rearranged(p) /\ OnlyAt(p, c) /\ Article(p, c)' = b
  BY ArticleReplaced
<1>2. ASSUME NEW d \in Cell PROVE Numeric(Article(p, d)')
  <2>1. CASE d = c
    BY <1>1, <2>1
  <2>2. CASE d # c
    <3>1. Article(p, d)' = Article(p, d)
      BY <1>1, <2>2 DEF OnlyAt
    <3> QED
      BY <3>1 DEF Priced
  <2> QED
    BY <2>1, <2>2
<1> QED
  BY <1>1, <1>2, PricedList

\* All the articles are.
LEMMA PricedAll ==
  ASSUME Stalls, Priced, NEW p \in Player, Rearranged(p), NEW x, stall' = [stall EXCEPT ![p] = x],
         NEW v, x.cells = v, \A c \in Cell : Numeric(v[c])
  PROVE  Priced'
<1>1. stall'[p] = x
  BY DEF Stalls
<1>2. \A c \in Cell : Article(p, c)' = v[c]
  BY <1>1 DEF Article
<1> QED
  BY <1>2, PricedList

LEMMA PricedTakeOff ==
  ASSUME Stalls, Priced, NEW p \in Player, NEW i, Listed(p, i), TakeOff(p, i)
  PROVE  Priced'
<1>1. PICK c : c = CellOf(p, i)
  OBVIOUS
<1>2. /\ c \in Filled(p) /\ Rearranged(p)
      /\ \A d \in Cell : Article(p, d)' = IF d < c THEN Article(p, d)
                                          ELSE IF d < NCells THEN Article(p, d + 1) ELSE NoArticle
  BY <1>1, TakeOffKeeps
<1>3. stall[p] # NoStall
  BY <1>2, Filling
<1>4. Numeric(NoArticle)
  BY NoneIsArticle, NumericArticles
<1>5. ASSUME NEW d \in Cell PROVE Numeric(Article(p, d)')
  <2>1. d < NCells => d + 1 \in Cell
    BY StallAssumption DEF Cell
  <2>2. PICK y : y = Article(p, d)' /\ y = IF d < c THEN Article(p, d)
                                          ELSE IF d < NCells THEN Article(p, d + 1) ELSE NoArticle
    BY <1>2
  <2>3. Numeric(y)
    BY <1>3, <1>4, <2>1, <2>2 DEF Priced
  <2> QED
    BY <2>2, <2>3
<1> QED
  BY <1>2, <1>5, PricedList

LEMMA PricedUnwant ==
  ASSUME Stalls, Priced, NEW p \in Player, NEW c \in Filled(p), stall' = [stall EXCEPT ![p] = Unwant(p, c)]
  PROVE  Priced'
<1>1. c \in Cell /\ stall[p] # NoStall /\ IsStall(stall[p])
  BY Filling
<1>2. PICK u : u = stall[p].cells /\ IsList(u) /\ \A d \in Cell : Numeric(u[d])
  BY <1>1 DEF IsStall, Priced, Article
<1>3. PICK v : Put(v, u, c, NoArticle)
  BY DEF Put
<1>4. Differs(v, u, c, NoArticle)
  BY <1>1, <1>2, <1>3, NoneIsArticle, WithArticle
<1>5. Numeric(NoArticle)
  BY NoneIsArticle, NumericArticles
<1>6. \A d \in Cell : Numeric(v[d])
  BY <1>2, <1>4, <1>5 DEF Differs
<1>7. PICK x : x = Unwant(p, c)
  OBVIOUS
<1>8. x.cells = v
  BY <1>1, <1>2, <1>3, <1>7 DEF Unwant, Put, IsStall
<1>9. Rearranged(p)
  BY UnwantKeeps
<1> QED
  BY <1>6, <1>7, <1>8, <1>9, PricedAll

LEMMA PricedSteps ==
  ASSUME IInv, Goods, NEW p \in Player, ListStep(p)
  PROVE  Priced'
<1>1. Stalls /\ Items /\ OfOwner(p) /\ Priced /\ Counted /\ Fair(p, asked[p])
  BY DEF IInv, Requests, Goods, Fairly
<1>2. PICK m, c : m = asked[p] /\ c = m.cell
  OBVIOUS
<1>3. PICK a : a = Article(p, c)
  OBVIOUS
<1>4. c \in Filled(p) => c \in Cell /\ stall[p] # NoStall /\ IsArticle(a) /\ Numeric(a) /\ a.kind # NoKind
  BY <1>1, <1>3, Filling DEF Priced
<1>5. c \in Filled(p) => \A b : On(b, a) \/ Off(b, a) => IsArticle(b) /\ Numeric(b)
  BY <1>4, NumericArticles, TurnedOn, TurnedOff
<1>6. CASE Regist(p)
  <2>1. PICK s, d : s = m.slot /\ d = Min(Cell \ Filled(p))
    OBVIOUS
  <2>2. d \in Cell /\ Rearranged(p) /\ s \in Slot /\ inv[p][s].kind \in Kind
    BY <1>1, <1>2, <1>6, <2>1, RegistKeeps
  <2>3. PICK w, z : w = inv[p][s] /\ z = 0
    OBVIOUS
  <2>4. PICK b : b = ArticleOf(w, s, z)
    OBVIOUS
  <2>5. IsArticle(b)
    BY <2>2, <2>3, <2>4, NewArticle
  <2>6. Numeric(b)
    BY <1>1, <2>2, <2>3, <2>4 DEF Numeric, ArticleOf, Counted
  <2>7. stall' = [stall EXCEPT ![p].cells[d] = b] /\ stall[p] # NoStall
    BY <1>2, <1>6, <2>1, <2>3, <2>4 DEF Regist, CanRegist, HasStall
  <2> QED
    BY <1>1, <2>2, <2>5, <2>6, <2>7, PricedOne
<1>7. CASE Lock(p)
  <2>1. c \in Filled(p) /\ m.price \in Nat
    BY <1>1, <1>2, <1>7 DEF Lock, CanLock, IsAt, Handled, Fair
  <2>2. PICK q \in Nat : q = IF a.lock THEN a.price ELSE m.price
    BY <1>4, <2>1 DEF Numeric
  <2>3. PICK b : Repriced(b, a, q)
    BY DEF Repriced
  <2>4. IsArticle(b) /\ Numeric(b)
    BY <1>4, <2>1, <2>3, GivenPrice, NumericArticles
  <2>5. stall' = [stall EXCEPT ![p].cells[c] = b]
    BY <1>2, <1>3, <1>7, <2>2, <2>3 DEF Lock, Article, Repriced
  <2> QED
    BY <1>1, <1>4, <2>1, <2>4, <2>5, PricedOne
<1>8. CASE LockFails(p) \/ Delete(p)
  <2>1. PICK i : i = m.id
    OBVIOUS
  <2>2. Listed(p, i) /\ TakeOff(p, i)
    BY <1>2, <1>8, <2>1 DEF LockFails, Delete
  <2> QED
    BY <1>1, <2>2, PricedTakeOff
<1>9. CASE Unlocked(p)
  <2>1. c \in Filled(p)
    BY <1>2, <1>9 DEF Unlocked, IsAt
  <2>2. PICK b : Off(b, a)
    BY DEF Off
  <2>3. stall' = [stall EXCEPT ![p].cells[c] = b]
    BY <1>2, <1>3, <1>9, <2>2 DEF Unlocked, Article, Off
  <2> QED
    BY <1>1, <1>4, <1>5, <2>1, <2>2, <2>3, PricedOne
<1>10. CASE RegistBuy(p)
  <2>1. c \in Cell /\ m.kind \in Kind /\ stall[p] # NoStall /\ m.price \in Nat /\ m.n \in Nat
    BY <1>1, <1>2, <1>10 DEF OfOwner, RegistBuy, Handled, HasStall, Fair
  <2>2. PICK u : u = stall[p].cells /\ IsList(u) /\ \A d \in Cell : Numeric(u[d])
    BY <1>1, <2>1 DEF Stalls, IsStall, Priced, Article
  <2>3. PICK b : b = Wanted(m.kind, m.n, m.price)
    OBVIOUS
  <2>4. PICK w : w = ItemOf(0, m.kind, m.n) /\ w.kind \in Kind /\ w.n = m.n
    BY <2>1, Distinct
  <2>5. PICK z, t : z = 0 /\ t = m.price
    OBVIOUS
  <2>6. b = ArticleOf(w, z, t)
    BY <2>3, <2>4, <2>5 DEF Wanted
  <2>7. IsArticle(b) /\ Numeric(b)
    <3>1. IsArticle(b) /\ b.n = w.n
      BY <2>4, <2>6, NewArticle
    <3>2. b.price = t
      BY <2>6 DEF ArticleOf
    <3> QED
      BY <2>1, <2>4, <2>5, <3>1, <3>2 DEF Numeric
  <2>8. PICK v : Put(v, u, c, b)
    BY DEF Put
  <2>9. Differs(v, u, c, b)
    BY <2>1, <2>2, <2>7, <2>8, WithArticle
  <2>10. \A d \in Cell : Numeric(v[d])
    BY <2>2, <2>7, <2>9 DEF Differs
  <2>11. PICK y : y = Value(v)
    OBVIOUS
  <2>12. v = [stall[p].cells EXCEPT ![m.cell] = Wanted(m.kind, m.n, m.price)]
    BY <1>2, <2>2, <2>3, <2>8 DEF Put
  <2>13. stall' = [stall EXCEPT ![p].cells = v, ![p].total = y]
    BY <1>2, <1>10, <2>11, <2>12 DEF RegistBuy
  <2>14. PICK x : WithTotal(x, stall[p], v, y)
    BY DEF WithTotal
  <2>15. stall' = [stall EXCEPT ![p] = x]
    BY <1>1, <2>13, <2>14 DEF WithTotal, Stalls
  <2>16. x.cells = v
    BY <1>1, <2>1, <2>14 DEF WithTotal, Stalls, IsStall
  <2>17. Rearranged(p)
    BY <1>1, <1>10, RegistBuyKeeps
  <2> QED
    BY <1>1, <2>10, <2>15, <2>16, <2>17, PricedAll
<1>11. CASE RegistBuyFails(p)
  <2>1. CASE c \notin Filled(p)
    <3>1. stall' = stall
      BY <1>2, <1>11, <2>1 DEF RegistBuyFails
    <3> QED
      BY <1>1, <3>1 DEF Priced, Article
  <2>2. CASE c \in Filled(p)
    <3>1. PICK b : Off(b, a)
      BY DEF Off
    <3>2. stall' = [stall EXCEPT ![p].cells[c] = b]
      BY <1>2, <1>3, <1>11, <2>2, <3>1 DEF RegistBuyFails, Article, Off
    <3> QED
      BY <1>1, <1>4, <1>5, <2>2, <3>1, <3>2, PricedOne
  <2> QED
    BY <2>1, <2>2
<1>12. CASE Update(p)
  <2>1. c \in Filled(p)
    BY <1>2, <1>12 DEF Update
  <2>2. PICK b : On(b, a)
    BY DEF On
  <2>3. stall' = [stall EXCEPT ![p].cells[c] = b]
    BY <1>2, <1>3, <1>12, <2>2 DEF Update, Article, On
  <2> QED
    BY <1>1, <1>4, <1>5, <2>1, <2>2, <2>3, PricedOne
<1>13. CASE UpdateEnd(p)
  <2>1. stall[p] # NoStall /\ IsStall(stall[p])
    BY <1>1, <1>13 DEF UpdateEnd, Stalls
  <2>2. PICK u : u = stall[p].cells /\ IsList(u) /\ \A d \in Cell : Numeric(u[d])
    BY <1>1, <2>1 DEF IsStall, Priced, Article
  <2>3. PICK v : v = [d \in Cell |-> IF u[d] = NoArticle THEN NoArticle ELSE [u[d] EXCEPT !.lock = FALSE]]
    OBVIOUS
  <2>4. ASSUME NEW d \in Cell PROVE Numeric(v[d])
    <3>1. PICK y : y = u[d] /\ IsArticle(y) /\ Numeric(y)
      BY <2>2 DEF IsList
    <3>2. PICK b : Off(b, y)
      BY DEF Off
    <3>3. Numeric(b) /\ Numeric(NoArticle)
      BY <3>1, <3>2, NumericArticles
    <3>4. v[d] = IF y = NoArticle THEN NoArticle ELSE b
      BY <2>3, <3>1, <3>2 DEF Off
    <3> QED
      BY <3>3, <3>4
  <2>5. PICK x : WithList(x, stall[p], v)
    BY DEF WithList
  <2>6. stall' = [stall EXCEPT ![p] = x]
    BY <1>13, <2>2, <2>3, <2>5 DEF UpdateEnd, WithList
  <2>7. x.cells = v
    BY <2>1, <2>5 DEF WithList, IsStall
  <2>8. Rearranged(p)
    BY <1>1, <1>13, UpdateEndKeeps
  <2> QED
    BY <1>1, <2>4, <2>6, <2>7, <2>8, PricedAll
<1>14. CASE DeleteBuy(p)
  BY <1>1, <1>14, PricedUnwant DEF DeleteBuy
<1> QED
  BY <1>6, <1>7, <1>8, <1>9, <1>10, <1>11, <1>12, <1>13, <1>14 DEF ListStep

LEMMA PricedTrade ==
  ASSUME IInv, Goods, NEW p \in Player, TradeStep(p)
  PROVE  Priced'
<1>1. Stalls /\ Priced
  BY DEF IInv, Goods
<1>2. CASE BuyWhole(p)
  <2>1. PICK m, o, s, e : Purchase(p, m, o, s, e)
    BY <1>2, BuyIsPurchase
  <2>2. PICK i : i = Article(o, m.cell).id
    OBVIOUS
  <2>3. o \in Player /\ m.cell \in Filled(o) /\ TakeOff(o, i)
    BY <1>2, <2>1, <2>2 DEF Purchase, Trading, BuyWhole
  <2>4. Listed(o, i)
    BY <2>2, <2>3 DEF Listed
  <2> QED
    BY <1>1, <2>3, <2>4, PricedTakeOff
<1>3. CASE BuyPart(p)
  <2>1. PICK m, o, s, e : Purchase(p, m, o, s, e)
    BY <1>3, BuyIsPurchase
  <2>2. PICK c : c = m.cell
    OBVIOUS
  <2>3. o \in Player /\ c \in Filled(o) /\ c \in Cell /\ stall[o] # NoStall
    BY <1>1, <2>1, <2>2, Filling DEF Purchase, Trading
  <2>4. PICK a : a = Article(o, c)
    OBVIOUS
  <2>5. IsArticle(a) /\ a.kind # NoKind /\ Numeric(a)
    BY <1>1, <2>3, <2>4, Filling DEF Priced
  <2>6. m.n \in Nat /\ m.n < a.n
    BY <1>3, <2>1, <2>2, <2>4 DEF Purchase, Gives, BuyPart
  <2>7. PICK n \in Nat : n = a.n - m.n
    BY <2>5, <2>6 DEF Numeric
  <2>8. PICK b : Renumbered(b, a, n)
    BY DEF Renumbered
  <2>9. IsArticle(b) /\ Numeric(b)
    BY <2>5, <2>8, GivenNumber, NumericArticles
  <2>10. stall' = [stall EXCEPT ![o].cells[c] = b]
    BY <1>3, <2>1, <2>2, <2>4, <2>7, <2>8 DEF Purchase, BuyPart, Article, Renumbered
  <2> QED
    BY <1>1, <2>3, <2>9, <2>10, PricedOne
<1>4. CASE Sell(p)
  <2>1. PICK m, o, s, n, e : Sale(p, m, o, s, n, e)
    BY <1>4, SellIsSale
  <2>2. PICK c : c = m.cell
    OBVIOUS
  <2>3. o \in Player /\ c \in Filled(o) /\ c \in Cell /\ stall[o] # NoStall
    BY <1>1, <2>1, <2>2, Filling DEF Sale, Trading
  <2>4. PICK a : a = Article(o, c)
    OBVIOUS
  <2>5. IsArticle(a) /\ a.kind # NoKind /\ Numeric(a)
    BY <1>1, <2>3, <2>4, Filling DEF Priced
  <2>6. n \in Nat /\ n <= a.n
    BY <2>1, <2>2, <2>4 DEF Sale, Gives
  <2>7. stall' = [stall EXCEPT ![o] = IF n = a.n THEN Unwant(o, c)
                                      ELSE [stall[o] EXCEPT !.cells[c].n = @ - n]]
    BY <1>4, <2>1, <2>2, <2>4 DEF Sale, Sell
  <2>8. CASE n = a.n
    BY <1>1, <2>3, <2>7, <2>8, PricedUnwant
  <2>9. CASE n # a.n
    <3>1. PICK r \in Nat : r = a.n - n
      BY <2>5, <2>6 DEF Numeric
    <3>2. PICK b : Renumbered(b, a, r)
      BY DEF Renumbered
    <3>3. IsArticle(b) /\ Numeric(b)
      BY <2>5, <3>2, GivenNumber, NumericArticles
    <3>4. stall' = [stall EXCEPT ![o].cells[c] = b]
      BY <2>4, <2>7, <2>9, <3>1, <3>2 DEF Article, Renumbered
    <3> QED
      BY <1>1, <2>3, <3>3, <3>4, PricedOne
  <2> QED
    BY <2>8, <2>9
<1> QED
  BY <1>2, <1>3, <1>4 DEF TradeStep

LEMMA PricedSame ==
  ASSUME Priced, \A q \in Player : stall'[q] = stall[q] \/ stall'[q] = NoStall
                                     \/ (stall[q] # NoStall /\ stall'[q].cells = stall[q].cells)
  PROVE  Priced'
BY DEF Priced, Article, Numeric

LEMMA PricedNext ==
  ASSUME IInv, Goods, Next
  PROVE  Priced'
<1>1. Priced /\ Stalls
  BY DEF Goods, IInv
<1>2. ASSUME UNCHANGED stall PROVE Priced'
  BY <1>1, <1>2, PricedSame
<1>3. ASSUME SameLists PROVE Priced'
  <2>1. \A q \in Player : stall'[q] = stall[q] \/ (IsStall(stall[q]) /\ stall'[q].cells = stall[q].cells)
    BY <1>3 DEF SameLists
  <2>2. \A q \in Player : IsStall(stall[q]) => stall[q] # NoStall
    BY <1>1, Filling
  <2> QED
    BY <1>1, <2>1, <2>2, PricedSame
<1>4. ASSUME NEW p \in Player, DeleteStreetStall(p) PROVE Priced'
  BY <1>1, <1>4, StallsDeleted, PricedSame
<1>5. ASSUME NEW p \in Player, Ask(p) PROVE Priced'
  BY <1>2, <1>5, AskOnly
<1>6. ASSUME NEW p \in Player, OtherStep(p) PROVE Priced'
  <2>1. CASE Open(p)
    <3>1. /\ \A c \in Cell : stall'[p].cells[c] = NoArticle
          /\ \A q \in Player \ {p} : stall'[q] = stall[q]
      BY <2>1, OpenCase
    <3>2. Numeric(NoArticle)
      BY NoneIsArticle, NumericArticles
    <3>3. ASSUME NEW q \in Player, stall'[q] # NoStall, NEW c \in Cell PROVE Numeric(stall'[q].cells[c])
      BY <1>1, <3>1, <3>2, <3>3 DEF Priced, Article
    <3> QED
      BY <3>3 DEF Priced, Numeric, Article
  <2>2. CASE Close(p)
    BY <1>4, <2>2, CloseCase
  <2>3. CASE GuestIn(p)
    BY <1>3, <2>3, GuestInCase
  <2>4. CASE GuestOut(p)
    BY <1>3, <2>4, GuestOutCase DEF Leaves
  <2>5. CASE Die(p) \/ LogOut(p)
    <3>1. p \in online /\ UserLogOut(p)
      BY <2>5 DEF Die, LogOut
    <3> QED
      BY <1>2, <1>3, <1>4, <3>1, LogOutCases DEF Leaves, Deletes, Stays
  <2>6. CASE Move(p) \/ Refuse(p) \/ RegistBuyCrashes(p) \/ DieByPet(p) \/ Revive(p) \/ Earn(p)
    <3>1. UNCHANGED stall
      BY <2>6 DEF Move, Refuse, RegistBuyCrashes, DieByPet, Revive, Earn, stallVars
    <3> QED
      BY <1>2, <3>1
  <2> QED
    BY <1>6, <2>1, <2>2, <2>3, <2>4, <2>5, <2>6 DEF OtherStep
<1>7. ASSUME NEW r \in inserts, Inserted(r) PROVE Priced'
  <2>1. UNCHANGED stall
    BY <1>7 DEF Inserted, stallVars
  <2> QED
    BY <1>2, <2>1
<1> QED
  BY <1>5, <1>6, <1>7, Steps, PricedSteps, PricedTrade

-----------------------------------------------------------------------------
(* Items keep their kind and their numbers. *)

\* The database has a number that no item has.
LEMMA FreshIsFresh ==
  FreshId \in Nat /\ \A q \in Player, s \in Slot : inv[q][s] # NoItem => inv[q][s].id # FreshId
<1>1. PICK Y : Y = {y \in Player \X Slot : inv[y[1]][y[2]] # NoItem}
  OBVIOUS
<1>2. PICK f : f = [x \in Y |-> inv[x[1]][x[2]].id]
  OBVIOUS
<1>3. PICK U : U = {inv[x[1]][x[2]].id : x \in Y}
  OBVIOUS
<1>4. PICK c \in Nat : c = Cardinality(Player)
  BY StallAssumption, FS_CardinalityType
<1>5. IsFiniteSet(Slot) /\ Cardinality(Slot) = NSlots /\ NSlots \in Nat
  <2>1. NSlots \in Nat \ {0}
    BY StallAssumption
  <2>2. IsFiniteSet(1..NSlots) /\ Cardinality(1..NSlots) = NSlots
    BY <2>1, FS_Interval
  <2> QED
    BY <2>1, <2>2 DEF Slot
<1>6. PICK d \in Nat : d = NSlots * c /\ d = c * NSlots
  BY <1>4, <1>5
<1>7. IsFiniteSet(Player \X Slot) /\ Cardinality(Player \X Slot) = d
  BY <1>4, <1>5, <1>6, StallAssumption, FS_Product
<1>8. IsFiniteSet(Y) /\ Cardinality(Y) <= d
  BY <1>1, <1>7, FS_Subset
<1>9. f \in Surjection(Y, U)
  BY <1>2, <1>3 DEF Surjection
<1>10. IsFiniteSet(U) /\ Cardinality(U) <= Cardinality(Y)
  BY <1>8, <1>9, FS_Surjection
<1>11. Cardinality(U) \in Nat /\ Cardinality(Y) \in Nat
  BY <1>8, <1>10, FS_CardinalityType
<1>12. PICK W : W = 1..(d + 1)
  OBVIOUS
<1>13. Cardinality(W) = d + 1 /\ W \subseteq Nat
  <2>1. 1 \in Int /\ d + 1 \in Int /\ ~(1 > d + 1)
    OBVIOUS
  <2>2. Cardinality(1..(d + 1)) = (d + 1) - 1 + 1
    BY <2>1, FS_Interval
  <2> QED
    BY <1>12, <2>1, <2>2
<1>14. ~(W \subseteq U)
  <2>1. ASSUME W \in SUBSET U PROVE FALSE
    <3>1. Cardinality(W) <= Cardinality(U)
      BY <1>10, <2>1, FS_Subset
    <3> QED
      BY <1>8, <1>10, <1>11, <1>13, <3>1
  <2> QED
    BY <2>1
<1>15. PICK T : T = W \ U
  OBVIOUS
<1>16. T \in SUBSET Nat /\ T # {}
  BY <1>13, <1>14, <1>15
<1>17. FreshId = Min(T)
  BY <1>1, <1>3, <1>4, <1>6, <1>12, <1>15 DEF FreshId
<1>18. FreshId \in T
  BY <1>16, <1>17, LeastOf
<1>19. ASSUME NEW q \in Player, NEW s \in Slot, inv[q][s] # NoItem PROVE inv[q][s].id \in U
  <2>1. <<q, s>> \in Y
    BY <1>1, <1>19
  <2> QED
    BY <1>3, <2>1
<1> QED
  BY <1>15, <1>16, <1>18, <1>19

\* Nothing new, and nothing is lost.
LEMMA GivesKnown ==
  ASSUME IInv, Counted, NEW a, NEW s, NEW n, NEW b, NEW e, Gives(a, s, n, b, e), NEW i, NEW k
  PROVE  Known(i, k)' <=> Known(i, k)
<1>1. /\ a \in Player /\ b \in Player /\ a # b /\ s \in Slot /\ e \in Slot
      /\ inv[b][e] = NoItem /\ inv[a][s] # NoItem
  BY DEF Gives, IInv, Rest
<1>2. inv[a][s].kind # NoKind
  BY <1>1, Distinct DEF IInv, Items, IsItem
<1>3. CASE Whole(a, s, b, e)
  <2>1. /\ inv'[a][s] = NoItem /\ inv'[b][e] = inv[a][s]
        /\ \A r \in Player, t \in Slot : (r = a /\ t = s) \/ (r = b /\ t = e) \/ inv'[r][t] = inv[r][t]
    BY <1>3 DEF Whole, Elsewhere
  <2>2. Known(i, k)' => Known(i, k)
    BY <1>1, <2>1 DEF Known
  <2>3. Known(i, k) => Known(i, k)'
    BY <1>1, <2>1 DEF Known
  <2> QED
    BY <2>2, <2>3
<1>4. CASE Part(a, s, n, b, e)
  <2>1. PICK x, y : x = inv[a][s] /\ y = ItemOf(x.id, x.kind, x.n - n)
    OBVIOUS
  <2>2. y.id = x.id /\ y.kind = x.kind /\ y # NoItem
    BY <1>2, <2>1, Distinct
  <2>3. /\ inv'[a][s] = y
        /\ \A r \in Player, t \in Slot : (r = a /\ t = s) \/ inv'[r][t] = inv[r][t]
    BY <1>4, <2>1 DEF Part, Elsewhere
  <2>4. Known(i, k)' => Known(i, k)
    BY <1>1, <2>1, <2>2, <2>3 DEF Known
  <2>5. Known(i, k) => Known(i, k)'
    BY <1>1, <2>1, <2>2, <2>3 DEF Known
  <2> QED
    BY <2>4, <2>5
<1>5. Whole(a, s, b, e) \/ Part(a, s, n, b, e)
  <2>1. n \in Nat /\ n <= inv[a][s].n /\ inv[a][s].n \in Nat
    BY <1>1 DEF Gives, Counted
  <2> QED
    BY <2>1 DEF Gives
<1> QED
  BY <1>3, <1>4, <1>5

LEMMA GivesCounted ==
  ASSUME IInv, Counted, NEW a, NEW s, NEW n, NEW b, NEW e, Gives(a, s, n, b, e)
  PROVE  Counted'
<1> DEFINE Good(x) == /\ x.n \in Nat
                      /\ x # NoItem => x.n # 0 /\ (x.kind \notin Stackable => x.n = 1)
<1>1. /\ a \in Player /\ b \in Player /\ s \in Slot /\ e \in Slot
      /\ inv[a][s] # NoItem /\ n \in Nat \ {0}
  BY DEF Gives, IInv, Rest
<1>2. \A p \in Player, t \in Slot : Good(inv[p][t])
  BY DEF Counted
<1>3. Good(NoItem)
  BY DEF NoItem, ItemOf
<1>4. PICK x : x = inv[a][s] /\ Good(x) /\ x # NoItem /\ n <= x.n
  BY <1>1, <1>2 DEF Gives
<1>5. CASE n = x.n
  <2>1. Whole(a, s, b, e)
    BY <1>4, <1>5 DEF Gives
  <2>2. \A p \in Player, t \in Slot : Good(inv'[p][t])
    BY <1>1, <1>2, <1>3, <2>1 DEF Whole, Elsewhere
  <2>3. inserts' = inserts
    BY <2>1 DEF Whole
  <2> QED
    BY <2>2, <2>3 DEF Counted
<1>6. CASE n # x.n
  <2>1. n < x.n /\ x.kind \in Stackable /\ x.n - n \in Nat \ {0}
    BY <1>1, <1>4, <1>6
  <2>2. Part(a, s, n, b, e)
    BY <1>4, <2>1 DEF Gives
  <2>3. PICK y : y = ItemOf(x.id, x.kind, x.n - n)
    OBVIOUS
  <2>4. Good(y)
    BY <2>1, <2>3, Distinct
  <2>5. \A p \in Player, t \in Slot : Good(inv'[p][t])
    BY <1>1, <1>2, <1>4, <2>2, <2>3, <2>4 DEF Part, Elsewhere
  <2>6. PICK z : z = [who |-> b, slot |-> e, kind |-> x.kind, n |-> n]
    OBVIOUS
  <2>7. inserts' = inserts \cup {z} /\ z.n = n /\ z.kind = x.kind
    BY <1>4, <2>2, <2>6 DEF Part
  <2>8. IsFiniteSet(inserts') /\ \A r \in inserts' : r.n \in Nat \ {0} /\ r.kind \in Stackable
    BY <1>1, <2>1, <2>7, FS_AddElement DEF Counted
  <2> QED
    BY <2>5, <2>8 DEF Counted
<1> QED
  BY <1>5, <1>6

LEMMA TradeIs ==
  ASSUME IInv, Goods, NEW p \in Player, TradeStep(p)
  PROVE  \/ \E m, o, s, e : Purchase(p, m, o, s, e)
         \/ \E m, o, s, n, e : Sale(p, m, o, s, n, e)
BY BuyIsPurchase, SellIsSale DEF TradeStep

\* Of the other steps only a move touches items, and only money from elsewhere a purse.
LEMMA Quiet ==
  ASSUME IInv, NEW p \in Player, Ask(p) \/ ListStep(p) \/ OtherStep(p)
  PROVE  /\ ~Move(p) \/ Ask(p) \/ ListStep(p) => UNCHANGED <<inv, inserts>>
         /\ ~Earn(p) \/ Ask(p) \/ ListStep(p) => UNCHANGED gold
         /\ Move(p) \/ Earn(p) => UNCHANGED inserts
<1>1. CASE Ask(p)
  <2>1. UNCHANGED <<inv, inserts>>
    BY <1>1, AskOnly
  <2>2. ASSUME NEW m, Asks(p, m) PROVE UNCHANGED gold
    BY <2>2 DEF Asks
  <2>3. \E m : Asks(p, m)
    BY <1>1 DEF Ask, AskOpen, AskClose, AskOfArticle, AskOfWanted, AskGuestIn, AskGuestOut, AskBuy, AskSell, AskMove
  <2> QED
    BY <2>1, <2>2, <2>3
<1>2. CASE ListStep(p)
  <2>1. UNCHANGED <<inv, inserts>>
    BY <1>2, ListSteps
  <2>2. UNCHANGED gold
    BY <1>2 DEF ListStep, Regist, Lock, LockFails, Unlocked, Delete, RegistBuy, RegistBuyFails, Update,
                UpdateEnd, DeleteBuy
  <2> QED
    BY <2>1, <2>2
<1>3. CASE OtherStep(p)
  <2>1. Move(p) \/ Earn(p) => UNCHANGED inserts
    BY DEF Move, Earn, itemVars
  <2>2. ~Move(p) => UNCHANGED <<inv, inserts>>
    BY <1>3 DEF OtherStep, Open, Close, GuestIn, GuestOut, Refuse, RegistBuyCrashes, Die, DieByPet, Revive,
                LogOut, Earn, Handled, itemVars
  <2>3. ~Earn(p) => UNCHANGED gold
    BY <1>3 DEF OtherStep, Open, Close, GuestIn, GuestOut, Move, Refuse, RegistBuyCrashes, Die, DieByPet, Revive, LogOut
  <2> QED
    BY <1>1, <1>2, <2>1, <2>2, <2>3
<1> QED
  BY <1>1, <1>2, <1>3

LEMMA MoveKeeps ==
  ASSUME IInv, Counted, NEW p \in Player, Move(p)
  PROVE  Counted' /\ \A i, k : Known(i, k)' <=> Known(i, k)
<1>1. PICK s, t : s = asked[p].slot /\ t = asked[p].to
  OBVIOUS
<1>2. /\ s \in Slot /\ t \in Slot
      /\ inv'[p][s] = inv[p][t] /\ inv'[p][t] = inv[p][s]
      /\ \A q \in Player, u \in Slot : (q = p /\ u \in {s, t}) \/ inv'[q][u] = inv[q][u]
  BY <1>1, MoveItems
<1>3. \A q \in Player, u \in Slot : \E v \in Slot : inv'[q][u] = inv[q][v]
  BY <1>2
<1>4. \A q \in Player, u \in Slot : \E v \in Slot : inv[q][u] = inv'[q][v]
  BY <1>2
<1>5. inserts' = inserts
  BY DEF Move
<1>6. Counted'
  BY <1>3, <1>5 DEF Counted
<1>7. ASSUME NEW i, NEW k, Known(i, k) PROVE Known(i, k)'
  BY <1>4, <1>7 DEF Known
<1>8. ASSUME NEW i, NEW k, Known(i, k)' PROVE Known(i, k)
  BY <1>3, <1>8 DEF Known
<1> QED
  BY <1>6, <1>7, <1>8

\* The database inserts an item.
Inserts(r, x) ==
  /\ r.who \in online /\ r.who \in Player /\ r.slot \in Slot /\ inv[r.who][r.slot] = NoItem
  /\ x = ItemOf(FreshId, r.kind, r.n) /\ inv'[r.who][r.slot] = x
  /\ \A q \in Player, t \in Slot : (q = r.who /\ t = r.slot) \/ inv'[q][t] = inv[q][t]

LEMMA InsertedIs ==
  ASSUME IInv, NEW r \in inserts, Inserted(r)
  PROVE  /\ inserts' = inserts \ {r} /\ UNCHANGED <<online, gold, asked>>
         /\ (\E x : Inserts(r, x)) \/ (UNCHANGED inv /\ r.who \notin online)
<1>1. inserts' = inserts \ {r} /\ UNCHANGED <<online, gold, asked>>
  BY DEF Inserted
<1>2. CASE r.who \in online
  <2>1. PICK x : x = ItemOf(FreshId, r.kind, r.n)
    OBVIOUS
  <2>2. inv' = [inv EXCEPT ![r.who][r.slot] = x]
    BY <1>2, <2>1 DEF Inserted
  <2>3. r.who \in Player /\ r.slot \in Slot /\ DOMAIN inv = Player /\ \A q \in Player : DOMAIN inv[q] = Slot
    BY DEF IInv, Rest, Items
  <2>4. inv[r.who][r.slot] = NoItem
    BY <1>2 DEF IInv, Reserves
  <2>5. /\ inv'[r.who][r.slot] = x
        /\ \A q \in Player, t \in Slot : (q = r.who /\ t = r.slot) \/ inv'[q][t] = inv[q][t]
    BY <2>2, <2>3
  <2>6. Inserts(r, x)
    BY <1>2, <2>1, <2>3, <2>4, <2>5 DEF Inserts
  <2> QED
    BY <1>1, <2>6
<1>3. CASE r.who \notin online
  BY <1>1, <1>3 DEF Inserted
<1> QED
  BY <1>2, <1>3

LEMMA InsertedKeeps ==
  ASSUME IInv, Counted, NEW r \in inserts, Inserted(r)
  PROVE  /\ Counted' /\ \A i, k : Known(i, k) => Known(i, k)'
         /\ Named => Named'
<1>1. inserts' = inserts \ {r}
  BY InsertedIs
<1>2. IsFiniteSet(inserts') /\ \A q \in inserts' : q.n \in Nat \ {0} /\ q.kind \in Stackable
  BY <1>1, FS_Difference DEF Counted
<1>3. ASSUME NEW x, Inserts(r, x) PROVE Counted'
  <2>1. x.n = r.n /\ x.kind = r.kind /\ r.n \in Nat \ {0} /\ r.kind \in Stackable
    BY <1>3, Distinct DEF Inserts, Counted
  <2> QED
    BY <1>2, <1>3, <2>1 DEF Inserts, Counted
<1>4. ASSUME NEW x, Inserts(r, x), NEW i, NEW k PROVE Known(i, k) => Known(i, k)'
  BY <1>4 DEF Inserts, Known
<1>5. ASSUME NEW x, Inserts(r, x), Named PROVE Named'
  <2>1. ASSUME NEW i, NEW k, Known(i, k)' PROVE Known(i, k) \/ (i = FreshId /\ k = x.kind)
    BY <1>5, <2>1, Distinct DEF Inserts, Known
  <2>2. ASSUME NEW i, NEW k, Known(i, k) PROVE i # FreshId
    BY <2>2, FreshIsFresh DEF Known
  <2>3. ASSUME NEW i, NEW k, NEW l, Known(i, k)', Known(i, l)' PROVE k = l
    <3>1. Known(i, k) \/ (i = FreshId /\ k = x.kind)
      BY <2>1, <2>3
    <3>2. Known(i, l) \/ (i = FreshId /\ l = x.kind)
      BY <2>1, <2>3
    <3> QED
      BY <1>5, <2>2, <3>1, <3>2 DEF Named
  <2> QED
    BY <2>3 DEF Named
<1>6. ASSUME UNCHANGED inv PROVE /\ Counted' /\ \A i, k : Known(i, k)' <=> Known(i, k)
                                 /\ Named => Named'
  <2>1. Counted'
    BY <1>2, <1>6 DEF Counted
  <2>2. \A i, k : Known(i, k)' <=> Known(i, k)
    BY <1>6 DEF Known
  <2>3. Named => Named'
    BY <2>2 DEF Named
  <2> QED
    BY <2>1, <2>2, <2>3
<1>7. (\E x : Inserts(r, x)) \/ UNCHANGED inv
  BY InsertedIs
<1> QED
  BY <1>3, <1>4, <1>5, <1>6, <1>7

LEMMA ItemsKept ==
  ASSUME IInv, Goods, Next
  PROVE  Counted' /\ Named' /\ \A i, k : Known(i, k) => Known(i, k)'
<1>1. Counted /\ Named
  BY DEF Goods
<1>2. ASSUME \A i, k : Known(i, k)' <=> Known(i, k)
      PROVE  Named' /\ \A i, k : Known(i, k) => Known(i, k)'
  <2>1. Named'
    BY <1>1, <1>2 DEF Named
  <2> QED
    BY <1>2, <2>1
<1>3. ASSUME UNCHANGED <<inv, inserts>>
      PROVE  Counted' /\ \A i, k : Known(i, k)' <=> Known(i, k)
  BY <1>1, <1>3 DEF Counted, Known
<1>4. ASSUME NEW p \in Player, Ask(p) \/ ListStep(p) \/ OtherStep(p)
      PROVE  Counted' /\ \A i, k : Known(i, k)' <=> Known(i, k)
  <2>1. CASE Move(p)
    BY <1>1, <2>1, MoveKeeps
  <2>2. CASE ~Move(p)
    <3>1. UNCHANGED <<inv, inserts>>
      BY <1>4, <2>2, Quiet
    <3> QED
      BY <1>3, <3>1
  <2> QED
    BY <2>1, <2>2
<1>5. ASSUME NEW p \in Player, TradeStep(p)
      PROVE  Counted' /\ \A i, k : Known(i, k)' <=> Known(i, k)
  <2>1. PICK a, s, n, b, e : Gives(a, s, n, b, e)
    BY <1>5, TradeIs DEF Purchase, Sale
  <2>2. Counted'
    BY <1>1, <2>1, GivesCounted
  <2> QED
    BY <1>1, <2>1, <2>2, GivesKnown
<1>6. CASE \E p \in Player : Ask(p) \/ ListStep(p) \/ TradeStep(p) \/ OtherStep(p)
  BY <1>2, <1>4, <1>5, <1>6
<1>7. CASE \E r \in inserts : Inserted(r)
  BY <1>1, <1>7, InsertedKeeps
<1> QED
  BY <1>6, <1>7, Steps


-----------------------------------------------------------------------------
(* Purses keep within their limit. *)

LEMMA Earned ==
  ASSUME Purses, NEW p \in Player, Earn(p)
  PROVE  Purses' /\ \A q \in Player : gold'[q] >= gold[q]
<1>1. /\ gold \in [Player -> 0..MaxMoney] /\ MaxMoney \in Nat /\ gold[p] \in 0..MaxMoney
      /\ \A q \in Player : gold[q] \in 0..MaxMoney
  BY StallAssumption DEF Purses
<1>2. PICK z : z = AddMoney(gold[p], 1)
  OBVIOUS
<1>3. z \in 0..MaxMoney /\ z >= gold[p]
  <2>1. PICK T : T = {MaxMoney, gold[p] + 1}
    OBVIOUS
  <2>2. T \in SUBSET Nat /\ T # {} /\ MaxMoney \in T
    BY <1>1, <2>1
  <2>3. Min(T) \in T /\ \A y \in T : Min(T) <= y
    BY <2>2, LeastOf
  <2>4. z = Min(T)
    BY <1>2, <2>1 DEF AddMoney
  <2>5. z \in T /\ z <= MaxMoney
    BY <2>2, <2>3, <2>4
  <2> QED
    BY <1>1, <2>1, <2>2, <2>5
<1>4. gold' = [gold EXCEPT ![p] = z]
  BY <1>2 DEF Earn
<1>5. gold' \in [Player -> 0..MaxMoney]
  BY <1>1, <1>3, <1>4
<1>6. \A q \in Player : gold'[q] >= gold[q]
  BY <1>1, <1>3, <1>4
<1> QED
  BY <1>5, <1>6 DEF Purses

LEMMA PursesNext ==
  ASSUME IInv, Goods, Next
  PROVE  Purses'
<1>1. Purses
  BY DEF Goods
<1>2. ASSUME UNCHANGED gold PROVE Purses'
  BY <1>1, <1>2 DEF Purses
<1>3. ASSUME NEW p \in Player, TradeStep(p) PROVE Purses'
  <2>1. CASE \E m, o, s, e : Purchase(p, m, o, s, e)
    <3>1. PICK m, o, s, e : Purchase(p, m, o, s, e)
      BY <2>1
    <3>2. o \in Player /\ o # p /\ m.price * m.n <= gold[p] /\ Pay(p, o, m.price * m.n)
      BY <3>1 DEF Purchase, Trading
    <3>3. m.price \in Nat /\ m.n \in Nat
      BY <3>1 DEF Purchase, Goods, Fairly, Fair
    <3>4. m.price * m.n \in Nat
      BY <3>3
    <3> QED
      BY <1>1, <3>2, <3>4, Paid
  <2>2. CASE \E m, o, s, n, e : Sale(p, m, o, s, n, e)
    <3>1. PICK m, o, s, n, e : Sale(p, m, o, s, n, e)
      BY <2>2
    <3>2. o \in Player /\ o # p /\ m.price * n <= gold[o] /\ Pay(o, p, m.price * n)
      BY <3>1 DEF Sale, Trading
    <3>3. m.price \in Nat /\ n \in Nat
      BY <3>1 DEF Sale, Gives, Goods, Fairly, Fair
    <3>4. m.price * n \in Nat
      BY <3>3
    <3> QED
      BY <1>1, <3>2, <3>4, Paid
  <2> QED
    BY <1>3, <2>1, <2>2, TradeIs
<1>4. ASSUME NEW p \in Player, Ask(p) \/ ListStep(p) \/ OtherStep(p) PROVE Purses'
  <2>1. CASE Earn(p)
    BY <1>1, <2>1, Earned
  <2>2. CASE ~Earn(p)
    BY <1>2, <1>4, <2>2, Quiet
  <2> QED
    BY <2>1, <2>2
<1>5. ASSUME NEW r \in inserts, Inserted(r) PROVE Purses'
  BY <1>2, <1>5, InsertedIs
<1> QED
  BY <1>3, <1>4, <1>5, Steps

-----------------------------------------------------------------------------
(* A request keeps what it was made from. *)

FairlyAsks(p) == \E m : Fair(p, m) /\ Asks(p, m)

\* Of requests that name neither a price nor a trade nothing is to be shown.
LEMMA Silent ==
  ASSUME NEW p, NEW m, Asks(p, m), m.type \notin {"LOCK", "REGISTBUY", "BUY", "SELL"}
  PROVE  FairlyAsks(p)
BY DEF Fair, FairlyAsks

\* What may be asked for of a kind
LEMMA NumbersAre ==
  ASSUME NEW k, NEW v \in Nat, NEW n \in Numbers(k, v)
  PROVE  n \in Nat \ {0} /\ (k \notin Stackable => n = 1)
<1>1. CASE k \in Stackable
  <2>1. n \in 1..v
    BY <1>1 DEF Numbers
  <2> QED
    BY <1>1, <2>1
<1>2. CASE k \notin Stackable
  BY <1>2 DEF Numbers
<1> QED
  BY <1>1, <1>2

LEMMA AskBuyFair ==
  ASSUME IInv, Goods, NEW p \in Player, AskBuy(p)
  PROVE  FairlyAsks(p)
<1>1. PICK o : o = guestStall[p]
  OBVIOUS
<1>2. Stalls /\ Lists /\ Priced /\ guestStall \in [Player -> Player \cup {NoPlayer}]
  BY DEF IInv, Goods, Rest
<1>3. o \in Player /\ HasStall(o, "SELL")
  BY <1>1, <1>2 DEF AskBuy
<1>4. PICK c, a, n : /\ c \in Filled(o) /\ a = Article(o, c) /\ n \in Numbers(a.kind, a.n)
                     /\ Asks(p, [type |-> "BUY", owner |-> o, cell |-> c, id |-> a.id,
                                 kind |-> a.kind, n |-> n, price |-> a.price])
  BY <1>1 DEF AskBuy
<1>5. PICK m : m = [type |-> "BUY", owner |-> o, cell |-> c, id |-> a.id,
                    kind |-> a.kind, n |-> n, price |-> a.price]
  OBVIOUS
<1>6. m.type = "BUY" /\ m.id = a.id /\ m.kind = a.kind /\ m.n = n /\ m.price = a.price
  BY <1>5
<1>7. c \in Cell /\ stall[o] # NoStall /\ KindOf(o) = "SELL" /\ IsArticle(a) /\ a.kind # NoKind
  BY <1>2, <1>3, <1>4, Filling DEF HasStall
<1>8. a.price \in Nat /\ a.n \in Nat
  BY <1>2, <1>3, <1>4, <1>7 DEF Priced, Numeric
<1>9. a.kind \in Kind
  BY <1>7, Distinct DEF IsArticle
<1>10. n \in Nat \ {0} /\ (a.kind \notin Stackable => n = 1)
  BY <1>4, <1>8, NumbersAre
<1>11. Known(a.id, a.kind)
  <2>1. PICK s : s = a.slot /\ s \in Slot /\ inv[o][s] = ItemOf(a.id, a.kind, a.n)
    BY <1>2, <1>3, <1>4, <1>7 DEF Lists, Backed
  <2>2. inv[o][s].id = a.id /\ inv[o][s].kind = a.kind /\ inv[o][s] # NoItem
    BY <1>7, <2>1, Distinct
  <2> QED
    BY <1>3, <2>1, <2>2 DEF Known
<1>12. Fair(p, m)
  BY <1>6, <1>8, <1>9, <1>10, <1>11 DEF Fair
<1> QED
  BY <1>4, <1>5, <1>12 DEF FairlyAsks

LEMMA AskSellFair ==
  ASSUME IInv, Goods, NEW p \in Player, AskSell(p)
  PROVE  FairlyAsks(p)
<1>1. PICK o : o = guestStall[p]
  OBVIOUS
<1>2. Stalls /\ Priced /\ Counted /\ guestStall \in [Player -> Player \cup {NoPlayer}]
  BY DEF IInv, Goods, Rest
<1>3. o \in Player /\ HasStall(o, "BUY")
  BY <1>1, <1>2 DEF AskSell
<1>4. PICK c, s, a, n : /\ c \in Filled(o) /\ s \in Unlisted(p) /\ a = Article(o, c)
                        /\ inv[p][s].kind = a.kind /\ n \in Numbers(a.kind, inv[p][s].n)
                        /\ Asks(p, [type |-> "SELL", owner |-> o, cell |-> c, slot |-> s,
                                    kind |-> a.kind, n |-> n, price |-> a.price])
  BY <1>1 DEF AskSell
<1>5. PICK m : m = [type |-> "SELL", owner |-> o, cell |-> c, slot |-> s,
                    kind |-> a.kind, n |-> n, price |-> a.price]
  OBVIOUS
<1>6. m.type = "SELL" /\ m.slot = s /\ m.kind = a.kind /\ m.n = n /\ m.price = a.price
  BY <1>5
<1>7. c \in Cell /\ stall[o] # NoStall /\ IsArticle(a) /\ a.kind # NoKind
  BY <1>2, <1>3, <1>4, Filling DEF HasStall
<1>8. a.price \in Nat
  BY <1>2, <1>3, <1>4, <1>7 DEF Priced, Numeric
<1>9. a.kind \in Kind
  BY <1>7, Distinct DEF IsArticle
<1>10. s \in Slot /\ inv[p][s] # NoItem
  BY <1>4 DEF Unlisted
<1>11. inv[p][s].n \in Nat
  BY <1>2, <1>10 DEF Counted
<1>12. n \in Nat \ {0} /\ (a.kind \notin Stackable => n = 1)
  BY <1>4, <1>11, NumbersAre
<1>13. Fair(p, m)
  BY <1>4, <1>6, <1>8, <1>9, <1>10, <1>12 DEF Fair
<1> QED
  BY <1>4, <1>5, <1>13 DEF FairlyAsks

LEMMA AskFair ==
  ASSUME IInv, Goods, NEW p \in Player, Ask(p)
  PROVE  FairlyAsks(p)
<1>1. CASE AskOpen(p)
  <2>1. PICK k : Asks(p, [type |-> "OPEN", kind |-> k])
    BY <1>1 DEF AskOpen
  <2> QED
    BY <2>1, Silent
<1>2. CASE AskClose(p)
  <2>1. Asks(p, [type |-> "CLOSE"])
    BY <1>2 DEF AskClose
  <2> QED
    BY <2>1, Silent
<1>3. CASE AskGuestIn(p)
  <2>1. PICK o : Asks(p, [type |-> "GUESTIN", owner |-> o])
    BY <1>3 DEF AskGuestIn
  <2> QED
    BY <2>1, Silent
<1>4. CASE AskGuestOut(p)
  <2>1. PICK o : Asks(p, [type |-> "GUESTOUT", owner |-> o])
    BY <1>4 DEF AskGuestOut
  <2> QED
    BY <2>1, Silent
<1>5. CASE AskMove(p)
  <2>1. PICK s, k, t, l : Asks(p, [type |-> "MOVE", slot |-> s, kind |-> k, to |-> t, other |-> l])
    BY <1>5 DEF AskMove
  <2> QED
    BY <2>1, Silent
<1>6. CASE AskOfArticle(p)
  <2>1. CASE \E s, i : Asks(p, [type |-> "REGIST", slot |-> s, id |-> i])
    BY <2>1, Silent
  <2>2. CASE \E c, i, n : \E q \in Prices[p] :
               Asks(p, [type |-> "LOCK", cell |-> c, id |-> i, n |-> n, price |-> q])
    <3>1. PICK c, i, n, q, m : /\ q \in Prices[p] /\ Asks(p, m)
                               /\ m = [type |-> "LOCK", cell |-> c, id |-> i, n |-> n, price |-> q]
      BY <2>2
    <3>2. m.type = "LOCK" /\ m.price \in Nat
      <4>1. m.type = "LOCK" /\ m.price = q
        BY <3>1
      <4>2. q \in Nat
        BY <3>1, StallAssumption
      <4> QED
        BY <4>1, <4>2
    <3>3. Fair(p, m)
      BY <3>2 DEF Fair
    <3> QED
      BY <3>1, <3>3 DEF FairlyAsks
  <2>3. CASE \E c, i : Asks(p, [type |-> "UNLOCK", cell |-> c, id |-> i])
    BY <2>3, Silent
  <2>4. CASE \E i : Asks(p, [type |-> "DELETE", id |-> i])
    BY <2>4, Silent
  <2> QED
    BY <1>6, <2>1, <2>2, <2>3, <2>4 DEF AskOfArticle
<1>7. CASE AskOfWanted(p)
  <2>1. CASE \E c, k : \E n \in Numbers(k, MaxVolume), q \in Prices[p] :
               Asks(p, [type |-> "REGISTBUY", cell |-> c, kind |-> k, n |-> n, price |-> q])
    <3>1. PICK c, k, n, q, m :
            /\ n \in Numbers(k, MaxVolume) /\ q \in Prices[p] /\ Asks(p, m)
            /\ m = [type |-> "REGISTBUY", cell |-> c, kind |-> k, n |-> n, price |-> q]
      BY <2>1
    <3>2. m.type = "REGISTBUY" /\ m.price = q /\ m.n = n
      BY <3>1
    <3>3. q \in Nat /\ MaxVolume \in Nat
      BY <3>1, StallAssumption
    <3>4. n \in Nat
      BY <3>1, <3>3, NumbersAre
    <3>5. Fair(p, m)
      BY <3>2, <3>3, <3>4 DEF Fair
    <3> QED
      BY <3>1, <3>5 DEF FairlyAsks
  <2>2. CASE \E c : Asks(p, [type |-> "UPDATE", cell |-> c])
    BY <2>2, Silent
  <2>3. CASE Asks(p, [type |-> "UPDATEEND"])
    BY <2>3, Silent
  <2>4. CASE \E c : Asks(p, [type |-> "DELETEBUY", cell |-> c])
    BY <2>4, Silent
  <2> QED
    BY <1>7, <2>1, <2>2, <2>3, <2>4 DEF AskOfWanted
<1> QED
  BY <1>1, <1>2, <1>3, <1>4, <1>5, <1>6, <1>7, AskBuyFair, AskSellFair DEF Ask

\* A request is answered, or still has what it was made from.
LEMMA FairKept ==
  ASSUME IInv, Goods, Next, NEW q \in Player,
         asked'[q] = NoRequest \/
           (asked'[q] = asked[q] /\ \A t \in Slot : Free(q, t) /\ inv[q][t] # NoItem => inv'[q][t] = inv[q][t])
  PROVE  Fair(q, asked[q])'
<1>1. CASE asked'[q] = NoRequest
  BY <1>1 DEF Fair, NoRequest
<1>2. CASE /\ asked'[q] = asked[q]
           /\ \A t \in Slot : Free(q, t) /\ inv[q][t] # NoItem => inv'[q][t] = inv[q][t]
  <2>1. Fair(q, asked[q]) /\ OfItems(q)
    BY DEF Goods, Fairly, IInv, Requests
  <2>2. \A i, k : Known(i, k) => Known(i, k)'
    BY ItemsKept
  <2>3. PICK m : m = asked[q] /\ asked'[q] = m
    BY <1>2
  <2>4. ASSUME m.type = "SELL" PROVE inv'[q][m.slot] # NoItem /\ inv'[q][m.slot].kind = m.kind
    <3>1. m.slot \in Slot /\ Free(q, m.slot) /\ inv[q][m.slot] # NoItem /\ inv[q][m.slot].kind = m.kind
      BY <2>1, <2>3, <2>4 DEF Fair, OfItems
    <3> QED
      BY <1>2, <3>1
  <2>5. ASSUME m.type = "BUY" PROVE Known(m.id, m.kind)'
    BY <2>1, <2>2, <2>3, <2>5 DEF Fair
  <2>6. /\ m.type = "LOCK" => m.price \in Nat
        /\ m.type = "REGISTBUY" => m.price \in Nat /\ m.n \in Nat
        /\ m.type \in {"BUY", "SELL"} => m.price \in Nat /\ m.n \in Nat \ {0}
        /\ m.type \in {"BUY", "SELL"} => m.kind \in Kind /\ (m.kind \notin Stackable => m.n = 1)
    BY <2>1, <2>3 DEF Fair
  <2>7. Known(m.id, m.kind)' <=> Known(asked[q].id, asked[q].kind)'
    BY <2>3 DEF Known
  <2> HIDE DEF Known
  <2> QED
    BY <2>3, <2>4, <2>5, <2>6, <2>7 DEF Fair
<1> QED
  BY <1>1, <1>2

\* Whoever else has something to sell keeps it.
LEMMA GoodsOfOthers ==
  ASSUME IInv, Goods, NEW p \in Player, TradeStep(p), NEW q \in Player, q # p
  PROVE  \A t \in Slot : Free(q, t) /\ inv[q][t] # NoItem => inv'[q][t] = inv[q][t]
<1>1. ASSUME NEW a, NEW s, NEW n, NEW b, NEW e, Gives(a, s, n, b, e), NEW r \in Player, NEW t \in Slot
      PROVE  (r = a /\ t = s) \/ (r = b /\ t = e) \/ inv'[r][t] = inv[r][t]
  <2>1. n \in Nat /\ n <= inv[a][s].n /\ inv[a][s].n \in Nat
    BY <1>1 DEF Gives, IInv, Rest, Goods, Counted
  <2>2. Whole(a, s, b, e) \/ Part(a, s, n, b, e)
    BY <1>1, <2>1 DEF Gives
  <2> QED
    BY <1>1, <2>2 DEF Whole, Part, Elsewhere
<1>2. ASSUME NEW m, NEW o, NEW s, NEW e, Purchase(p, m, o, s, e), NEW t \in Slot, Free(q, t)
      PROVE  inv'[q][t] = inv[q][t]
  <2>1. Gives(o, s, m.n, p, e) /\ ~Free(o, s)
    BY <1>2 DEF Purchase
  <2>2. ~(q = o /\ t = s)
    BY <1>2, <2>1
  <2> QED
    BY <1>1, <2>1, <2>2
<1>3. ASSUME NEW m, NEW o, NEW s, NEW n, NEW e, Sale(p, m, o, s, n, e), NEW t \in Slot, inv[q][t] # NoItem
      PROVE  inv'[q][t] = inv[q][t]
  <2>1. Gives(p, s, n, o, e) /\ inv[o][e] = NoItem
    BY <1>3 DEF Sale, Gives
  <2>2. ~(q = o /\ t = e)
    BY <1>3, <2>1
  <2> QED
    BY <1>1, <2>1, <2>2
<1> QED
  BY <1>2, <1>3, TradeIs

\* Requests are answered one at a time.
LEMMA OtherAsked ==
  ASSUME NEW p \in Player, OtherStep(p)
  PROVE  Answered(p) \/ (asked' = asked /\ UNCHANGED inv)
<1>1. CASE Open(p) \/ Close(p) \/ GuestIn(p) \/ GuestOut(p) \/ Move(p) \/ Refuse(p)
  BY <1>1 DEF Open, Close, GuestIn, GuestOut, Move, Refuse, Handled, Answered
<1>2. CASE RegistBuyCrashes(p) \/ Die(p) \/ DieByPet(p) \/ Revive(p) \/ LogOut(p) \/ Earn(p)
  BY <1>2 DEF RegistBuyCrashes, Die, DieByPet, Revive, LogOut, Earn, Answered, itemVars
<1> QED
  BY <1>1, <1>2 DEF OtherStep

LEMMA FairlyNext ==
  ASSUME IInv, Goods, Next
  PROVE  Fairly'
<1>1. DOMAIN asked = Player
  BY DEF IInv, Requests
<1>2. ASSUME NEW p \in Player, Answered(p) PROVE asked'[p] = NoRequest /\ \A q \in Player \ {p} : asked'[q] = asked[q]
  BY <1>1, <1>2 DEF Answered
<1>3. ASSUME NEW p \in Player, Ask(p) PROVE Fairly'
  <2>1. PICK m : Fair(p, m) /\ Asks(p, m)
    BY <1>3, AskFair DEF FairlyAsks
  <2>2. asked' = [asked EXCEPT ![p] = m] /\ UNCHANGED inv
    BY <2>1 DEF Asks, itemVars
  <2>3. asked'[p] = m /\ \A q \in Player \ {p} : asked'[q] = asked[q]
    BY <1>1, <2>2
  <2>4. Fair(p, asked[p])'
    BY <2>1, <2>2, <2>3 DEF Fair, Known
  <2>5. ASSUME NEW q \in Player \ {p} PROVE Fair(q, asked[q])'
    BY <2>2, <2>3, FairKept
  <2> QED
    BY <2>4, <2>5 DEF Fairly
<1>4. ASSUME NEW p \in Player, ListStep(p) PROVE Fairly'
  <2>1. Answered(p) /\ UNCHANGED inv
    BY <1>4, ListSteps
  <2>2. ASSUME NEW q \in Player PROVE Fair(q, asked[q])'
    BY <1>2, <2>1, FairKept
  <2> QED
    BY <2>2 DEF Fairly
<1>5. ASSUME NEW p \in Player, TradeStep(p) PROVE Fairly'
  <2>1. Answered(p)
    BY <1>5, TradeGoes DEF Trading, TradeStep, BuyWhole, BuyPart, Sell, Handled, Answered
  <2>2. ASSUME NEW q \in Player PROVE Fair(q, asked[q])'
    BY <1>2, <1>5, <2>1, FairKept, GoodsOfOthers
  <2> QED
    BY <2>2 DEF Fairly
<1>6. ASSUME NEW p \in Player, OtherStep(p) PROVE Fairly'
  <2>1. CASE asked' = asked /\ UNCHANGED inv
    <3>1. ASSUME NEW q \in Player PROVE Fair(q, asked[q])'
      BY <2>1, FairKept
    <3> QED
      BY <3>1 DEF Fairly
  <2>2. CASE Answered(p)
    <3>1. ASSUME NEW q \in Player \ {p}, NEW t \in Slot PROVE inv'[q][t] = inv[q][t]
      <4>1. CASE Move(p)
        BY <4>1, MoveItems
      <4>2. CASE ~Move(p)
        BY <1>6, <4>2, Quiet
      <4> QED
        BY <4>1, <4>2
    <3>2. ASSUME NEW q \in Player PROVE Fair(q, asked[q])'
      BY <1>2, <2>2, <3>1, FairKept
    <3> QED
      BY <3>2 DEF Fairly
  <2> QED
    BY <1>6, <2>1, <2>2, OtherAsked
<1>7. ASSUME NEW r \in inserts, Inserted(r) PROVE Fairly'
  <2>1. asked' = asked
    BY <1>7, InsertedIs
  <2>2. ASSUME NEW q \in Player, NEW t \in Slot, inv[q][t] # NoItem PROVE inv'[q][t] = inv[q][t]
    BY <1>7, <2>2, InsertedIs DEF Inserts
  <2>3. ASSUME NEW q \in Player PROVE Fair(q, asked[q])'
    BY <2>1, <2>2, FairKept
  <2> QED
    BY <2>3 DEF Fairly
<1> QED
  BY <1>3, <1>4, <1>5, <1>6, <1>7, Steps

-----------------------------------------------------------------------------
(* The whole invariant *)

LEMMA InitGoods ==
  ASSUME Init
  PROVE  Goods
<1>1. inv = StartInv /\ gold = StartGold /\ inserts = {}
  BY DEF Init
<1>2. Purses
  BY <1>1, StallAssumption DEF Purses
<1>3. ASSUME NEW p \in Player, NEW s \in Slot
      PROVE  \/ inv[p][s] = NoItem
             \/ /\ inv[p][s] \in [id : Nat, kind : Kind, n : Nat \ {0}]
                /\ inv[p][s].kind # NoKind
  <2>1. NoItem = [id |-> 0, kind |-> NoKind, n |-> 0]
    BY DEF NoItem, ItemOf
  <2>2. StartInv[p][s] \in {[id |-> 0, kind |-> NoKind, n |-> 0]} \cup [id : Nat, kind : Kind, n : Nat \ {0}]
    BY StallAssumption DEF Slot
  <2> QED
    BY <1>1, <2>1, <2>2, Distinct
<1>4. ASSUME NEW p \in Player, NEW s \in Slot, NEW q \in Player, NEW t \in Slot, inv[p][s].kind # NoKind
      PROVE  /\ inv[q][t].kind # NoKind /\ inv[q][t].id = inv[p][s].id => p = q /\ s = t
             /\ inv[p][s].kind \notin Stackable => inv[p][s].n = 1
  BY <1>1, <1>4, StallAssumption DEF Slot
<1>5. Named
  <2>1. ASSUME NEW i, NEW k, NEW l, Known(i, k), Known(i, l) PROVE k = l
    <3>1. PICK p \in Player, s \in Slot : inv[p][s] # NoItem /\ inv[p][s].id = i /\ inv[p][s].kind = k
      BY <2>1 DEF Known
    <3>2. PICK q \in Player, t \in Slot : inv[q][t] # NoItem /\ inv[q][t].id = i /\ inv[q][t].kind = l
      BY <2>1 DEF Known
    <3>3. inv[p][s].kind # NoKind /\ inv[q][t].kind # NoKind
      BY <1>3, <3>1, <3>2
    <3>4. p = q /\ s = t
      BY <1>4, <3>1, <3>2, <3>3
    <3> QED
      BY <3>1, <3>2, <3>4
  <2> QED
    BY <2>1 DEF Named
<1>6. Counted
  <2>1. IsFiniteSet(inserts) /\ \A r \in inserts : r.n \in Nat \ {0} /\ r.kind \in Stackable
    BY <1>1, FS_EmptySet
  <2>2. ASSUME NEW p \in Player, NEW s \in Slot
        PROVE  /\ inv[p][s].n \in Nat
               /\ inv[p][s] # NoItem => inv[p][s].n # 0 /\ (inv[p][s].kind \notin Stackable => inv[p][s].n = 1)
    <3>1. NoItem.n = 0
      BY Distinct DEF NoItem
    <3> QED
      BY <1>3, <1>4, <3>1
  <2> QED
    BY <2>1, <2>2 DEF Counted
<1>7. Priced
  BY DEF Init, Priced
<1>8. Fairly
  BY DEF Init, Fairly, Fair, NoRequest
<1> QED
  BY <1>2, <1>5, <1>6, <1>7, <1>8 DEF Goods

LEMMA KeepsGoods ==
  ASSUME IInv, Goods, [Next]_vars
  PROVE  Goods'
<1>1. CASE Next
  BY <1>1, ItemsKept, PricedNext, PursesNext, FairlyNext DEF Goods
<1>2. CASE UNCHANGED vars
  <2>1. UNCHANGED <<inv, inserts, gold, asked, stall>>
    BY <1>2 DEF vars
  <2>2. Named' /\ Counted' /\ Priced' /\ Purses'
    BY <2>1 DEF Goods, Named, Known, Counted, Priced, Numeric, Article, Purses
  <2>3. Fairly'
    BY <2>1 DEF Goods, Fairly, Fair, Known
  <2> QED
    BY <2>2, <2>3 DEF Goods
<1> QED
  BY <1>1, <1>2

\* Through purchases, sales, moves and insertions, and whatever the owner changes
\* meanwhile, no item gets another's number, no cell an empty stack and no purse
\* more than its limit, and what a request was made from still holds of it:
\* CreateDupItem, SetMoney and the requests of a client.
THEOREM GoodsStaySound == Spec => [](IInv /\ Goods)
<1>1. Init => IInv /\ Goods
  BY InitIInv, InitGoods
<1>2. IInv /\ Goods /\ [Next]_vars => (IInv /\ Goods)'
  BY KeepsIInv, KeepsGoods
<1> QED
  BY <1>1, <1>2, PTL DEF Spec

-----------------------------------------------------------------------------
(* Trades go as shown *)

(* A player's purse and its goods are no less, and the goods no more. *)
Steady(p) == ~(gold'[p] < gold[p]) /\ \A k \in Kind : Held(p, k)' = Held(p, k)

\* Two cells change places.
LEMMA MoveSteady ==
  ASSUME IInv, Goods, NEW p \in Player, Move(p), NEW q \in Player
  PROVE  Steady(q)
<1>1. PICK s, t : s = asked[p].slot /\ t = asked[p].to
  OBVIOUS
<1>2. /\ s \in Slot /\ t \in Slot /\ s # t
      /\ inv'[p][s] = inv[p][t] /\ inv'[p][t] = inv[p][s]
      /\ \A r \in Player, u \in Slot : (r = p /\ u \in {s, t}) \/ inv'[r][u] = inv[r][u]
  BY <1>1, MoveItems
<1>3. UNCHANGED <<inserts, gold>>
  BY DEF Move
<1>4. ASSUME NEW k \in Kind PROVE InCells(inv'[q], k) = InCells(inv[q], k)
  <2>1. CASE q # p
    <3>1. \A u \in Slot : inv'[q][u] = inv[q][u]
      BY <1>2, <2>1
    <3> QED
      BY <3>1, CellsSame
  <2>2. CASE q = p
    <3>1. PICK I, J : I = inv[p] /\ J = inv'[p]
      OBVIOUS
    <3>2. Numbered(I)
      BY <3>1 DEF Numbered, Goods, Counted
    <3>3. /\ J[s] = I[t] /\ J[t] = I[s]
          /\ \A u \in Slot \ {s, t} : J[u] = I[u]
      BY <1>2, <3>1
    <3>4. PICK K : K = [u \in Slot |-> IF u = s THEN I[t] ELSE I[u]]
      OBVIOUS
    <3>5. K[s] = I[t] /\ K[t] = I[t] /\ \A u \in Slot \ {s} : K[u] = I[u]
      BY <1>2, <3>4
    <3>6. Numbered(K) /\ Numbered(J)
      BY <1>2, <3>2, <3>3, <3>5 DEF Numbered
    <3>7. InCells(K, k) = InCells(I, k) - Of(I[s], k) + Of(K[s], k)
      BY <1>2, <3>2, <3>5, <3>6, CellChanged
    <3>8. InCells(J, k) = InCells(K, k) - Of(K[t], k) + Of(J[t], k)
      <4>1. \A u \in Slot \ {t} : J[u] = K[u]
        BY <1>2, <3>3, <3>5
      <4> QED
        BY <1>2, <3>6, <4>1, CellChanged
    <3>9. Of(I[s], k) \in Nat /\ Of(I[t], k) \in Nat /\ InCells(I, k) \in Nat
      BY <1>2, <3>2, InCellsType DEF Of, Numbered
    <3>10. PICK x \in Nat, y \in Nat, i \in Nat : x = Of(I[s], k) /\ y = Of(I[t], k) /\ i = InCells(I, k)
      BY <3>9
    <3>11. InCells(K, k) = i - x + y /\ InCells(J, k) = InCells(K, k) - y + x
      BY <3>3, <3>5, <3>7, <3>8, <3>10
    <3>12. InCells(J, k) = i
      BY <3>11
    <3> QED
      BY <2>2, <3>1, <3>10, <3>12
  <2> QED
    BY <2>1, <2>2
<1>5. ASSUME NEW k \in Kind PROVE Held(q, k)' = Held(q, k)
  BY <1>3, <1>4, HeldIs, HeldThen
<1>6. ~(gold'[q] < gold[q])
  <2>1. gold[q] \in 0..MaxMoney
    BY DEF Goods, Purses
  <2> QED
    BY <1>3, <2>1, StallAssumption
<1> QED
  BY <1>5, <1>6 DEF Steady

\* What was on its way is in its cell.
LEMMA InsertedSteady ==
  ASSUME IInv, Goods, NEW r \in inserts, Inserted(r), NEW p \in online
  PROVE  Steady(p)
<1>1. p \in Player
  BY DEF IInv, Rest
<1>2. inserts' = inserts \ {r} /\ UNCHANGED gold
  BY InsertedIs
<1>3. Counted /\ Purses
  BY DEF Goods
<1>4. PICK N : N = inserts \ {r}
  OBVIOUS
<1>5. IsFiniteSet(N) /\ (\A q \in N : q.n \in Nat) /\ r.n \in Nat /\ r \notin N
  BY <1>3, <1>4, FS_Difference DEF Counted
<1>6. inserts = N \cup {r}
  BY <1>4
<1>7. ASSUME NEW k \in Kind
      PROVE  /\ Coming(N, p, k) \in Nat
             /\ Coming(inserts, p, k) = Coming(N, p, k) + IF r.who = p THEN Of(r, k) ELSE 0
  BY <1>5, <1>6, OneMoreComing
<1>8. Numbered(inv[p])
  BY <1>1, <1>3 DEF Numbered, Counted
<1>9. ASSUME NEW k \in Kind PROVE Held(p, k)' = Held(p, k)
  <2>1. PICK h \in Nat, g \in Nat : h = InCells(inv[p], k) /\ g = Coming(N, p, k)
    <3>1. InCells(inv[p], k) \in Nat /\ Coming(N, p, k) \in Nat
      BY <1>7, <1>8, InCellsType
    <3> QED
      BY <3>1
  <2>2. Held(p, k) = h + (g + IF r.who = p THEN Of(r, k) ELSE 0)
    BY <1>7, <2>1, HeldIs
  <2>3. Held(p, k)' = InCells(inv'[p], k) + g
    BY <1>2, <1>4, <2>1, HeldThen
  <2>4. CASE r.who # p
    <3>1. \A t \in Slot : inv'[p][t] = inv[p][t]
      BY <1>1, <2>4, InsertedIs DEF Inserts
    <3>2. InCells(inv'[p], k) = h
      BY <2>1, <3>1, CellsSame
    <3> QED
      BY <2>2, <2>3, <2>4, <3>2
  <2>5. CASE r.who = p
    <3>1. PICK x : Inserts(r, x)
      BY <2>5, InsertedIs
    <3>2. PICK s : s = r.slot
      OBVIOUS
    <3>3. /\ s \in Slot /\ inv[p][s] = NoItem /\ inv'[p][s] = x /\ x.kind = r.kind /\ x.n = r.n
          /\ \A t \in Slot \ {s} : inv'[p][t] = inv[p][t]
      BY <1>1, <2>5, <3>1, <3>2, Distinct DEF Inserts
    <3>4. Numbered(inv'[p])
      BY <1>5, <1>8, <3>3 DEF Numbered
    <3>5. InCells(inv'[p], k) = h - Of(inv[p][s], k) + Of(inv'[p][s], k)
      BY <1>8, <2>1, <3>3, <3>4, CellChanged
    <3>6. Of(inv[p][s], k) = 0
      BY <3>3, Distinct DEF Of, NoItem
    <3>7. Of(inv'[p][s], k) = Of(r, k)
      BY <3>3 DEF Of
    <3>8. PICK y \in Nat : y = Of(r, k)
      <4>1. Of(r, k) \in Nat
        BY <1>5 DEF Of
      <4> QED
        BY <4>1
    <3>9. InCells(inv'[p], k) = h - 0 + y
      BY <3>5, <3>6, <3>7, <3>8
    <3>10. Held(p, k) = h + (g + y) /\ Held(p, k)' = (h - 0 + y) + g
      BY <2>2, <2>3, <2>5, <3>8, <3>9
    <3> QED
      BY <3>10
  <2> QED
    BY <2>4, <2>5
<1>10. ~(gold'[p] < gold[p])
  <2>1. gold[p] \in 0..MaxMoney
    BY <1>1, <1>3 DEF Purses
  <2> QED
    BY <1>2, <2>1, StallAssumption
<1> QED
  BY <1>9, <1>10 DEF Steady

LEMMA StepsSteady ==
  ASSUME IInv, Goods, NEW p \in Player, Ask(p) \/ ListStep(p) \/ OtherStep(p), NEW q \in Player
  PROVE  Steady(q)
<1>1. CASE Move(p)
  BY <1>1, MoveSteady
<1>2. CASE ~Move(p)
  <2>1. UNCHANGED <<inv, inserts>>
    BY <1>2, Quiet
  <2>2. \A k \in Kind : Held(q, k)' = Held(q, k)
    BY <2>1, HeldIs, HeldThen
  <2>3. gold[q] \in 0..MaxMoney /\ MaxMoney \in Nat
    BY StallAssumption DEF Goods, Purses
  <2>4. CASE Earn(p)
    <3>1. gold'[q] >= gold[q] /\ gold'[q] \in 0..MaxMoney
      BY <2>4, Earned DEF Goods, Purses
    <3>2. ~(gold'[q] < gold[q])
      BY <2>3, <3>1
    <3> QED
      BY <2>2, <3>2 DEF Steady
  <2>5. CASE ~Earn(p)
    <3>1. UNCHANGED gold
      BY <2>5, Quiet
    <3>2. ~(gold'[q] < gold[q])
      BY <2>3, <3>1
    <3> QED
      BY <2>2, <3>2 DEF Steady
  <2> QED
    BY <2>4, <2>5
<1> QED
  BY <1>1, <1>2

(* The request that a trade carries out *)
Carried(g) == LET m == asked[g] IN
  /\ asked'[g] = NoRequest
  /\ \/ /\ m.type = "BUY"
        /\ Exchanged(m.owner, g, m.kind, m.n, m.price)
        /\ m.kind \in Stackable \/ \E s \in Slot : inv'[g][s] = ItemOf(m.id, m.kind, 1)
     \/ /\ m.type = "SELL"
        /\ \E n \in 1..m.n : Exchanged(g, m.owner, m.kind, n, m.price)

LEMMA PurchaseCarried ==
  ASSUME IInv, Goods, NEW p \in Player, NEW m, NEW o, NEW s, NEW e, Purchase(p, m, o, s, e)
  PROVE  Carried(p)
<1>1. /\ m = asked[p] /\ m.type = "BUY" /\ o = m.owner /\ Answered(p) /\ Gives(o, s, m.n, p, e)
      /\ o \in Player
  BY DEF Purchase, Trading
<1>2. Counted /\ Purses /\ Fair(p, asked[p]) /\ DOMAIN asked = Player
  BY DEF Goods, Fairly, IInv, Requests
<1>3. asked'[p] = NoRequest
  BY <1>1, <1>2 DEF Answered
<1>4. PICK x : x = inv[o][s] /\ x = ItemOf(m.id, m.kind, x.n)
  BY DEF Purchase
<1>5. x.kind = m.kind /\ s \in Slot /\ e \in Slot /\ x # NoItem
  BY <1>1, <1>4, Distinct DEF Gives
<1>6. PICK q \in Nat, n \in Nat : q = m.price /\ n = m.n /\ n # 0 /\ (m.kind \notin Stackable => n = 1)
  <2>1. asked[p].type \in {"BUY", "SELL"}
    BY <1>1
  <2>2. /\ asked[p].price \in Nat /\ asked[p].n \in Nat \ {0}
        /\ asked[p].kind \notin Stackable => asked[p].n = 1
    BY <1>2, <2>1 DEF Fair
  <2> QED
    BY <1>1, <2>2
<1>7. q * n <= gold[p] /\ gold[o] + q <= MaxMoney /\ Pay(p, o, q * n)
  BY <1>6 DEF Purchase
<1>8. n > 1 \/ gold[o] + q * n <= MaxMoney
  <2>1. CASE n = 1
    <3>1. q * n = q
      BY <2>1, Products
    <3> QED
      BY <1>7, <3>1
  <2>2. CASE n # 1
    BY <1>6, <2>2
  <2> QED
    BY <2>1, <2>2
<1>9. Exchanged(o, p, m.kind, n, q)
  <2>1. Gives(o, s, n, p, e) /\ inv[o][s].kind = m.kind
    BY <1>1, <1>4, <1>5, <1>6
  <2> QED
    BY <1>2, <1>7, <1>8, <2>1, GivesExchanged
<1>10. ASSUME m.kind \notin Stackable PROVE inv'[p][e] = ItemOf(m.id, m.kind, 1)
  <2>1. n = 1 /\ x.n = 1
    BY <1>1, <1>2, <1>4, <1>5, <1>6, <1>10 DEF Counted
  <2>2. Whole(o, s, p, e)
    BY <1>1, <1>4, <1>6, <2>1 DEF Gives
  <2>3. inv'[p][e] = x
    BY <1>4, <2>2 DEF Whole
  <2> QED
    BY <1>4, <2>1, <2>3
<1>11. Exchanged(m.owner, p, m.kind, m.n, m.price)
  BY <1>1, <1>6, <1>9
<1>12. m.kind \in Stackable \/ \E t \in Slot : inv'[p][t] = ItemOf(m.id, m.kind, 1)
  BY <1>5, <1>10
<1> HIDE DEF Exchanged
<1> QED
  BY <1>1, <1>3, <1>11, <1>12 DEF Carried

LEMMA SaleCarried ==
  ASSUME IInv, Goods, NEW p \in Player, NEW m, NEW o, NEW s, NEW n, NEW e, Sale(p, m, o, s, n, e)
  PROVE  Carried(p)
<1>1. /\ m = asked[p] /\ m.type = "SELL" /\ o = m.owner /\ Answered(p) /\ Gives(p, s, n, o, e)
      /\ inv[p][s].kind = m.kind /\ n \in 1..m.n
  BY DEF Sale, Trading
<1>2. Counted /\ Purses /\ Fair(p, asked[p]) /\ DOMAIN asked = Player
  BY DEF Goods, Fairly, IInv, Requests
<1>3. asked'[p] = NoRequest
  BY <1>1, <1>2 DEF Answered
<1>4. PICK q \in Nat : q = m.price
  <2>1. asked[p].type \in {"BUY", "SELL"}
    BY <1>1
  <2>2. asked[p].price \in Nat
    BY <1>2, <2>1 DEF Fair
  <2> QED
    BY <1>1, <2>2
<1>5. q * n <= gold[o] /\ gold[p] + q * n <= MaxMoney /\ Pay(o, p, q * n)
  BY <1>4 DEF Sale
<1>6. Exchanged(p, o, m.kind, n, q)
  BY <1>1, <1>2, <1>5, GivesExchanged
<1>7. Exchanged(p, m.owner, m.kind, n, m.price)
  BY <1>1, <1>4, <1>6
<1> QED
  BY <1>1, <1>3, <1>7 DEF Carried

LEMMA NextAsShown ==
  ASSUME IInv, Goods, Next, NEW p \in online, ~Steady(p)
  PROVE  \E g \in Player : Carried(g)
<1>1. p \in Player
  BY DEF IInv, Rest
<1>2. PICK g \in Player : TradeStep(g)
  BY <1>1, Steps, StepsSteady, InsertedSteady
<1>3. Carried(g)
  BY <1>2, TradeIs, PurchaseCarried, SaleCarried
<1> QED
  BY <1>3

\* Nobody gets or loses an item, or pays, but by a request to buy or to sell that
\* is carried out as its guest saw the article when it asked: BuyItem, BuyDupItem,
\* SellItem and SellDupItem, whatever has come between the request and its
\* handling, for any number of players, kinds, cells and prices.
THEOREM TradesGoAsShown == Spec => TradeAsShown
<1>1. ASSUME IInv, Goods, [Next]_vars
      PROVE  [\A p \in online \cap online' :
               (gold'[p] < gold[p] \/ \E k \in Kind : Held(p, k)' # Held(p, k)) =>
                 \E g \in Player : Carried(g)]_vars
  <2>1. CASE Next
    <3>1. ASSUME NEW p \in online, gold'[p] < gold[p] \/ \E k \in Kind : Held(p, k)' # Held(p, k)
          PROVE  ~Steady(p)
      BY <3>1 DEF Steady
    <3>2. ASSUME NEW p \in online, gold'[p] < gold[p] \/ \E k \in Kind : Held(p, k)' # Held(p, k)
          PROVE  \E g \in Player : Carried(g)
      BY <1>1, <2>1, <3>1, <3>2, NextAsShown
    <3> QED
      BY <3>2
  <2>2. CASE UNCHANGED vars
    BY <2>2
  <2> QED
    BY <1>1, <2>1, <2>2
<1> QED
  BY <1>1, GoodsStaySound, PTL DEF Spec, TradeAsShown, Carried
=============================================================================
