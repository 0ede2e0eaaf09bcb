-------------------------------- MODULE Radix --------------------------------
(* The radix tree of the routing table (radix.c).  A key is the set of the *)
(* positions of its one bits in 0..(W - 1), a mask likewise; a route is    *)
(* its key and mask and names the memory of its entry, a leaf and an inner *)
(* node that may serve anywhere in the tree.  Masks are equal if they are  *)
(* the same pointer (rn_addmask() keeps one copy), so the tree of masks is *)
(* left out; whole keys are compared where the code skips equal bytes.     *)
EXTENDS Integers, Sequences, SequencesExt, FiniteSets, FiniteSetsExt
CONSTANTS
  W,           \* the bits of an address
  Masks,       \* the masks of net routes
  MaxRoutes    \* routes in the table at a time
VARIABLES
  rn,      \* the tree: [leaf, inner, cell], of nodes and of radix_masks
  table,   \* history: the routes added and not deleted
  lost     \* history: of them, those whose mask or place was lost
vars == <<rn, table, lost>>

NONE == {-1}
NULL == <<>>
Keys == SUBSET (0..(W - 1))
Routes == {<<k, m>> \in Keys \X (Masks \cup {NONE}) : m = NONE \/ k \subseteq m}

(* The leaves of rnh_nodes, whose keys are rn_zeros and rn_ones; behind an *)
(* address come zeros, so no address is rn_ones.                           *)
ZERO == <<{}, {-2}>>
ONE == <<0..W, {-2}>>
Root(n) == n \in {ZERO, ONE}
In(r) == <<r[1], r[2], "inner">>
TOP == In(ZERO)
IsLeaf(n) == Len(n) = 2
Key(n) == n[1]
Mask(n) == IF Root(n) THEN NONE ELSE n[2]

(* The first bit that is not in the mask; none comes before. *)
Index(m) == IF m = {} THEN -1 ELSE Min((0..W) \ m)
rn_refines(m, n) == n \subseteq m /\ n # m

Child(s, n, v) == IF s.inner[n].b \in v THEN s.inner[n].r ELSE s.inner[n].l
RECURSIVE rn_search(_, _, _)
rn_search(s, v, n) == IF IsLeaf(n) THEN n ELSE rn_search(s, v, Child(s, n, v))

(* The leaves with one key. *)
RECURSIVE Chain(_, _)
Chain(s, n) == IF n = NULL THEN <<>> ELSE <<n>> \o Chain(s, s.leaf[n].dup)

Parent(s, n) == IF IsLeaf(n) THEN s.leaf[n].p ELSE s.inner[n].p
SetParent(s, n, p) ==
  IF IsLeaf(n) THEN [s EXCEPT !.leaf[n].p = p] ELSE [s EXCEPT !.inner[n].p = p]
SetChild(s, p, old, new) ==
  IF s.inner[p].l = old THEN [s EXCEPT !.inner[p].l = new] ELSE [s EXCEPT !.inner[p].r = new]
Sibling(s, t, n) == IF s.inner[t].r = n THEN s.inner[t].l ELSE s.inner[t].r
Add(f, x, v) == [y \in DOMAIN f \cup {x} |-> IF y = x THEN v ELSE f[y]]
Drop(f, x) == [y \in DOMAIN f \ {x} |-> f[y]]

(* The highest ancestor whose bit is not before the index of a mask. *)
RECURSIVE Highest(_, _, _)
Highest(s, x, b) ==
  IF x = TOP \/ b > s.inner[s.inner[x].p].b THEN x ELSE Highest(s, s.inner[x].p, b)

(* The leaf rn_match() returns for an address, NULL if none: the leaf      *)
(* itself, a net route with its key, or one that a mask on the way up      *)
(* leads to.                                                               *)
Masked(s, v, n, c) ==
  LET m == s.cell[c].mask
      x == rn_search(s, v \cap m, n)
  IN  SelectSeq(Chain(s, x), LAMBDA y : Mask(y) = m /\ Key(y) = v \cap m)
RECURSIVE Upwards(_, _, _)
Upwards(s, v, n) ==
  LET found == FlattenSeq([i \in DOMAIN s.inner[n].mk |-> Masked(s, v, n, s.inner[n].mk[i])])
  IN  IF found # <<>> THEN Head(found)
      ELSE IF n = TOP THEN NULL ELSE Upwards(s, v, s.inner[n].p)
rn_match(s, v) ==
  LET t == rn_search(s, v, TOP)
      nets == SelectSeq(Chain(s, t), LAMBDA y : Mask(y) # NONE /\ v \cap Mask(y) = Key(y))
  IN  IF Key(t) = v THEN IF Root(t) THEN s.leaf[t].dup ELSE t
      ELSE IF nets # <<>> THEN Head(nets) ELSE Upwards(s, v, s.leaf[t].p)

(* rn_inithead() *)
Empty ==
  [leaf |-> [n \in {ZERO, ONE} |-> [p |-> TOP, dup |-> NULL, mk |-> 0]],
   inner |-> [n \in {TOP} |-> [b |-> 0, l |-> ZERO, r |-> ONE, p |-> TOP, mk |-> <<>>]],
   cell |-> [c \in {} |-> 0]]

(* MKGet(); a cell whose last pointer is gone is of no more interest. *)
Fresh(s) == Min((1..(Cardinality(DOMAIN s.cell) + 1)) \ DOMAIN s.cell)
Used(s) == {s.leaf[n].mk : n \in DOMAIN s.leaf}
           \cup UNION {ToSet(s.inner[n].mk) : n \in DOMAIN s.inner}
Collect(s) == [s EXCEPT !.cell = [c \in DOMAIN @ \cap Used(s) |-> @[c]]]

(* A new key: the inner node goes where the key leaves the others. *)
RECURSIVE Above(_, _, _, _)
Above(s, v, p, b) ==
  LET x == Child(s, p, v)
  IN  IF IsLeaf(x) \/ s.inner[x].b >= b THEN p ELSE Above(s, v, x, b)
NewKey(s, r) ==
  LET v == Key(r)
      k == Key(rn_search(s, v, TOP))
      b == Min((k \ v) \cup (v \ k))
      p == Above(s, v, TOP, b)
      x == Child(s, p, v)
      pair == [b |-> b, l |-> IF b \in v THEN x ELSE r, r |-> IF b \in v THEN r ELSE x,
               p |-> p, mk |-> <<>>]
      new == [s EXCEPT !.leaf = Add(@, r, [p |-> In(r), dup |-> NULL, mk |-> 0]),
                       !.inner = Add(@, In(r), pair)]
  IN  SetParent(SetChild(new, p, x, In(r)), x, In(r))

(* Another route with the key: before the head of the chain if its mask is *)
(* more specific, else behind the first entry that is less specific, or    *)
(* behind all.  Refused if it is there: <<>>.                              *)
Stops(r, y) == Mask(r) = NONE \/ (Mask(y) # NONE /\ rn_refines(Mask(r), Mask(y)))
Dupedkey(s, r, c) ==
  LET at == {i \in DOMAIN c : Mask(c[i]) = Mask(r) \/ Stops(r, c[i])}
      i == IF at = {} THEN Len(c) ELSE Min(at)
      p == s.leaf[c[1]].p
      first == [s EXCEPT !.leaf = Add(@, r, [p |-> p, dup |-> c[1], mk |-> 0])]
      later == [s EXCEPT !.leaf = Add([@ EXCEPT ![c[i]].dup = r], r,
                                      [p |-> NULL, dup |-> s.leaf[c[i]].dup, mk |-> 0])]
  IN  IF Mask(c[i]) = Mask(r) THEN <<>>
      ELSE IF at # {} /\ i = 1 THEN <<SetChild(first, p, c[1], r), r, {}>>
      ELSE <<later, c[1], IF at # {} THEN {r} ELSE {}>>
SameKey(s, r) == Dupedkey(s, r, Chain(s, rn_search(s, Key(r), TOP)))

(* "Promote general routes from below": masks of the other side of t that  *)
(* hold for all of t.  What t had before is lost.                          *)
Promote_LeafOnly(s, t, x) ==
  LET c == Fresh(s)
  IN  IF IsLeaf(x) /\ Mask(x) # NONE /\ Index(Mask(x)) <= s.inner[t].b /\ s.leaf[x].mk = 0
      THEN [s EXCEPT !.cell = Add(@, c, [mask |-> Mask(x), refs |-> 0]),
                     !.leaf[x].mk = c, !.inner[t].mk = <<c>>]
      ELSE s

Promote(s, t, x) ==
  LET b == s.inner[t].b
      c == Fresh(s)
      mk == s.inner[x].mk
      up == {i \in DOMAIN mk : Index(s.cell[mk[i]].mask) <= b}
      n == IF up = {} THEN Len(mk) + 1 ELSE Min(up)
  IN  IF IsLeaf(x)
      THEN IF Mask(x) # NONE /\ Index(Mask(x)) <= b /\ s.leaf[x].mk = 0
           THEN [s EXCEPT !.cell = Add(@, c, [mask |-> Mask(x), refs |-> 0]),
                          !.leaf[x].mk = c, !.inner[t].mk = <<c>>]
           ELSE s
      ELSE IF mk # <<>>
           THEN [s EXCEPT !.inner[x].mk = SubSeq(mk, 1, n - 1),
                          !.inner[t].mk = SubSeq(mk, n, Len(mk))]
           ELSE s

(* "Add new route to highest possible ancestor's list", by index, the more *)
(* specific first.                                                         *)
Annotate(s, r, x) ==
  LET mk == s.inner[x].mk
      m(i) == s.cell[mk[i]].mask
      same == {i \in DOMAIN mk : m(i) = Mask(r)}
      at == {i \in DOMAIN mk : \/ Index(m(i)) < Index(Mask(r))
                               \/ Index(m(i)) = Index(Mask(r)) /\ rn_refines(Mask(r), m(i))}
      n == IF at = {} THEN Len(mk) + 1 ELSE Min(at)
      old == {i \in same : i < n}
      c == IF old = {} THEN Fresh(s) ELSE mk[Min(old)]
  IN  IF old # {}
      THEN [s EXCEPT !.cell[c].refs = @ + 1, !.leaf[r].mk = c]
      ELSE [s EXCEPT !.cell = Add(@, c, [mask |-> Mask(r), refs |-> 0]),
                     !.inner[x].mk = InsertAt(@, n, c), !.leaf[r].mk = c]

(* The tree with the route, and the routes whose mask or place was lost:   *)
(* `in' is the tree with the leaf, its head and what that lost; t is the   *)
(* parent, x the other side, s2 what Promote() makes of it.                *)
Outcome(in, t, x, s2, s3) ==
  LET wiped == ToSet(in[1].inner[t].mk) \ ToSet(s2.inner[t].mk)
      behind == IF IsLeaf(x) THEN ToSet(Tail(Chain(s2, x))) ELSE {}
  IN  <<Collect(s3),
        in[3] \cup {n \in DOMAIN s3.leaf : s3.leaf[n].mk \in wiped}
              \cup {n \in behind : /\ s3.leaf[n].mk = 0 /\ Mask(n) # NONE
                                   /\ Index(Mask(n)) <= s2.inner[t].b}>>
OnTree(in, r, t, x, s2) ==
  LET b == Index(Mask(r))
  IN  Outcome(in, t, x, s2, IF Mask(r) = NONE \/ b > s2.inner[t].b THEN s2
                            ELSE Annotate(s2, r, Highest(s2, t, b)))
Placed(in, r) ==
  LET t == in[1].leaf[in[2]].p
      x == Sibling(in[1], t, in[2])
  IN  IF in = <<>> THEN <<>> ELSE OnTree(in, r, t, x, Promote(in[1], t, x))
rn_addroute(s, r) ==
  LET dup == Key(rn_search(s, Key(r), TOP)) = Key(r)
  IN  Placed(IF dup THEN SameKey(s, r) ELSE <<NewKey(s, r), r, {}>>, r)

(* The mask of a route leaves the list it is in, with its last route. *)
Unannotate(s, tt, head) ==
  LET c == s.leaf[tt].mk
      t == s.leaf[head].p
      b == Index(Mask(tt))
      x == Highest(s, t, b)
      s2 == [s EXCEPT !.cell[c].refs = @ - 1]
  IN  CASE Mask(tt) = NONE \/ c = 0 -> s
        [] Mask(tt) # NONE /\ c # 0 /\ (s2.cell[c].refs >= 0 \/ b > s.inner[t].b) -> s2
        [] OTHER -> [s2 EXCEPT !.inner[x].mk = SelectSeq(@, LAMBDA y : y # c)]

(* An inner node in the memory of `from', if any, goes on in that of `to'. *)
Move(s, from, to) ==
  LET n == s.inner[from]
      s2 == [s EXCEPT !.inner = Drop(Add(@, to, n), from)]
  IN  IF from = to \/ from \notin DOMAIN s.inner THEN s
      ELSE SetParent(SetParent(SetChild(s2, n.p, from, to), n.l, to), n.r, to)

(* One of several with its key. *)
Unchain(s, tt, head) ==
  LET x == IF tt = head THEN s.leaf[tt].dup ELSE head
      c == Chain(s, head)
      before == c[(CHOOSE i \in DOMAIN c : c[i] = tt) - 1]
  IN  Move(IF tt = head
           THEN SetParent(SetChild(s, s.leaf[tt].p, tt, x), x, s.leaf[tt].p)
           ELSE [s EXCEPT !.leaf[before].dup = s.leaf[tt].dup], In(tt), In(x))

(* The last one with its key: its parent goes too, the parent's masks to   *)
(* the other side, and what the route's own memory is used for into the    *)
(* parent's.  Masks that a leaf cannot take are orphaned.                  *)
Unlink(s, tt) ==
  LET t == s.leaf[tt].p
      x == Sibling(s, t, tt)
      c == s.leaf[x].mk
      mk == s.inner[t].mk
      s2 == SetParent(SetChild(s, s.inner[t].p, t, x), x, s.inner[t].p)
      s3 == CASE mk = <<>> -> s2
              [] mk # <<>> /\ ~IsLeaf(x) -> [s2 EXCEPT !.inner[x].mk = @ \o mk]
              [] OTHER -> IF c \notin ToSet(mk) THEN s2
                          ELSE IF s.cell[c].refs = 0 THEN [s2 EXCEPT !.leaf[x].mk = 0]
                               ELSE [s2 EXCEPT !.cell[c].refs = @ - 1]
  IN  Move([s3 EXCEPT !.inner = Drop(@, t)], In(tt), t)

(* The route that goes, or <<>>.  A key with one route loses it whatever   *)
(* the mask that was named.                                                *)
Victim(s, v, m) ==
  LET head == rn_search(s, v, TOP)
      c == SelectSeq(Chain(s, head), LAMBDA y : Mask(y) = m \/ s.leaf[head].dup = NULL)
  IN  IF Key(head) # v \/ c = <<>> \/ Root(c[1]) THEN <<>> ELSE c[1]
Detached(s) ==
  LET listed == UNION {ToSet(s.inner[n].mk) : n \in DOMAIN s.inner}
  IN  <<Collect(s), {n \in DOMAIN s.leaf : s.leaf[n].mk # 0 /\ s.leaf[n].mk \notin listed}>>
Detach(s, tt, head) ==
  Detached([(IF s.leaf[head].dup # NULL THEN Unchain(s, tt, head) ELSE Unlink(s, tt))
              EXCEPT !.leaf = Drop(@, tt)])
rn_delete(s, v, tt) ==
  LET head == rn_search(s, v, TOP)
  IN  Detach(Unannotate(s, tt, head), tt, head)

Init == rn = Empty /\ table = {} /\ lost = {}

(* RTM_ADD and RTM_DELETE of rtrequest(). *)
AddRoute(r) ==
  /\ Cardinality(table) < MaxRoutes
  /\ r \notin table
  /\ \E out \in {rn_addroute(rn, r)} :
       /\ out # <<>>
       /\ rn' = out[1] /\ table' = table \cup {r} /\ lost' = lost \cup out[2]
DeleteRoute(v, m) ==
  \E r \in {Victim(rn, v, m)} :
    /\ r # <<>>
    /\ \E out \in {rn_delete(rn, v, r)} :
         rn' = out[1] /\ table' = table \ {r} /\ lost' = (lost \cup out[2]) \ {r}

Next ==
  \/ \E r \in Routes : AddRoute(r)
  \/ \E v \in {Key(r) : r \in table}, m \in {Mask(r) : r \in table} : DeleteRoute(v, m)

Spec == Init /\ [][Next]_vars
-----------------------------------------------------------------------------
Fits(r, v) == IF Mask(r) = NONE THEN Key(r) = v ELSE v \cap Mask(r) = Key(r)
Better(q, r) == Mask(r) # NONE /\ (Mask(q) = NONE \/ rn_refines(Mask(q), Mask(r)))
Best(v) ==
  {r \in table : Fits(r, v) /\ \A q \in table : Fits(q, v) => ~Better(q, r)}

(* The tree is one: links go both ways, every route is found under its     *)
(* key, and the inner nodes are in the memory of routes of the table.      *)
Whole ==
  /\ DOMAIN rn.leaf = table \cup {ZERO, ONE}
  /\ DOMAIN rn.inner \subseteq {In(r) : r \in table \cup {ZERO}}
  /\ \A n \in DOMAIN rn.inner : \A x \in {rn.inner[n].l, rn.inner[n].r} : Parent(rn, x) = n
  /\ \A r \in table : r \in ToSet(Chain(rn, rn_search(rn, Key(r), TOP)))

(* After any order of additions and deletions rn_match() finds a route     *)
(* with the most specific mask that covers the address, and none exactly   *)
(* when none covers it; a route in the table is found there again, so that *)
(* it is not added twice.  Routes whose annotation or place the code has   *)
(* lost (lost) may be missed, but what is found in their stead covers the  *)
(* address.  Every radix_mask counts its routes.                           *)
RoutesFound ==
  /\ Whole
  /\ \A c \in DOMAIN rn.cell :
       rn.cell[c].refs + 1 = Cardinality({n \in DOMAIN rn.leaf : rn.leaf[n].mk = c})
  /\ \A r \in table \ lost : SameKey(rn, r) = <<>>
  /\ \A v \in Keys :
       \A r \in {rn_match(rn, v)}, best \in {Best(v)} :
         IF best \cap lost # {} THEN r = NULL \/ (r \in table /\ Fits(r, v))
         ELSE IF best = {} THEN r = NULL ELSE r \in best
=============================================================================
