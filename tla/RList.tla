------------------------------- MODULE RList --------------------------------
(***************************************************************************)
(* The resizable list of util.h: rings of nodes linked in both directions, *)
(* a list being a ring with a head.  All operations are made of one, the   *)
(* splice, which joins two rings or divides one.  The pointers are checked *)
(* against sequences.                                                      *)
(***************************************************************************)
EXTENDS Integers, SequencesExt

CONSTANTS
  Heads,         \* the nodes used as heads of lists
  Items,         \* the nodes put into them
  Chosen         \* the items for which the predicate of rlist_select holds

Nodes == Heads \cup Items

ASSUME ListAssumption == IsFiniteSet(Nodes) /\ Heads \cap Items = {}

VARIABLES
  ring,          \* the next and prev pointers of all nodes
  content,       \* the sequence each list should be
  adrift         \* a ring of items that belongs to no list

listVars == <<ring, content, adrift>>

ListInit ==
  /\ ring = [next |-> [n \in Nodes |-> n], prev |-> [n \in Nodes |-> n]]
  /\ content = [h \in Heads |-> <<>>]
  /\ adrift = <<>>

-----------------------------------------------------------------------------
(* rl_splice: the next pointers of a and b are swapped, and the prev       *)
(* pointers of their successors.                                           *)
rl_splice(r, a, b) ==
  LET an == r.next[a]  bn == r.next[b] IN
  [next |-> [r.next EXCEPT ![a] = bn, ![b] = an],
   prev |-> [r.prev EXCEPT ![an] = r.prev[bn], ![bn] = r.prev[an]]]

(* Mutants: the new tail goes to the front; appending forgets to take the  *)
(* emptied head out.                                                       *)
PushAtHead(r, l, n)   == rl_splice(r, l, n)
KeepSource(r, d, s)   == rl_splice(r, r.prev[d], s)

rlist_remove(r, n)       == rl_splice(r, n, r.prev[n])
is_rlist_empty(r, l)     == r.next[l] = l
rlist_push_front(r, l, n) == rl_splice(r, l, n)
rlist_push_back(r, l, n) == rl_splice(r, r.prev[l], n)
rlist_pop_front(r, l)    == rl_splice(r, l, r.next[l])
rlist_pop_back(r, l)     == rl_splice(r, l, r.prev[l])
rlist_append(r, d, s)    == rlist_remove(rlist_push_back(r, d, s), s)
rlist_prepend(r, d, s)   == rlist_remove(rlist_push_front(r, d, s), s)

(* The node k steps after l, and the loops that go round the ring of l.    *)
Walk(r, l) ==
  LET w[k \in 0 .. Cardinality(Nodes)] == IF k = 0 THEN l ELSE r.next[w[k - 1]] IN w
rlist_len(r, l) == Min({k \in 1 .. Cardinality(Nodes) : Walk(r, l)[k] = l}) - 1
ListOf(r, l) == [k \in 1 .. rlist_len(r, l) |-> Walk(r, l)[k]]

rlist_reverse(r, l) ==
  LET round == {l} \cup {ListOf(r, l)[k] : k \in 1 .. rlist_len(r, l)} IN
  [next |-> [n \in Nodes |-> IF n \in round THEN r.prev[n] ELSE r.next[n]],
   prev |-> [n \in Nodes |-> IF n \in round THEN r.next[n] ELSE r.prev[n]]]

(* rlist_select: after k rounds of the loop, the pointers and the node I.  *)
SelectRound(q, s, d) ==
  LET n == q.ring.next[q.at] IN
  IF n = s THEN q
  ELSE IF n \in Chosen THEN [ring |-> rlist_push_back(rlist_remove(q.ring, n), d, n), at |-> q.at]
  ELSE [ring |-> q.ring, at |-> n]

SelectRounds(r, s, d) ==
  LET q[k \in 0 .. Cardinality(Nodes)] ==
        IF k = 0 THEN [ring |-> r, at |-> s] ELSE SelectRound(q[k - 1], s, d)
  IN q

rlist_select(r, s, d) == SelectRounds(r, s, d)[Cardinality(Nodes)].ring

-----------------------------------------------------------------------------
(* Programs that use the lists as the header asks: a node that is pushed   *)
(* is in no list.                                                          *)

Free(n) == n \in Items /\ ring.next[n] = n

Do(r, c) == adrift = <<>> /\ ring' = r /\ content' = c /\ UNCHANGED adrift

Push(h, n) ==
  /\ Free(n)
  /\ \/ Do(rlist_push_front(ring, h, n), [content EXCEPT ![h] = <<n>> \o @])
     \/ Do(rlist_push_back(ring, h, n), [content EXCEPT ![h] = Append(@, n)])

Pop(h) ==
  /\ ~ is_rlist_empty(ring, h)
  /\ Do(rlist_pop_front(ring, h), [content EXCEPT ![h] = Tail(@)])

RemoveItem(n) ==
  Do(rlist_remove(ring, n), [h \in Heads |-> RemoveFirst(content[h], n)])

(* The elements of the sequence s that are in S, in their order.           *)
Among(s, S) ==
  LET f[k \in 0 .. Len(s)] ==
        IF k = 0 THEN <<>> ELSE IF s[k] \in S THEN Append(f[k - 1], s[k]) ELSE f[k - 1]
  IN f
Only(s, S) == Among(s, S)[Len(s)]

Move(d, s) ==
  /\ d # s
  /\ \/ Do(rlist_append(ring, d, s), [content EXCEPT ![d] = @ \o content[s], ![s] = <<>>])
     \/ Do(rlist_prepend(ring, d, s), [content EXCEPT ![d] = content[s] \o @, ![s] = <<>>])
     \/ Do(rlist_select(ring, s, d),
           [content EXCEPT ![d] = @ \o Only(content[s], Chosen), ![s] = Only(@, Items \ Chosen)])

Turn(h) == Do(rlist_reverse(ring, h), [content EXCEPT ![h] = Reverse(@)])

(* rlist_pop_back takes the whole list away, not its tail alone: all items *)
(* are left in a ring of their own.                                        *)
PopBack(h) ==
  /\ adrift = <<>> /\ ~ is_rlist_empty(ring, h)
  /\ ring' = rlist_pop_back(ring, h)
  /\ adrift' = IF Len(content[h]) > 1 THEN content[h] ELSE <<>>
  /\ content' = [content EXCEPT ![h] = <<>>]

(* rlnode_new on every item adrift, before the lists are used again.       *)
Renew ==
  LET lost == {adrift[k] : k \in 1 .. Len(adrift)} IN
  /\ adrift # <<>> /\ adrift' = <<>>
  /\ ring' = [next |-> [n \in Nodes |-> IF n \in lost THEN n ELSE ring.next[n]],
              prev |-> [n \in Nodes |-> IF n \in lost THEN n ELSE ring.prev[n]]]
  /\ UNCHANGED content

ListNext ==
  \/ \E h \in Heads, n \in Items : Push(h, n)
  \/ \E h \in Heads : Pop(h) \/ PopBack(h) \/ Turn(h)
  \/ \E n \in Items : RemoveItem(n)
  \/ \E d, s \in Heads : Move(d, s)
  \/ Renew

-----------------------------------------------------------------------------
(* After any sequence of operations each list is, in its next pointers,    *)
(* the sequence it should be, the prev pointers are their inverse, and an  *)
(* item in no list is a ring by itself; so a ring has at most one head.    *)
(* What rlist_pop_back leaves behind is one ring of all the items.         *)
ListInvariant ==
  /\ \A h \in Heads : ListOf(ring, h) = content[h]
  /\ \A n \in Nodes : ring.prev[ring.next[n]] = n
  /\ \A n \in Items :
       \/ \E h \in Heads : \E k \in 1 .. Len(content[h]) : content[h][k] = n
       \/ \E k \in 1 .. Len(adrift) : adrift[k] = n
       \/ Free(n)
  /\ adrift # <<>> => ListOf(ring, adrift[1]) = Tail(adrift)
=============================================================================
