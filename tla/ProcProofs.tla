----------------------------- MODULE ProcProofs -----------------------------
(***************************************************************************)
(* Theorems about Proc, for a process table of any size and any number of  *)
(* threads.                                                                *)
(***************************************************************************)
EXTENDS Proc, ListLemmas

-----------------------------------------------------------------------------
(* Lists that hold an element at most once.                                *)

(* What is left of a list after rlist_remove of some of its nodes.         *)
LEMMA UnlinkOnce ==
  ASSUME NEW S, NEW s \in Seq(S), IsInjective(s), NEW D
  PROVE  /\ Unlink(s, D) \in Seq(S)
         /\ IsInjective(Unlink(s, D))
         /\ ToSet(Unlink(s, D)) = ToSet(s) \ D
<1> DEFINE left == CHOOSE left : left = [n \in 0 .. Len(s) |->
                     IF n = 0 THEN << >>
                     ELSE IF s[n] \in D THEN left[n - 1] ELSE Append(left[n - 1], s[n])]
<1> DEFINE Fits(n, g) == g = [i \in 0 .. n |->
                     IF i = 0 THEN << >>
                     ELSE IF s[i] \in D THEN g[i - 1] ELSE Append(g[i - 1], s[i])]
<1> DEFINE T == {n \in 0 .. Len(s) : \E g : Fits(n, g)}
<1>0. Len(s) \in Nat /\ \A i \in 1 .. Len(s) : s[i] \in S
  BY LenProperties
<1>1. 0 \in T
  <2> DEFINE g == [i \in {0} |-> << >>]
  <2>1. Fits(0, g)
    OBVIOUS
  <2>2. \E f : Fits(0, f)
    <3> HIDE DEF Fits, g
    <3> QED BY <2>1
  <2>3. 0 \in 0 .. Len(s)
    BY <1>0
  <2> HIDE DEF Fits
  <2> QED BY <2>2, <2>3
<1>2. ASSUME NEW n \in 0 .. Len(s), n < Len(s), n \in T PROVE n + 1 \in T
  <2>1. PICK g : Fits(n, g)
    BY <1>2
  <2> DEFINE e == IF s[n + 1] \in D THEN g[n] ELSE Append(g[n], s[n + 1])
  <2> DEFINE h == [i \in 0 .. n + 1 |-> IF i = n + 1 THEN e ELSE g[i]]
  <2>2. \A i \in 0 .. n : h[i] = g[i]
    BY <1>0
  <2>3. h[n + 1] = e
    BY <1>0
  <2>4. ASSUME NEW i \in 0 .. n + 1
        PROVE h[i] = IF i = 0 THEN << >> ELSE IF s[i] \in D THEN h[i - 1] ELSE Append(h[i - 1], s[i])
    <3>1. CASE i = n + 1
      <4> HIDE DEF h
      <4> QED BY <1>0, <3>1, <2>2, <2>3
    <3>2. CASE i # n + 1
      <4>1. i \in 0 .. n /\ (i # 0 => i - 1 \in 0 .. n)
        BY <1>0, <3>2
      <4> HIDE DEF h
      <4>2. g[i] = IF i = 0 THEN << >> ELSE IF s[i] \in D THEN g[i - 1] ELSE Append(g[i - 1], s[i])
        BY <2>1, <4>1
      <4> QED BY <2>2, <4>1, <4>2
    <3> QED BY <3>1, <3>2
  <2>5. Fits(n + 1, h)
    <3>1. h = [i \in 0 .. n + 1 |-> h[i]]
      OBVIOUS
    <3> HIDE DEF h
    <3> QED BY <2>4, <3>1
  <2>6. n + 1 \in 0 .. Len(s)
    BY <1>0, <1>2
  <2> QED BY <2>5, <2>6
<1>3. PICK g : Fits(Len(s), g)
  <2> HIDE DEF T
  <2>1. 0 .. Len(s) \subseteq T
    BY <1>0, <1>1, <1>2, UpTo
  <2>2. Len(s) \in T
    BY <2>1, <1>0
  <2> QED BY <2>2 DEF T
<1>4. /\ left[0] = << >>
      /\ \A n \in 0 .. Len(s) : n # 0 =>
           left[n] = IF s[n] \in D THEN left[n - 1] ELSE Append(left[n - 1], s[n])
  <2>1. Fits(Len(s), left)
    BY <1>3
  <2> HIDE DEF left
  <2>2. 0 \in 0 .. Len(s)
    BY <1>0
  <2>3. left[0] = << >>
    BY <2>1, <2>2
  <2>4. ASSUME NEW n \in 0 .. Len(s), n # 0
        PROVE  left[n] = IF s[n] \in D THEN left[n - 1] ELSE Append(left[n - 1], s[n])
    BY <2>1, <2>4
  <2> QED BY <2>3, <2>4
<1> HIDE DEF left, T, Fits
<1> DEFINE U == {n \in 0 .. Len(s) :
                   /\ left[n] \in Seq(S) /\ IsInjective(left[n])
                   /\ ToSet(left[n]) = {s[i] : i \in 1 .. n} \ D}
<1>5. 0 \in U
  <2>1. << >> \in Seq(S) /\ IsInjective(<< >>) /\ ToSet(<< >>) = {}
    BY DEF IsInjective, ToSet
  <2>2. {s[i] : i \in 1 .. 0} = {}
    OBVIOUS
  <2>3. left[0] = << >> /\ 0 \in 0 .. Len(s)
    BY <1>0, <1>4
  <2> QED BY <2>1, <2>2, <2>3
<1>6. ASSUME NEW n \in 0 .. Len(s), n < Len(s), n \in U PROVE n + 1 \in U
  <2>0. n + 1 \in 0 .. Len(s) /\ n + 1 \in 1 .. Len(s) /\ n + 1 # 0 /\ n + 1 - 1 = n
    BY <1>0, <1>6
  <2>1. {s[i] : i \in 1 .. n + 1} = {s[i] : i \in 1 .. n} \cup {s[n + 1]}
    BY <1>0, <1>6
  <2>2. left[n + 1] = IF s[n + 1] \in D THEN left[n] ELSE Append(left[n], s[n + 1])
    BY <1>4, <2>0
  <2>3. CASE s[n + 1] \in D
    BY <2>0, <2>1, <2>2, <2>3, <1>6
  <2>4. CASE s[n + 1] \notin D
    <3>1. s[n + 1] \notin {s[i] : i \in 1 .. n}
      BY <2>0, <1>0, <1>6, LenProperties DEF IsInjective
    <3>2. s[n + 1] \in S
      BY <1>0, <2>0
    <3> DEFINE b == s[n + 1]
               a == left[n]
    <3>3. a \in Seq(S) /\ IsInjective(a) /\ b \notin ToSet(a) /\ b \in S
      BY <1>6, <3>1, <3>2
    <3>4. left[n + 1] = Append(a, b)
      BY <2>2, <2>4
    <3>5. ToSet(a) = {s[i] : i \in 1 .. n} \ D
      BY <1>6
    <3>6. {s[i] : i \in 1 .. n + 1} = {s[i] : i \in 1 .. n} \cup {b} /\ b \notin D
      BY <2>1, <2>4
    <3> HIDE DEF a, b
    <3>7. /\ Append(a, b) \in Seq(S) /\ IsInjective(Append(a, b))
          /\ ToSet(Append(a, b)) = ToSet(a) \cup {b}
      BY <3>3, AppendOnce
    <3> QED BY <2>0, <3>4, <3>5, <3>6, <3>7
  <2> QED BY <2>3, <2>4
<1>7. Len(s) \in U
  <2> HIDE DEF U
  <2>1. 0 .. Len(s) \subseteq U
    BY <1>0, <1>5, <1>6, UpTo
  <2> QED BY <2>1, <1>0
<1>8. {s[i] : i \in 1 .. Len(s)} = ToSet(s)
  BY <1>0 DEF ToSet
<1>9. Unlink(s, D) = left[Len(s)]
  BY DEF Unlink, left
<1> QED BY <1>7, <1>8, <1>9

(* rlist_push_front.                                                       *)
LEMMA ConsOnce ==
  ASSUME NEW S, NEW s \in Seq(S), IsInjective(s), NEW e \in S, e \notin ToSet(s)
  PROVE  /\ Cons(e, s) \in Seq(S)
         /\ IsInjective(Cons(e, s))
         /\ ToSet(Cons(e, s)) = ToSet(s) \cup {e}
<1>1. <<e>> \in Seq(S) /\ IsInjective(<<e>>) /\ ToSet(<<e>>) = {e}
  BY DEF IsInjective, ToSet
<1> DEFINE a == <<e>>
<1>2. a \in Seq(S) /\ IsInjective(a) /\ ToSet(a) = {e} /\ ToSet(a) \cap ToSet(s) = {} /\ Cons(e, s) = a \o s
  BY <1>1 DEF Cons
<1> HIDE DEF a
<1> QED BY <1>2, ConcatOnce

-----------------------------------------------------------------------------
(* The inductive invariant.                                                *)

ThreadsOf(p)  == {t \in Tids : owner[t] = p}
LivingOf(p)   == {t \in Tids : owner[t] = p /\ ~ exited[t]}
Joiners(x)    == {t \in Tids : call[t].op = "join" /\ call[t].arg = x}
ChildrenOf(q) == {p \in Pids : p > 1 /\ pstate[p] # "FREE" /\ parent[p] = q}
ZombiesOf(q)  == {p \in Pids : p > 1 /\ pstate[p] = "ZOMBIE" /\ parent[p] = q}
InUse         == {p \in Pids : pstate[p] # "FREE"}
Reaping       == {"waitpid", "waitany", "exit"}

(* ptcb_list and thread_count, also of PCBs that are free again: their     *)
(* threads that nobody joined still name them.                             *)
ThreadInv ==
  /\ \A p \in Pids : IsInjective(ptcb_list[p]) /\ ToSet(ptcb_list[p]) = ThreadsOf(p)
  /\ \A p \in Pids : thread_count[p] = Cardinality(LivingOf(p))
  /\ \A p \in Pids : p # 0 => (pstate[p] = "ALIVE" <=> thread_count[p] # 0)
  /\ \A t \in Tids : owner[t] # 0

(* What a blocked call has to do with the state: a joiner is in the        *)
(* process of the thread it joins, and who waits for one child is the only *)
(* one in its process to wait at all, so that the child stays its child.   *)
CallInv ==
  /\ \A t \in Tids : ~ Alive(t) \/ call[t].op = "none" => call[t] = NoCall
  /\ \A t \in Tids : call[t].op = "join" => call[t].arg \in Tids /\ owner[call[t].arg] = owner[t]
  /\ \A t \in Tids : call[t].op = "waitpid" =>
       call[t].arg \in Pids /\ call[t].arg \in ChildrenOf(owner[t])
  /\ \A t, u \in Tids : call[t].op = "waitpid" /\ owner[u] = owner[t] /\ call[u].op \in Reaping => u = t
  /\ \A t \in Tids : call[t].op = "exit" => owner[t] = 1

JoinInv == \A x \in Tids : owner[x] # NULL => refcount[x] = Cardinality(Joiners(x))

(* The tree: ProcessTree with the facts about pids 0 and 1, of which init  *)
(* is the last to go.                                                      *)
TreeInv ==
  /\ pstate[0] = "ALIVE" /\ pstate[1] # "FREE" /\ parent[0] = NULL /\ parent[1] = NULL
  /\ \A q \in Pids : IsInjective(children_list[q]) /\ ToSet(children_list[q]) = ChildrenOf(q)
  /\ \A q \in Pids : IsInjective(exited_list[q]) /\ ToSet(exited_list[q]) = ZombiesOf(q)
  /\ \A p \in InUse : p > 1 => parent[p] \in Pids /\ parent[p] # 0 /\ pstate[parent[p]] = "ALIVE"
  /\ pstate[1] = "ZOMBIE" => InUse = {0, 1}

(* There is no ring of processes that are each other's ancestors: each     *)
(* process in use is further from init than its parent.                    *)
RankInv ==
  \E rank \in [Pids -> Nat] :
    \A p \in Pids : p > 1 => rank[p] > 0 /\ (p \in InUse => (parent[p] = 1 \/ rank[parent[p]] < rank[p]))

(* fl is the free list, from its head on, and has each free PCB once.      *)
IsFreeList(fl) ==
  /\ IsInjective(fl) /\ ToSet(fl) = Pids \ InUse
  /\ pcb_freelist = IF fl = << >> THEN NULL ELSE fl[1]
  /\ \A i \in 1 .. Len(fl) : parent[fl[i]] = IF i = Len(fl) THEN NULL ELSE fl[i + 1]

FreeInv ==
  /\ \E fl \in Seq(Pids) : IsFreeList(fl)
  /\ process_count = Cardinality(InUse)

(* What has been reported is below the cursor, pids 0 and 1 among it.      *)
ListingInv ==
  /\ IsInjective(reported)
  /\ PT_cursor = NULL => reported = << >>
  /\ PT_cursor # NULL =>
       /\ \A p \in ToSet(reported) : p < PT_cursor
       /\ PT_cursor > 0 => 0 \in ToSet(reported)
       /\ PT_cursor > 1 => 1 \in ToSet(reported)

IInv ==
  /\ TypeOK /\ ThreadInv /\ CallInv /\ JoinInv /\ TreeInv /\ RankInv /\ FreeInv
  /\ NoMissedWakeup /\ ListingInv

-----------------------------------------------------------------------------
(* First facts.                                                            *)

(* The table has a scheduler slot 0, init 1 and at least one more, and     *)
(* NULL is none of them.                                                   *)
LEMMA PidFacts ==
  /\ Pids \subseteq Nat /\ 0 \in Pids /\ 1 \in Pids /\ 2 \in Pids
  /\ NULL \notin Pids /\ NULL \notin Tids /\ IsFiniteSet(Tids)
  /\ IsFiniteSet(Pids) /\ Cardinality(Pids) = MAX_PROC
  /\ MAX_PROC \in Nat /\ MAX_PROC >= 3
<1>1. MAX_PROC \in Nat /\ MAX_PROC >= 3 /\ NULL \notin Tids /\ NULL \notin 0 .. MAX_PROC /\ IsFiniteSet(Tids)
  BY ProcAssumption
<1>2. Pids \subseteq 0 .. MAX_PROC /\ Pids \subseteq Nat /\ 0 \in Pids /\ 1 \in Pids /\ 2 \in Pids
  BY <1>1 DEF Pids
<1>3. IsFiniteSet(Pids) /\ Cardinality(Pids) = IF 0 > MAX_PROC - 1 THEN 0 ELSE MAX_PROC - 1 - 0 + 1
  <2>1. 0 \in Int /\ MAX_PROC - 1 \in Int
    BY <1>1
  <2> QED BY <2>1, FS_Interval DEF Pids
<1>4. Cardinality(Pids) = MAX_PROC
  BY <1>1, <1>3
<1> QED BY <1>1, <1>2, <1>3, <1>4

(* The processes above 1 are the ones that are neither the scheduler nor   *)
(* init.                                                                   *)
LEMMA PidOrder ==
  \A p \in Pids : p \in Nat /\ (p > 1 <=> p # 0 /\ p # 1) /\ (p >= 1 <=> p # 0)
<1> SUFFICES ASSUME NEW p \in Pids
             PROVE  p \in Nat /\ (p > 1 <=> p # 0 /\ p # 1) /\ (p >= 1 <=> p # 0)
  OBVIOUS
<1>1. p \in Nat
  BY PidFacts
<1> QED BY <1>1

(* The sets that are counted are finite.                                   *)
LEMMA FiniteParts ==
  /\ \A p : IsFiniteSet(LivingOf(p)) /\ Cardinality(LivingOf(p)) \in Nat
            /\ (Cardinality(LivingOf(p)) = 0 <=> LivingOf(p) = {})
  /\ \A x : IsFiniteSet(Joiners(x)) /\ Cardinality(Joiners(x)) \in Nat
            /\ (Cardinality(Joiners(x)) = 0 <=> Joiners(x) = {})
  /\ IsFiniteSet(InUse) /\ Cardinality(InUse) \in 0 .. MAX_PROC
<1>1. ASSUME NEW p
      PROVE  IsFiniteSet(LivingOf(p)) /\ Cardinality(LivingOf(p)) \in Nat
             /\ (Cardinality(LivingOf(p)) = 0 <=> LivingOf(p) = {})
  <2>1. LivingOf(p) \in SUBSET Tids
    BY DEF LivingOf
  <2>2. IsFiniteSet(LivingOf(p))
    BY <2>1, PidFacts, FS_Subset
  <2> QED BY <2>2, FS_CardinalityType, FS_EmptySet
<1>2. ASSUME NEW x
      PROVE  IsFiniteSet(Joiners(x)) /\ Cardinality(Joiners(x)) \in Nat
             /\ (Cardinality(Joiners(x)) = 0 <=> Joiners(x) = {})
  <2>1. Joiners(x) \in SUBSET Tids
    BY DEF Joiners
  <2>2. IsFiniteSet(Joiners(x))
    BY <2>1, PidFacts, FS_Subset
  <2> QED BY <2>2, FS_CardinalityType, FS_EmptySet
<1>3. IsFiniteSet(InUse) /\ Cardinality(InUse) \in 0 .. MAX_PROC
  <2>1. InUse \in SUBSET Pids
    BY DEF InUse
  <2>2. IsFiniteSet(InUse) /\ Cardinality(InUse) <= MAX_PROC
    BY <2>1, PidFacts, FS_Subset
  <2>3. Cardinality(InUse) \in Nat
    BY <2>2, FS_CardinalityType
  <2> QED BY <2>2, <2>3, PidFacts
<1> QED BY <1>1, <1>2, <1>3

(* A living thread belongs to a living process.                            *)
LEMMA LivingProcess ==
  ASSUME TypeOK, ThreadInv, NEW t \in Tids, Alive(t)
  PROVE  /\ owner[t] \in Pids /\ owner[t] # 0 /\ owner[t] >= 1
         /\ t \in LivingOf(owner[t])
         /\ thread_count[owner[t]] \in Nat /\ thread_count[owner[t]] >= 1
         /\ pstate[owner[t]] = "ALIVE"
<1>0. owner[t] \in Pids /\ owner[t] # 0
  BY DEF TypeOK, ThreadInv, Alive
<1>1. owner[t] \in Pids /\ owner[t] # 0 /\ owner[t] >= 1
  BY <1>0, PidOrder
<1>2. t \in LivingOf(owner[t])
  BY DEF LivingOf, Alive
<1>3. thread_count[owner[t]] \in Nat /\ thread_count[owner[t]] # 0
  BY <1>1, <1>2, FiniteParts DEF ThreadInv
<1>4. pstate[owner[t]] = "ALIVE"
  BY <1>1, <1>3 DEF ThreadInv
<1> QED BY <1>1, <1>2, <1>3, <1>4

(* When all children of init have ended there is no other process left:    *)
(* one of least rank would be a child of init.                             *)
LEMMA OnlyInitLeft ==
  ASSUME TypeOK, TreeInv, RankInv, ChildrenOf(1) \subseteq ZombiesOf(1)
  PROVE  InUse = {0, 1} \cup ZombiesOf(1)
<1>1. PICK rank \in [Pids -> Nat] :
        \A p \in Pids : p > 1 => rank[p] > 0 /\ (p \in InUse => (parent[p] = 1 \/ rank[parent[p]] < rank[p]))
  BY DEF RankInv
<1> DEFINE B == {p \in InUse : p > 1 /\ p \notin ZombiesOf(1)}
           R == {rank[p] : p \in B}
<1>2. {0, 1} \cup ZombiesOf(1) \subseteq InUse
  BY PidFacts DEF TreeInv, InUse, ZombiesOf
<1>3. ASSUME B # {} PROVE FALSE
  <2>0. \A p \in B : rank[p] \in Nat
    BY DEF InUse
  <2>1. R \subseteq Nat /\ R # {}
    <3> HIDE DEF B
    <3> QED BY <1>3, <2>0
  <2>2. PICK r \in R : \A s \in R : r <= s
    <3> HIDE DEF R
    <3> QED BY <2>1, NatMin
  <2>3. PICK p \in B : \A q \in B : rank[p] <= rank[q]
    BY <2>2
  <2>4. p \in Pids /\ p > 1 /\ p \in InUse /\ p \notin ZombiesOf(1)
    BY <2>3 DEF InUse
  <2>5. parent[p] \in Pids /\ parent[p] # 0 /\ pstate[parent[p]] = "ALIVE"
    BY <2>4 DEF TreeInv
  <2>6. parent[p] # 1
    BY <2>4 DEF ChildrenOf, InUse
  <2>7. parent[p] > 1
    BY <2>5, <2>6, PidOrder
  <2>8. parent[p] \in B
    BY <2>5, <2>7 DEF InUse, ZombiesOf
  <2>9. rank[parent[p]] < rank[p]
    BY <1>1, <2>4, <2>6
  <2>10. rank[parent[p]] \in Nat /\ rank[p] \in Nat
    BY <2>4, <2>5
  <2> QED BY <2>3, <2>8, <2>9, <2>10
<1>4. InUse \subseteq {0, 1} \cup ZombiesOf(1)
  <2>1. ASSUME NEW p \in InUse PROVE p \in {0, 1} \cup ZombiesOf(1)
    BY <1>3, PidFacts DEF InUse
  <2> QED BY <2>1
<1> QED BY <1>2, <1>4

-----------------------------------------------------------------------------
(* cleanup_zombie of a list of zombies.                                    *)

(* A list of exited children that are to be reaped.                        *)
ZombieList(zs) ==
  /\ zs \in Seq(Pids) /\ IsInjective(zs)
  /\ \A p \in ToSet(zs) : p \in Pids /\ p > 1 /\ pstate[p] = "ZOMBIE"

(* Recycling a list of zombies unlinks exactly them, and pushes them on    *)
(* the free list.                                                          *)
LEMMA RecycleFacts ==
  ASSUME TypeOK, TreeInv, NEW zs, ZombieList(zs), Recycle(zs)
  PROVE  /\ children_list' \in [Pids -> Seq(Pids)] /\ exited_list' \in [Pids -> Seq(Pids)]
         /\ \A q \in Pids : /\ IsInjective(children_list'[q])
                            /\ ToSet(children_list'[q]) = ToSet(children_list[q]) \ ToSet(zs)
                            /\ IsInjective(exited_list'[q])
                            /\ ToSet(exited_list'[q]) = ToSet(exited_list[q]) \ ToSet(zs)
         /\ parent' \in [Pids -> Pids \cup {NULL}] /\ pcb_freelist' \in Pids \cup {NULL}
         /\ \A p \in Pids : p \notin ToSet(zs) => parent'[p] = parent[p]
         /\ zs = << >> => pcb_freelist' = pcb_freelist
         /\ zs # << >> => pcb_freelist' = zs[Len(zs)] /\ parent'[zs[1]] = pcb_freelist
         /\ \A i \in 2 .. Len(zs) : parent'[zs[i]] = zs[i - 1]
         /\ process_count' = process_count - Len(zs)
<1>1. /\ Len(zs) \in Nat /\ DOMAIN zs = 1 .. Len(zs) /\ \A i \in 1 .. Len(zs) : zs[i] \in Pids
      /\ zs \in Seq(Pids) /\ IsInjective(zs)
  BY LenProperties DEF ZombieList
<1>2. ASSUME NEW s \in Seq(Pids), IsInjective(s)
      PROVE  /\ Unlink(s, ToSet(zs)) \in Seq(Pids) /\ IsInjective(Unlink(s, ToSet(zs)))
             /\ ToSet(Unlink(s, ToSet(zs))) = ToSet(s) \ ToSet(zs)
  BY <1>2, UnlinkOnce
<1>3. \A q \in Pids : /\ children_list[q] \in Seq(Pids) /\ IsInjective(children_list[q])
                      /\ exited_list[q] \in Seq(Pids) /\ IsInjective(exited_list[q])
  BY DEF TypeOK, TreeInv
<1>4. /\ children_list' = [q \in Pids |-> Unlink(children_list[q], ToSet(zs))]
      /\ exited_list' = [q \in Pids |-> Unlink(exited_list[q], ToSet(zs))]
  BY DEF Recycle, Without
<1>5. /\ children_list' \in [Pids -> Seq(Pids)] /\ exited_list' \in [Pids -> Seq(Pids)]
      /\ \A q \in Pids : /\ IsInjective(children_list'[q])
                         /\ ToSet(children_list'[q]) = ToSet(children_list[q]) \ ToSet(zs)
                         /\ IsInjective(exited_list'[q])
                         /\ ToSet(exited_list'[q]) = ToSet(exited_list[q]) \ ToSet(zs)
  BY <1>2, <1>3, <1>4
<1>6. \A p : Contains(zs, p) <=> p \in ToSet(zs)
  BY <1>1, ContainsElement
<1>7. /\ DOMAIN parent' = Pids
      /\ \A p \in Pids : parent'[p] =
           IF p \notin ToSet(zs) THEN parent[p]
           ELSE IF p = zs[1] THEN pcb_freelist
           ELSE CHOOSE q \in Pids : \E i \in 2 .. Len(zs) : zs[i] = p /\ zs[i - 1] = q
  BY <1>6 DEF Recycle
<1>8. ASSUME NEW i \in 2 .. Len(zs) PROVE parent'[zs[i]] = zs[i - 1]
  <2>1. i \in 1 .. Len(zs) /\ i - 1 \in 1 .. Len(zs) /\ 1 \in 1 .. Len(zs) /\ i # 1
    BY <1>1
  <2>2. zs[i] \in Pids /\ zs[i] \in ToSet(zs) /\ zs[i] # zs[1] /\ zs[i - 1] \in Pids
    BY <1>1, <2>1 DEF ToSet, IsInjective
  <2>3. \A j \in 2 .. Len(zs) : zs[j] = zs[i] => j = i
    BY <1>1, <2>1 DEF IsInjective
  <2>4. \A q \in Pids : (\E j \in 2 .. Len(zs) : zs[j] = zs[i] /\ zs[j - 1] = q) <=> q = zs[i - 1]
    BY <2>3
  <2>5. (CHOOSE q \in Pids : \E j \in 2 .. Len(zs) : zs[j] = zs[i] /\ zs[j - 1] = q) = zs[i - 1]
    BY <2>2, <2>4
  <2> QED BY <1>7, <2>2, <2>5
<1>9. zs # << >> => 1 \in 1 .. Len(zs) /\ Len(zs) \in 1 .. Len(zs)
  BY <1>1, EmptySeq
<1>10. zs # << >> => parent'[zs[1]] = pcb_freelist
  BY <1>1, <1>7, <1>9 DEF ToSet
<1>11. zs # << >> => pcb_freelist' = zs[Len(zs)]
  BY DEF Recycle, Last
<1>12. parent' \in [Pids -> Pids \cup {NULL}]
  <2>0. \A p \in Pids : parent'[p] \in Pids \cup {NULL}
    <3> SUFFICES ASSUME NEW p \in Pids PROVE parent'[p] \in Pids \cup {NULL}
      OBVIOUS
    <3>1. CASE p \notin ToSet(zs)
      BY <3>1, <1>7 DEF TypeOK
    <3>2. CASE p \in ToSet(zs)
      <4>1. PICK i \in 1 .. Len(zs) : p = zs[i]
        BY <3>2, <1>1 DEF ToSet
      <4>2. CASE i = 1
        BY <4>1, <4>2, <1>7 DEF TypeOK
      <4>3. CASE i # 1
        <5>1. i \in 2 .. Len(zs) /\ i - 1 \in 1 .. Len(zs)
          BY <4>3, <1>1
        <5> QED BY <5>1, <4>1, <1>8, <1>1
      <4> QED BY <4>2, <4>3
    <3> QED BY <3>1, <3>2
  <2>1. parent' = [p \in Pids |-> parent'[p]]
    BY DEF Recycle
  <2> QED BY <2>0, <2>1
<1>13. pcb_freelist' \in Pids \cup {NULL}
  BY <1>1, <1>9, <1>11 DEF Recycle, TypeOK
<1>14. zs = << >> => pcb_freelist' = pcb_freelist
  BY DEF Recycle
<1>15. process_count' = process_count - Len(zs)
  BY DEF Recycle
<1> QED BY <1>5, <1>7, <1>8, <1>10, <1>11, <1>12, <1>13, <1>14, <1>15

(* Which PCBs are free afterwards.                                         *)
LEMMA FreedFacts ==
  ASSUME TypeOK, TreeInv, NEW zs, ZombieList(zs),
         pstate' = Freed(zs) \/ pstate' = [Freed(zs) EXCEPT ![1] = "ZOMBIE"]
  PROVE  /\ pstate' \in [Pids -> {"FREE", "ALIVE", "ZOMBIE"}]
         /\ InUse' = InUse \ ToSet(zs)
         /\ \A p \in Pids : p # 1 => pstate'[p] = IF p \in ToSet(zs) THEN "FREE" ELSE pstate[p]
         /\ pstate'[1] = pstate[1] \/ pstate'[1] = "ZOMBIE"
         /\ 0 \notin ToSet(zs) /\ 1 \notin ToSet(zs)
<1>1. \A p : Contains(zs, p) <=> p \in ToSet(zs)
  BY ContainsElement DEF ZombieList
<1>2. Freed(zs) = [p \in Pids |-> IF p \in ToSet(zs) THEN "FREE" ELSE pstate[p]]
  BY <1>1 DEF Freed
<1>3. 0 \notin ToSet(zs) /\ 1 \notin ToSet(zs)
  BY DEF ZombieList
<1>4. pstate' \in [Pids -> {"FREE", "ALIVE", "ZOMBIE"}]
  BY <1>2 DEF TypeOK
<1>5. \A p \in Pids : p # 1 => pstate'[p] = IF p \in ToSet(zs) THEN "FREE" ELSE pstate[p]
  BY <1>2 DEF TypeOK
<1>6. pstate'[1] = pstate[1] \/ pstate'[1] = "ZOMBIE"
  BY <1>2, <1>3, PidFacts DEF TypeOK
<1>7. InUse' = InUse \ ToSet(zs)
  <2>1. ASSUME NEW p \in Pids PROVE pstate'[p] # "FREE" <=> pstate[p] # "FREE" /\ p \notin ToSet(zs)
    <3>1. CASE p = 1
      BY <3>1, <1>3, <1>6 DEF TreeInv
    <3>2. CASE p # 1
      BY <3>2, <1>5
    <3> QED BY <3>1, <3>2
  <2> QED BY <2>1 DEF InUse
<1> QED BY <1>3, <1>4, <1>5, <1>6, <1>7

(* Reaping keeps the tree; init may end with it when it has no other       *)
(* child.                                                                  *)
LEMMA ReapTree ==
  ASSUME TypeOK, TreeInv, RankInv, NEW zs, ZombieList(zs), Recycle(zs),
         \/ pstate' = Freed(zs)
         \/ /\ pstate' = [Freed(zs) EXCEPT ![1] = "ZOMBIE"]
            /\ ChildrenOf(1) \subseteq ToSet(zs) /\ ToSet(zs) \subseteq ZombiesOf(1)
  PROVE  TreeInv'
<1>1. /\ \A q \in Pids : /\ IsInjective(children_list'[q])
                         /\ ToSet(children_list'[q]) = ToSet(children_list[q]) \ ToSet(zs)
                         /\ IsInjective(exited_list'[q])
                         /\ ToSet(exited_list'[q]) = ToSet(exited_list[q]) \ ToSet(zs)
      /\ \A p \in Pids : p \notin ToSet(zs) => parent'[p] = parent[p]
  BY RecycleFacts
<1>2. /\ InUse' = InUse \ ToSet(zs)
      /\ \A p \in Pids : p # 1 => pstate'[p] = IF p \in ToSet(zs) THEN "FREE" ELSE pstate[p]
      /\ pstate'[1] = pstate[1] \/ pstate'[1] = "ZOMBIE"
      /\ 0 \notin ToSet(zs) /\ 1 \notin ToSet(zs)
  BY FreedFacts
<1>3. pstate'[0] = "ALIVE" /\ pstate'[1] # "FREE" /\ parent'[0] = NULL /\ parent'[1] = NULL
  BY <1>1, <1>2, PidFacts DEF TreeInv
<1>4. ASSUME NEW q \in Pids
      PROVE  ChildrenOf(q)' = ChildrenOf(q) \ ToSet(zs) /\ ZombiesOf(q)' = ZombiesOf(q) \ ToSet(zs)
  <2>1. \A p \in Pids : p > 1 => p # 1
    BY PidOrder
  <2> QED BY <1>1, <1>2, <2>1 DEF ChildrenOf, ZombiesOf
<1>5. /\ \A q \in Pids : IsInjective(children_list'[q]) /\ ToSet(children_list'[q]) = ChildrenOf(q)'
      /\ \A q \in Pids : IsInjective(exited_list'[q]) /\ ToSet(exited_list'[q]) = ZombiesOf(q)'
  <2> SUFFICES ASSUME NEW q \in Pids
               PROVE  /\ IsInjective(children_list'[q]) /\ ToSet(children_list'[q]) = ChildrenOf(q)'
                      /\ IsInjective(exited_list'[q]) /\ ToSet(exited_list'[q]) = ZombiesOf(q)'
    OBVIOUS
  <2>1. ToSet(children_list[q]) = ChildrenOf(q) /\ ToSet(exited_list[q]) = ZombiesOf(q)
    BY DEF TreeInv
  <2>2. ChildrenOf(q)' = ChildrenOf(q) \ ToSet(zs) /\ ZombiesOf(q)' = ZombiesOf(q) \ ToSet(zs)
    BY <1>4
  <2> QED BY <1>1, <2>1, <2>2
<1>6. pstate[1] = "ZOMBIE" \/ pstate'[1] = "ZOMBIE" => InUse' = {0, 1}
  <2>1. CASE pstate[1] = "ZOMBIE"
    BY <2>1, <1>2 DEF TreeInv
  <2>2. CASE pstate[1] # "ZOMBIE" /\ pstate'[1] = "ZOMBIE"
    <3>1. ChildrenOf(1) \subseteq ToSet(zs) /\ ToSet(zs) \subseteq ZombiesOf(1)
      <4>1. pstate' # Freed(zs)
        <5>1. 1 \notin ToSet(zs) /\ zs \in Seq(Pids)
          BY <1>2 DEF ZombieList
        <5>2. ~ Contains(zs, 1)
          BY <5>1, ContainsElement
        <5>3. Freed(zs)[1] = pstate[1]
          BY <5>2, PidFacts DEF Freed
        <5> QED BY <2>2, <5>3
      <4> QED BY <4>1
    <3>2. ChildrenOf(1) \subseteq ZombiesOf(1)
      BY <3>1
    <3>3. InUse = {0, 1} \cup ZombiesOf(1)
      BY <3>2, OnlyInitLeft
    <3>4. ZombiesOf(1) \subseteq ChildrenOf(1)
      BY DEF ZombiesOf, ChildrenOf
    <3> QED BY <1>2, <3>1, <3>3, <3>4
  <2> QED BY <2>1, <2>2
<1>7. ASSUME NEW p \in InUse', p > 1
      PROVE  parent'[p] \in Pids /\ parent'[p] # 0 /\ pstate'[parent'[p]] = "ALIVE"
  <2>1. p \in InUse /\ p \notin ToSet(zs) /\ p \in Pids
    BY <1>2 DEF InUse
  <2>2. parent'[p] = parent[p] /\ parent[p] \in Pids /\ parent[p] # 0 /\ pstate[parent[p]] = "ALIVE"
    BY <1>1, <2>1, <1>7 DEF TreeInv
  <2>3. parent[p] \notin ToSet(zs)
    BY <2>2 DEF ZombieList
  <2>4. CASE parent[p] # 1
    BY <2>2, <2>3, <2>4, <1>2
  <2>5. CASE parent[p] = 1
    <3>1. pstate'[1] # "ZOMBIE"
      <4>1. p \notin {0, 1}
        BY <1>7, <2>1, PidOrder
      <4> QED BY <4>1, <1>6, <1>7
    <3> QED BY <3>1, <2>2, <2>5, <1>2
  <2> QED BY <2>4, <2>5
<1>8. \A p \in InUse' : p > 1 => parent'[p] \in Pids /\ parent'[p] # 0 /\ pstate'[parent'[p]] = "ALIVE"
  BY <1>7
<1> QED BY <1>3, <1>5, <1>6, <1>8 DEF TreeInv

(* A rank of the processes still is one when some of them leave the table. *)
LEMMA ReapRank ==
  ASSUME RankInv, NEW zs, InUse' = InUse \ ToSet(zs),
         \A p \in Pids : p \notin ToSet(zs) => parent'[p] = parent[p]
  PROVE  RankInv'
<1>1. PICK rank \in [Pids -> Nat] :
        \A p \in Pids : p > 1 => rank[p] > 0 /\ (p \in InUse => (parent[p] = 1 \/ rank[parent[p]] < rank[p]))
  BY DEF RankInv
<1>2. \A p \in Pids : p > 1 => rank[p] > 0 /\ (p \in InUse' => (parent'[p] = 1 \/ rank[parent'[p]] < rank[p]))
  BY <1>1
<1> QED BY <1>2 DEF RankInv

(* The reaped PCBs are put before the free list, the last one first.       *)
LEMMA ReapFree ==
  ASSUME TypeOK, TreeInv, FreeInv, NEW zs, ZombieList(zs), Recycle(zs), InUse' = InUse \ ToSet(zs)
  PROVE  FreeInv'
<1> DEFINE n == Len(zs)
<1>1. /\ zs = << >> => pcb_freelist' = pcb_freelist
      /\ zs # << >> => pcb_freelist' = zs[n] /\ parent'[zs[1]] = pcb_freelist
      /\ \A i \in 2 .. n : parent'[zs[i]] = zs[i - 1]
      /\ process_count' = process_count - n
      /\ \A p \in Pids : p \notin ToSet(zs) => parent'[p] = parent[p]
  BY RecycleFacts
<1>2. PICK fl \in Seq(Pids) : IsFreeList(fl)
  BY DEF FreeInv
<1>3. /\ n \in Nat /\ Len(fl) \in Nat /\ DOMAIN zs = 1 .. n /\ DOMAIN fl = 1 .. Len(fl)
      /\ zs \in Seq(Pids) /\ IsInjective(zs) /\ IsInjective(fl)
  BY <1>2, LenProperties DEF ZombieList, IsFreeList
<1>4. ToSet(zs) \subseteq InUse
  BY DEF ZombieList, InUse
<1> DEFINE rz == Reverse(zs)
           g  == rz \o fl
<1>5. rz \in Seq(Pids) /\ IsInjective(rz) /\ ToSet(rz) = ToSet(zs)
  BY <1>3, ReverseOnce
<1>6. Len(rz) = n /\ \A i \in 1 .. n : rz[i] = zs[(n - i) + 1]
  <2>1. DOMAIN rz = 1 .. n /\ \A i \in 1 .. n : rz[i] = zs[(n - i) + 1]
    BY DEF Reverse
  <2> HIDE DEF rz
  <2>2. Len(rz) \in Nat /\ DOMAIN rz = 1 .. Len(rz)
    BY <1>5, LenProperties
  <2> QED BY <2>1, <2>2, <1>3
<1> HIDE DEF rz
<1>7. /\ g \in Seq(Pids) /\ IsInjective(g) /\ ToSet(g) = ToSet(zs) \cup ToSet(fl)
      /\ Len(g) = n + Len(fl)
      /\ \A i \in 1 .. n + Len(fl) : g[i] = IF i <= n THEN rz[i] ELSE fl[i - n]
  <2>1. ToSet(rz) \cap ToSet(fl) = {}
    BY <1>2, <1>4, <1>5 DEF IsFreeList
  <2>2. g \in Seq(Pids) /\ IsInjective(g) /\ ToSet(g) = ToSet(rz) \cup ToSet(fl)
    BY <2>1, <1>3, <1>5, ConcatOnce
  <2>3. /\ Len(g) = Len(rz) + Len(fl)
        /\ \A i \in 1 .. Len(rz) + Len(fl) : g[i] = IF i <= Len(rz) THEN rz[i] ELSE fl[i - Len(rz)]
    BY <1>5, ConcatProperties
  <2> HIDE DEF g
  <2> QED BY <2>2, <2>3, <1>5, <1>6
<1> HIDE DEF g
<1>8. ToSet(g) = Pids \ InUse'
  BY <1>2, <1>4, <1>7 DEF IsFreeList, InUse
<1>9. pcb_freelist' = IF g = << >> THEN NULL ELSE g[1]
  <2>1. CASE zs = << >>
    <3>1. n = 0
      BY <2>1
    <3>2. fl = << >> <=> Len(fl) = 0
      BY <1>3, EmptySeq
    <3>3. g = << >> <=> Len(g) = 0
      BY <1>7, EmptySeq
    <3>4. Len(fl) # 0 => g[1] = fl[1]
      BY <3>1, <1>3, <1>7
    <3>5. pcb_freelist = IF fl = << >> THEN NULL ELSE fl[1]
      BY <1>2 DEF IsFreeList
    <3> QED BY <1>1, <2>1, <3>1, <3>2, <3>3, <3>4, <3>5, <1>7, <1>3
  <2>2. CASE zs # << >>
    <3>1. n # 0
      BY <2>2, <1>3, EmptySeq DEF ZombieList
    <3>2. 1 \in 1 .. n + Len(fl) /\ 1 <= n /\ 1 \in 1 .. n /\ (n - 1) + 1 = n
      BY <3>1, <1>3
    <3>3. g[1] = zs[n]
      BY <3>2, <1>6, <1>7
    <3>4. g # << >>
      BY <3>2, <1>7
    <3> QED BY <1>1, <2>2, <3>3, <3>4
  <2> QED BY <2>1, <2>2
<1>10. ASSUME NEW i \in 1 .. Len(g) PROVE parent'[g[i]] = IF i = Len(g) THEN NULL ELSE g[i + 1]
  <2>1. CASE i < n
    <3>1. /\ i \in 1 .. n + Len(fl) /\ i <= n /\ i + 1 \in 1 .. n + Len(fl) /\ i + 1 <= n /\ i # Len(g)
          /\ i \in 1 .. n /\ i + 1 \in 1 .. n
          /\ (n - i) + 1 \in 2 .. n /\ ((n - i) + 1) - 1 = (n - (i + 1)) + 1
      BY <2>1, <1>3, <1>7
    <3>2. g[i] = zs[(n - i) + 1]
      BY <3>1, <1>6, <1>7
    <3>3. g[i + 1] = rz[i + 1]
      BY <3>1, <1>7
    <3>4. rz[i + 1] = zs[(n - (i + 1)) + 1]
      BY <3>1, <1>6
    <3>5. parent'[zs[(n - i) + 1]] = zs[((n - i) + 1) - 1]
      BY <3>1, <1>1
    <3> QED BY <3>1, <3>2, <3>3, <3>4, <3>5
  <2>2. CASE i = n
    <3>1. i \in 1 .. n + Len(fl) /\ i <= n /\ i \in 1 .. n /\ (n - i) + 1 = 1
      BY <2>2, <1>3, <1>7
    <3>2. g[i] = zs[1]
      BY <3>1, <1>6, <1>7
    <3>3. zs # << >>
      BY <3>1
    <3>4. parent'[g[i]] = pcb_freelist
      BY <1>1, <3>2, <3>3
    <3>5. pcb_freelist = IF fl = << >> THEN NULL ELSE fl[1]
      BY <1>2 DEF IsFreeList
    <3>6. fl = << >> <=> Len(fl) = 0
      BY <1>3, EmptySeq
    <3>7. Len(fl) # 0 => i + 1 \in 1 .. n + Len(fl) /\ ~ (i + 1 <= n) /\ i + 1 - n = 1
      BY <2>2, <1>3
    <3>8. Len(fl) # 0 => g[i + 1] = fl[1]
      BY <3>7, <1>7
    <3> QED BY <2>2, <3>4, <3>5, <3>6, <3>8, <1>3, <1>7
  <2>3. CASE i > n
    <3>1. i \in 1 .. n + Len(fl) /\ ~ (i <= n) /\ i - n \in 1 .. Len(fl)
      BY <2>3, <1>3, <1>7
    <3>2. g[i] = fl[i - n]
      BY <3>1, <1>7
    <3>3. fl[i - n] \in ToSet(fl)
      BY <3>1, <1>3 DEF ToSet
    <3>4. g[i] \in Pids /\ g[i] \notin ToSet(zs)
      BY <3>2, <3>3, <1>2, <1>4 DEF IsFreeList
    <3>5. parent'[g[i]] = parent[fl[i - n]]
      BY <1>1, <3>2, <3>4
    <3>6. parent[fl[i - n]] = IF i - n = Len(fl) THEN NULL ELSE fl[i - n + 1]
      BY <1>2, <3>1 DEF IsFreeList
    <3>7. i # Len(g) => i + 1 \in 1 .. n + Len(fl) /\ ~ (i + 1 <= n) /\ i + 1 - n = i - n + 1
      BY <3>1, <1>3, <1>7
    <3>8. i # Len(g) => g[i + 1] = fl[i - n + 1]
      BY <3>7, <1>7
    <3>9. i - n = Len(fl) <=> i = Len(g)
      BY <3>1, <1>3, <1>7
    <3> QED BY <3>5, <3>6, <3>8, <3>9
  <2>4. i < n \/ i = n \/ i > n
    BY <1>3, <1>7
  <2> QED BY <2>1, <2>2, <2>3, <2>4
<1>11. \E l \in Seq(Pids) : IsFreeList(l)'
  BY <1>7, <1>8, <1>9, <1>10 DEF IsFreeList
<1>12. process_count' = Cardinality(InUse')
  <2>1. IsFiniteSet(InUse) /\ Cardinality(InUse) \in 0 .. MAX_PROC
    BY FiniteParts
  <2>2. InUse \cap ToSet(zs) = ToSet(zs)
    BY <1>4
  <2>3. Cardinality(ToSet(zs)) = n
    BY <1>3, LengthCounts
  <2>4. Cardinality(InUse \ ToSet(zs)) = Cardinality(InUse) - Cardinality(InUse \cap ToSet(zs))
    BY <2>1, FS_Difference
  <2> QED BY <1>1, <2>2, <2>3, <2>4 DEF FreeInv
<1> QED BY <1>11, <1>12 DEF FreeInv

-----------------------------------------------------------------------------
(* acquire_PCB with the entry into the parent's list.                      *)

(* The head of the free list is a free PCB other than 0 and 1.             *)
LEMMA HeadIsFree ==
  ASSUME TypeOK, TreeInv, FreeInv, NEW p \in Pids, pcb_freelist = p
  PROVE  /\ pstate[p] = "FREE" /\ p \notin InUse /\ p > 1
         /\ \A q \in Pids : p \notin ToSet(children_list[q]) /\ p \notin ToSet(exited_list[q])
         /\ \A c \in InUse : c > 1 => parent[c] # p
<1>1. PICK fl \in Seq(Pids) : IsFreeList(fl)
  BY DEF FreeInv
<1>2. fl # << >> /\ p = fl[1]
  BY <1>1, PidFacts DEF IsFreeList
<1>3. p \in ToSet(fl)
  BY <1>2, EmptySeq, LenProperties DEF ToSet
<1>4. pstate[p] = "FREE"
  BY <1>1, <1>3 DEF IsFreeList, InUse
<1>5. p # 0 /\ p # 1
  BY <1>4 DEF TreeInv
<1>6. p > 1
  BY <1>5, PidOrder
<1>7. \A q \in Pids : p \notin ToSet(children_list[q]) /\ p \notin ToSet(exited_list[q])
  BY <1>4 DEF TreeInv, ChildrenOf, ZombiesOf
<1>8. \A c \in InUse : c > 1 => parent[c] # p
  BY <1>4 DEF TreeInv
<1> QED BY <1>4, <1>6, <1>7, <1>8 DEF InUse

(* sys_Exec links the process acquire_PCB returned under its parent.       *)
LEMMA AcquireTree ==
  ASSUME TypeOK, TreeInv, RankInv, FreeInv, NEW p \in Pids, NEW q \in Pids, q # 0, pstate[q] = "ALIVE",
         acquire_PCB(p), parent' = [parent EXCEPT ![p] = q],
         children_list' = [children_list EXCEPT ![q] = Cons(p, @)], exited_list' = exited_list
  PROVE  /\ TreeInv' /\ RankInv' /\ FreeInv'
         /\ children_list' \in [Pids -> Seq(Pids)]
         /\ pcb_freelist' \in Pids \cup {NULL}
<1>1. /\ pstate[p] = "FREE" /\ p \notin InUse /\ p > 1
      /\ \A c \in Pids : p \notin ToSet(children_list[c]) /\ p \notin ToSet(exited_list[c])
      /\ \A c \in InUse : c > 1 => parent[c] # p
  BY HeadIsFree DEF acquire_PCB
<1>2. /\ pstate' = [pstate EXCEPT ![p] = "ALIVE"] /\ pcb_freelist' = parent[p] /\ pcb_freelist = p
      /\ process_count' = process_count + 1
  BY DEF acquire_PCB
<1>3. /\ pstate'[p] = "ALIVE" /\ parent'[p] = q
      /\ \A c \in Pids : c # p => pstate'[c] = pstate[c] /\ parent'[c] = parent[c]
  BY <1>2 DEF TypeOK
<1>4. InUse' = InUse \cup {p}
  BY <1>3 DEF InUse
<1>5. p # 0 /\ p # 1 /\ q # p
  BY <1>1, PidOrder
<1>6. /\ Cons(p, children_list[q]) \in Seq(Pids) /\ IsInjective(Cons(p, children_list[q]))
      /\ ToSet(Cons(p, children_list[q])) = ToSet(children_list[q]) \cup {p}
  <2>1. children_list[q] \in Seq(Pids) /\ IsInjective(children_list[q]) /\ p \notin ToSet(children_list[q])
    BY <1>1 DEF TypeOK, TreeInv
  <2> QED BY <2>1, ConsOnce
<1>7. /\ children_list'[q] = Cons(p, children_list[q])
      /\ \A c \in Pids : c # q => children_list'[c] = children_list[c]
      /\ children_list' \in [Pids -> Seq(Pids)]
  BY <1>6 DEF TypeOK
<1>8. TreeInv'
  <2>1. pstate'[0] = "ALIVE" /\ pstate'[1] # "FREE" /\ parent'[0] = NULL /\ parent'[1] = NULL
    BY <1>3, <1>5, PidFacts DEF TreeInv
  <2>2. ASSUME NEW c \in Pids
        PROVE  /\ IsInjective(children_list'[c]) /\ ToSet(children_list'[c]) = ChildrenOf(c)'
               /\ IsInjective(exited_list'[c]) /\ ToSet(exited_list'[c]) = ZombiesOf(c)'
    <3>1. ChildrenOf(c)' = ChildrenOf(c) \cup (IF c = q THEN {p} ELSE {})
      BY <1>1, <1>3 DEF ChildrenOf
    <3>2. ZombiesOf(c)' = ZombiesOf(c)
      BY <1>1, <1>3 DEF ZombiesOf
    <3>3. /\ ToSet(children_list[c]) = ChildrenOf(c) /\ ToSet(exited_list[c]) = ZombiesOf(c)
          /\ IsInjective(children_list[c]) /\ IsInjective(exited_list[c])
      BY DEF TreeInv
    <3>4. CASE c = q
      BY <3>1, <3>2, <3>3, <3>4, <1>6, <1>7
    <3>5. CASE c # q
      BY <3>1, <3>2, <3>3, <3>5, <1>7
    <3> QED BY <3>4, <3>5
  <2>3. ASSUME NEW c \in InUse', c > 1
        PROVE  parent'[c] \in Pids /\ parent'[c] # 0 /\ pstate'[parent'[c]] = "ALIVE"
    <3>1. CASE c = p
      BY <3>1, <1>3, <1>5
    <3>2. CASE c # p
      <4>1. c \in InUse /\ c \in Pids
        BY <1>4, <3>2 DEF InUse
      <4>2. parent[c] \in Pids /\ parent[c] # 0 /\ pstate[parent[c]] = "ALIVE" /\ parent[c] # p
        BY <4>1, <2>3, <1>1 DEF TreeInv
      <4> QED BY <4>1, <4>2, <3>2, <1>3
    <3> QED BY <3>1, <3>2
  <2>4. pstate'[1] = "ZOMBIE" => InUse' = {0, 1}
    <3>1. pstate[1] # "ZOMBIE"
      <4>1. q \in InUse
        BY DEF InUse
      <4> QED BY <4>1 DEF TreeInv
    <3> QED BY <3>1, <1>3, <1>5, PidFacts
  <2>5. \A c \in InUse' : c > 1 => parent'[c] \in Pids /\ parent'[c] # 0 /\ pstate'[parent'[c]] = "ALIVE"
    BY <2>3
  <2>6. /\ \A c \in Pids : IsInjective(children_list'[c]) /\ ToSet(children_list'[c]) = ChildrenOf(c)'
        /\ \A c \in Pids : IsInjective(exited_list'[c]) /\ ToSet(exited_list'[c]) = ZombiesOf(c)'
    BY <2>2
  <2> QED BY <2>1, <2>4, <2>5, <2>6 DEF TreeInv
<1>9. RankInv'
  <2>1. PICK rank \in [Pids -> Nat] :
          \A c \in Pids : c > 1 => rank[c] > 0 /\ (c \in InUse => (parent[c] = 1 \/ rank[parent[c]] < rank[c]))
    BY DEF RankInv
  <2> DEFINE r == [rank EXCEPT ![p] = rank[q] + 1]
  <2>2. r \in [Pids -> Nat] /\ r[p] = rank[q] + 1 /\ rank[q] \in Nat /\ \A c \in Pids : c # p => r[c] = rank[c]
    OBVIOUS
  <2> HIDE DEF r
  <2>3. ASSUME NEW c \in Pids, c > 1
        PROVE  r[c] > 0 /\ (c \in InUse' => (parent'[c] = 1 \/ r[parent'[c]] < r[c]))
    <3>1. CASE c = p
      <4>1. r[parent'[c]] = rank[q]
        BY <3>1, <1>3, <1>5, <2>2
      <4>2. r[parent'[c]] < r[c] /\ r[c] > 0
        BY <4>1, <3>1, <2>2
      <4> QED BY <4>2
    <3>2. CASE c # p
      <4>1. r[c] = rank[c] /\ parent'[c] = parent[c] /\ (c \in InUse' => c \in InUse)
        BY <3>2, <2>2, <1>3, <1>4
      <4>2. c \in InUse => parent[c] \in Pids /\ parent[c] # p
        BY <2>3, <1>1 DEF TreeInv
      <4>3. c \in InUse => r[parent[c]] = rank[parent[c]]
        BY <4>2, <2>2
      <4> QED BY <4>1, <4>2, <4>3, <2>1, <2>3
    <3> QED BY <3>1, <3>2
  <2>4. \A c \in Pids : c > 1 => r[c] > 0 /\ (c \in InUse' => (parent'[c] = 1 \/ r[parent'[c]] < r[c]))
    BY <2>3
  <2> QED BY <2>2, <2>4 DEF RankInv
<1>10. FreeInv' /\ pcb_freelist' \in Pids \cup {NULL}
  <2>1. PICK fl \in Seq(Pids) : IsFreeList(fl)
    BY DEF FreeInv
  <2>2. fl # << >> /\ p = fl[1]
    BY <2>1, <1>2, PidFacts DEF IsFreeList
  <2> DEFINE g == Tail(fl)
  <2>3. /\ Len(fl) \in Nat /\ Len(fl) # 0 /\ Len(g) = Len(fl) - 1 /\ g \in Seq(Pids)
        /\ DOMAIN fl = 1 .. Len(fl)
        /\ \A i \in 1 .. Len(fl) - 1 : g[i] = fl[i + 1]
    BY <2>2, HeadTailProperties, LenProperties, EmptySeq
  <2>4. IsInjective(g) /\ ToSet(g) = ToSet(fl) \ {p}
    <3>1. IsInjective(fl) /\ Head(fl) = fl[1]
      BY <2>1, <2>2 DEF IsFreeList
    <3> QED BY <3>1, <2>2, TailOnce
  <2> HIDE DEF g
  <2>5. ToSet(g) = Pids \ InUse'
    BY <2>1, <2>4, <1>4 DEF IsFreeList, InUse
  <2>6. ASSUME NEW i \in 1 .. Len(fl) PROVE parent[fl[i]] = IF i = Len(fl) THEN NULL ELSE fl[i + 1]
    BY <2>1 DEF IsFreeList
  <2>7. pcb_freelist' = IF g = << >> THEN NULL ELSE g[1]
    <3>1. g = << >> <=> Len(fl) = 1
      BY <2>3, EmptySeq
    <3>2. 1 \in 1 .. Len(fl) /\ (Len(fl) # 1 => 1 \in 1 .. Len(fl) - 1)
      BY <2>3
    <3>3. parent[p] = IF 1 = Len(fl) THEN NULL ELSE fl[2]
      BY <2>2, <2>6, <3>2
    <3>4. Len(fl) # 1 => g[1] = fl[2]
      BY <2>3, <3>2
    <3> QED BY <1>2, <3>1, <3>3, <3>4
  <2>8. ASSUME NEW i \in 1 .. Len(g) PROVE parent'[g[i]] = IF i = Len(g) THEN NULL ELSE g[i + 1]
    <3>1. /\ i \in 1 .. Len(fl) - 1 /\ i + 1 \in 1 .. Len(fl)
          /\ (i = Len(g) <=> i + 1 = Len(fl))
          /\ (i # Len(g) => i + 1 \in 1 .. Len(fl) - 1)
      BY <2>3
    <3>2. g[i] = fl[i + 1] /\ g[i] \in Pids
      BY <3>1, <2>3
    <3>3. g[i] # p
      <4>1. g[i] \in ToSet(g)
        BY <2>3, LenProperties DEF ToSet
      <4> QED BY <4>1, <2>4
    <3>4. parent'[g[i]] = parent[fl[i + 1]]
      BY <3>2, <3>3, <1>3
    <3>5. parent[fl[i + 1]] = IF i + 1 = Len(fl) THEN NULL ELSE fl[i + 1 + 1]
      BY <3>1, <2>6
    <3>6. i # Len(g) => g[i + 1] = fl[i + 1 + 1]
      BY <3>1, <2>3
    <3> QED BY <3>1, <3>4, <3>5, <3>6
  <2>9. \E l \in Seq(Pids) : IsFreeList(l)'
    BY <2>3, <2>4, <2>5, <2>7, <2>8 DEF IsFreeList
  <2>10. process_count' = Cardinality(InUse')
    <3>1. IsFiniteSet(InUse)
      BY FiniteParts
    <3>2. Cardinality(InUse \cup {p}) = Cardinality(InUse) + 1
      BY <3>1, <1>1, FS_AddElement
    <3> QED BY <3>2, <1>2, <1>4 DEF FreeInv
  <2>11. pcb_freelist' \in Pids \cup {NULL}
    BY <1>2 DEF TypeOK
  <2> QED BY <2>9, <2>10, <2>11 DEF FreeInv
<1> QED BY <1>7, <1>8, <1>9, <1>10

-----------------------------------------------------------------------------
(* The end of a process other than init.                                   *)
LEMMA EndTree ==
  ASSUME TypeOK, TreeInv, RankInv, FreeInv, NEW t \in Tids, NEW p \in Pids, p > 1,
         pstate[p] = "ALIVE", EndProcess(t, p)
  PROVE  /\ TreeInv' /\ RankInv' /\ FreeInv'
         /\ children_list' \in [Pids -> Seq(Pids)] /\ exited_list' \in [Pids -> Seq(Pids)]
         /\ parent' \in [Pids -> Pids \cup {NULL}]
         /\ pstate' \in [Pids -> {"FREE", "ALIVE", "ZOMBIE"}]
         /\ pstate'[p] = "ZOMBIE" /\ \A c \in Pids : c # p => pstate'[c] = pstate[c]
         /\ parent'[p] = parent[p] /\ parent[p] \in Pids
         /\ \A c \in Pids : parent'[c] = IF c \in ChildrenOf(p) THEN 1 ELSE parent[c]
<1> DEFINE pp == parent[p]
<1>1. p \in InUse /\ p # 0 /\ p # 1
  BY PidOrder DEF InUse
<1>2. pp \in Pids /\ pp # 0 /\ pstate[pp] = "ALIVE"
  BY <1>1 DEF TreeInv
<1>3. PICK rank \in [Pids -> Nat] :
        \A c \in Pids : c > 1 => rank[c] > 0 /\ (c \in InUse => (parent[c] = 1 \/ rank[parent[c]] < rank[c]))
  BY DEF RankInv
<1>4. pp # p
  <2>1. CASE pp = 1
    BY <2>1, <1>1
  <2>2. CASE pp # 1
    <3>1. rank[pp] < rank[p] /\ rank[p] \in Nat
      BY <2>2, <1>1, <1>3
    <3> QED BY <3>1
  <2> QED BY <2>1, <2>2
<1>5. pstate[1] = "ALIVE" /\ 1 \in Pids
  <2>1. pstate[1] # "ZOMBIE"
    BY <1>1 DEF TreeInv
  <2> QED BY <2>1, PidFacts DEF TreeInv, TypeOK
<1>6. \A q \in Pids : /\ children_list[q] \in Seq(Pids) /\ IsInjective(children_list[q])
                      /\ exited_list[q] \in Seq(Pids) /\ IsInjective(exited_list[q])
                      /\ ToSet(children_list[q]) = ChildrenOf(q) /\ ToSet(exited_list[q]) = ZombiesOf(q)
  BY DEF TypeOK, TreeInv
<1>7. /\ pstate'[p] = "ZOMBIE" /\ \A c \in Pids : c # p => pstate'[c] = pstate[c]
      /\ pstate' \in [Pids -> {"FREE", "ALIVE", "ZOMBIE"}]
      /\ pcb_freelist' = pcb_freelist /\ process_count' = process_count
  BY DEF EndProcess, TypeOK
<1>8. parent' = [c \in Pids |-> IF c \in ChildrenOf(p) THEN 1 ELSE parent[c]]
  <2>1. \A c : Contains(children_list[p], c) <=> c \in ChildrenOf(p)
    BY <1>6, ContainsElement
  <2> QED BY <2>1 DEF EndProcess, Reparent
<1>9. parent' \in [Pids -> Pids \cup {NULL}]
  BY <1>5, <1>8 DEF TypeOK
<1>10. p \notin ChildrenOf(p) /\ parent'[p] = pp
  BY <1>4, <1>8 DEF ChildrenOf
<1>11. InUse' = InUse
  BY <1>1, <1>7 DEF InUse
<1>12. /\ ChildrenOf(1)' = ChildrenOf(p) \cup ChildrenOf(1)
       /\ ChildrenOf(p)' = {}
       /\ \A q \in Pids : q # 1 /\ q # p => ChildrenOf(q)' = ChildrenOf(q)
  <2>1. \A c \in Pids : pstate'[c] # "FREE" <=> pstate[c] # "FREE"
    BY <1>1, <1>7 DEF InUse
  <2>2. \A c \in Pids : parent'[c] = IF c \in ChildrenOf(p) THEN 1 ELSE parent[c]
    BY <1>8
  <2>3. ASSUME NEW q \in Pids
        PROVE  ChildrenOf(q)' = {c \in Pids : c > 1 /\ pstate[c] # "FREE" /\
                                    (IF c \in ChildrenOf(p) THEN 1 ELSE parent[c]) = q}
    BY <2>1, <2>2 DEF ChildrenOf
  <2>4. ChildrenOf(1)' = ChildrenOf(p) \cup ChildrenOf(1)
    BY <2>3, <1>5 DEF ChildrenOf
  <2>5. ChildrenOf(p)' = {}
    BY <2>3, <1>1 DEF ChildrenOf
  <2>6. ASSUME NEW q \in Pids, q # 1, q # p PROVE ChildrenOf(q)' = ChildrenOf(q)
    BY <2>3, <2>6 DEF ChildrenOf
  <2> QED BY <2>4, <2>5, <2>6
<1> DEFINE Z(q) == (IF q = 1 THEN ZombiesOf(1) \cup ZombiesOf(p) ELSE IF q = p THEN {} ELSE ZombiesOf(q))
<1>13. ASSUME NEW q \in Pids PROVE ZombiesOf(q)' = Z(q) \cup (IF q = pp THEN {p} ELSE {})
  <2>1. \A c \in Pids : pstate'[c] = "ZOMBIE" <=> pstate[c] = "ZOMBIE" \/ c = p
    BY <1>7
  <2>2. \A c \in Pids : parent'[c] = IF c \in ChildrenOf(p) THEN 1 ELSE parent[c]
    BY <1>8
  <2>3. ZombiesOf(q)' = {c \in Pids : c > 1 /\ (pstate[c] = "ZOMBIE" \/ c = p) /\
                            (IF c \in ChildrenOf(p) THEN 1 ELSE parent[c]) = q}
    BY <2>1, <2>2 DEF ZombiesOf
  <2>4. ASSUME NEW c \in Pids
        PROVE  c \in ZombiesOf(q)' <=> c \in Z(q) \cup (IF q = pp THEN {p} ELSE {})
    <3>1. CASE c = p
      <4>1. c \in ZombiesOf(q)' <=> q = pp
        BY <2>3, <3>1, <1>10
      <4>2. c \notin Z(q)
        BY <3>1 DEF ZombiesOf
      <4> QED BY <4>1, <4>2, <3>1
    <3>2. CASE c # p /\ c \in ChildrenOf(p)
      <4>1. c \in ZombiesOf(q)' <=> pstate[c] = "ZOMBIE" /\ q = 1
        BY <2>3, <3>2 DEF ChildrenOf
      <4>2. c \in Z(q) <=> pstate[c] = "ZOMBIE" /\ q = 1
        BY <3>2, <1>1 DEF ChildrenOf, ZombiesOf
      <4> QED BY <4>1, <4>2, <3>2
    <3>3. CASE c # p /\ c \notin ChildrenOf(p)
      <4>1. c \in ZombiesOf(q)' <=> c > 1 /\ pstate[c] = "ZOMBIE" /\ parent[c] = q
        BY <2>3, <3>3
      <4>2. c > 1 /\ pstate[c] = "ZOMBIE" => parent[c] # p
        BY <3>3 DEF ChildrenOf
      <4>3. c \in Z(q) <=> c > 1 /\ pstate[c] = "ZOMBIE" /\ parent[c] = q
        BY <4>2, <1>1 DEF ZombiesOf
      <4> QED BY <4>1, <4>3, <3>3
    <3> QED BY <3>1, <3>2, <3>3
  <2>5. ZombiesOf(q)' \subseteq Pids /\ Z(q) \cup (IF q = pp THEN {p} ELSE {}) \subseteq Pids
    BY <2>3 DEF ZombiesOf
  <2> HIDE DEF Z, pp
  <2> QED BY <2>4, <2>5
<1>14. /\ children_list' \in [Pids -> Seq(Pids)]
       /\ \A q \in Pids : IsInjective(children_list'[q]) /\ ToSet(children_list'[q]) = ChildrenOf(q)'
  <2> DEFINE rc == Reverse(children_list[p])
             cl == rc \o children_list[1]
  <2>1. rc \in Seq(Pids) /\ IsInjective(rc) /\ ToSet(rc) = ChildrenOf(p)
    BY <1>6, ReverseOnce
  <2>2. ChildrenOf(p) \cap ChildrenOf(1) = {}
    BY <1>1 DEF ChildrenOf
  <2>3. cl \in Seq(Pids) /\ IsInjective(cl) /\ ToSet(cl) = ChildrenOf(p) \cup ChildrenOf(1)
    <3> HIDE DEF rc
    <3> QED BY <2>1, <2>2, <1>5, <1>6, ConcatOnce
  <2>4. children_list' = [children_list EXCEPT ![1] = cl, ![p] = << >>]
    BY DEF EndProcess
  <2> HIDE DEF cl
  <2>5. /\ children_list'[1] = cl /\ children_list'[p] = << >>
        /\ \A q \in Pids : q # 1 /\ q # p => children_list'[q] = children_list[q]
    BY <2>4, <1>1, <1>5 DEF TypeOK
  <2>6. << >> \in Seq(Pids) /\ IsInjective(<< >>) /\ ToSet(<< >>) = {}
    BY EmptyOnce
  <2>7. children_list' \in [Pids -> Seq(Pids)]
    BY <2>3, <2>4, <2>6 DEF TypeOK
  <2>8. ASSUME NEW q \in Pids PROVE IsInjective(children_list'[q]) /\ ToSet(children_list'[q]) = ChildrenOf(q)'
    <3>1. CASE q = 1
      BY <3>1, <2>3, <2>5, <1>12
    <3>2. CASE q = p
      BY <3>2, <2>5, <2>6, <1>12
    <3>3. CASE q # 1 /\ q # p
      BY <3>3, <2>5, <1>6, <1>12
    <3> QED BY <3>1, <3>2, <3>3
  <2> QED BY <2>7, <2>8
<1>15. /\ exited_list' \in [Pids -> Seq(Pids)]
       /\ \A q \in Pids : IsInjective(exited_list'[q]) /\ ToSet(exited_list'[q]) = ZombiesOf(q)'
  <2> DEFINE el == exited_list[1] \o exited_list[p]
             inh == [exited_list EXCEPT ![1] = exited_list[1] \o exited_list[p], ![p] = << >>]
  <2>1. ZombiesOf(p) \cap ZombiesOf(1) = {}
    BY <1>1 DEF ZombiesOf
  <2>2. el \in Seq(Pids) /\ IsInjective(el) /\ ToSet(el) = ZombiesOf(1) \cup ZombiesOf(p)
    BY <2>1, <1>5, <1>6, ConcatOnce
  <2>3. inh = [exited_list EXCEPT ![1] = el, ![p] = << >>]
    OBVIOUS
  <2>4. exited_list' = [inh EXCEPT ![pp] = Cons(p, inh[pp])]
    BY DEF EndProcess
  <2> HIDE DEF el, inh
  <2>5. /\ inh[1] = el /\ inh[p] = << >> /\ \A q \in Pids : q # 1 /\ q # p => inh[q] = exited_list[q]
    BY <2>3, <1>1, <1>5 DEF TypeOK
  <2>6. << >> \in Seq(Pids) /\ IsInjective(<< >>) /\ ToSet(<< >>) = {}
    BY EmptyOnce
  <2>7. inh \in [Pids -> Seq(Pids)]
    BY <2>2, <2>3, <2>6 DEF TypeOK
  <2>8. ASSUME NEW q \in Pids PROVE IsInjective(inh[q]) /\ ToSet(inh[q]) = Z(q)
    <3>1. CASE q = 1
      BY <3>1, <2>2, <2>5
    <3>2. CASE q = p
      BY <3>2, <2>5, <2>6, <1>1
    <3>3. CASE q # 1 /\ q # p
      BY <3>3, <2>5, <1>6
    <3> QED BY <3>1, <3>2, <3>3
  <2>9. p \notin ToSet(inh[pp])
    <3>1. p \notin Z(pp)
      BY DEF ZombiesOf
    <3> QED BY <2>8, <1>2, <3>1
  <2>10. /\ Cons(p, inh[pp]) \in Seq(Pids) /\ IsInjective(Cons(p, inh[pp]))
         /\ ToSet(Cons(p, inh[pp])) = ToSet(inh[pp]) \cup {p}
    <3>1. inh[pp] \in Seq(Pids) /\ IsInjective(inh[pp])
      BY <2>7, <2>8, <1>2
    <3> HIDE DEF pp
    <3> QED BY <2>9, <3>1, ConsOnce
  <2>11. /\ exited_list' \in [Pids -> Seq(Pids)] /\ exited_list'[pp] = Cons(p, inh[pp])
         /\ \A q \in Pids : q # pp => exited_list'[q] = inh[q]
    BY <2>4, <2>7, <2>10, <1>2
  <2>12. ASSUME NEW q \in Pids PROVE IsInjective(exited_list'[q]) /\ ToSet(exited_list'[q]) = ZombiesOf(q)'
    <3>1. IsInjective(exited_list'[q]) /\ ToSet(exited_list'[q]) = Z(q) \cup (IF q = pp THEN {p} ELSE {})
      <4> HIDE DEF Z, pp
      <4>1. CASE q = pp
        BY <4>1, <2>8, <2>10, <2>11
      <4>2. CASE q # pp
        BY <4>2, <2>8, <2>11
      <4> QED BY <4>1, <4>2
    <3>2. ZombiesOf(q)' = Z(q) \cup (IF q = pp THEN {p} ELSE {})
      BY <1>13
    <3> HIDE DEF Z, pp
    <3> QED BY <3>1, <3>2
  <2> QED BY <2>11, <2>12
<1>16. ASSUME NEW c \in InUse', c > 1
       PROVE  parent'[c] \in Pids /\ parent'[c] # 0 /\ pstate'[parent'[c]] = "ALIVE"
  <2>1. c \in InUse /\ c \in Pids
    BY <1>11 DEF InUse
  <2>2. parent[c] \in Pids /\ parent[c] # 0 /\ pstate[parent[c]] = "ALIVE"
    BY <2>1, <1>16 DEF TreeInv
  <2>3. CASE c \in ChildrenOf(p)
    <3>1. parent'[c] = 1
      BY <2>1, <2>3, <1>8
    <3> QED BY <3>1, <1>1, <1>5, <1>7
  <2>4. CASE c \notin ChildrenOf(p)
    <3>1. parent'[c] = parent[c]
      BY <2>1, <2>4, <1>8
    <3>2. parent[c] # p
      BY <2>1, <2>4, <1>16 DEF ChildrenOf, InUse
    <3> QED BY <3>1, <3>2, <2>2, <1>7
  <2> QED BY <2>3, <2>4
<1>17. TreeInv'
  <2>0. parent'[0] = NULL /\ parent'[1] = NULL
    BY <1>8, PidFacts DEF TreeInv, ChildrenOf
  <2>1. pstate'[0] = "ALIVE" /\ pstate'[1] = "ALIVE"
    BY <1>1, <1>5, <1>7, PidFacts DEF TreeInv
  <2>2. \A c \in InUse' : c > 1 => parent'[c] \in Pids /\ parent'[c] # 0 /\ pstate'[parent'[c]] = "ALIVE"
    BY <1>16
  <2> QED BY <2>0, <2>1, <2>2, <1>14, <1>15 DEF TreeInv
<1>18. RankInv'
  <2>1. ASSUME NEW c \in Pids, c > 1
        PROVE  rank[c] > 0 /\ (c \in InUse' => (parent'[c] = 1 \/ rank[parent'[c]] < rank[c]))
    BY <1>3, <1>8, <1>11, <2>1
  <2> QED BY <2>1 DEF RankInv
<1>19. FreeInv'
  <2>1. PICK fl \in Seq(Pids) : IsFreeList(fl)
    BY DEF FreeInv
  <2>2. ASSUME NEW i \in 1 .. Len(fl) PROVE parent'[fl[i]] = parent[fl[i]]
    <3>1. fl[i] \in ToSet(fl) /\ fl[i] \in Pids
      BY <2>1, LenProperties DEF ToSet
    <3>2. fl[i] \notin ChildrenOf(p)
      BY <2>1, <3>1 DEF IsFreeList, InUse, ChildrenOf
    <3> QED BY <3>1, <3>2, <1>8
  <2>3. IsFreeList(fl)'
    BY <2>1, <2>2, <1>7, <1>11 DEF IsFreeList
  <2> QED BY <2>3, <1>7, <1>11 DEF FreeInv
<1> QED BY <1>2, <1>7, <1>8, <1>9, <1>10, <1>14, <1>15, <1>17, <1>18, <1>19

(* A step that leaves the PCBs alone keeps the tree, the ranks and the     *)
(* free list.                                                              *)
LEMMA SamePcbs ==
  ASSUME TreeInv, RankInv, FreeInv, UNCHANGED pcbVars
  PROVE  TreeInv' /\ RankInv' /\ FreeInv'
<1>1. /\ pstate' = pstate /\ parent' = parent /\ pcb_freelist' = pcb_freelist
      /\ process_count' = process_count /\ children_list' = children_list /\ exited_list' = exited_list
  BY DEF pcbVars
<1>2. InUse' = InUse
  BY <1>1 DEF InUse
<1>3. ASSUME NEW q \in Pids PROVE ChildrenOf(q)' = ChildrenOf(q) /\ ZombiesOf(q)' = ZombiesOf(q)
  BY <1>1 DEF ChildrenOf, ZombiesOf
<1>4. TreeInv'
  <2>1. \A q \in Pids : IsInjective(children_list'[q]) /\ ToSet(children_list'[q]) = ChildrenOf(q)'
    BY <1>1, <1>3 DEF TreeInv
  <2>2. \A q \in Pids : IsInjective(exited_list'[q]) /\ ToSet(exited_list'[q]) = ZombiesOf(q)'
    BY <1>1, <1>3 DEF TreeInv
  <2>3. /\ pstate'[0] = "ALIVE" /\ pstate'[1] # "FREE" /\ parent'[0] = NULL /\ parent'[1] = NULL
        /\ \A p \in InUse' : p > 1 => parent'[p] \in Pids /\ parent'[p] # 0 /\ pstate'[parent'[p]] = "ALIVE"
        /\ pstate'[1] = "ZOMBIE" => InUse' = {0, 1}
    BY <1>1, <1>2 DEF TreeInv
  <2> QED BY <2>1, <2>2, <2>3 DEF TreeInv
<1>5. RankInv'
  BY <1>1, <1>2 DEF RankInv
<1>6. FreeInv'
  <2>1. PICK fl \in Seq(Pids) : IsFreeList(fl)
    BY DEF FreeInv
  <2>2. IsFreeList(fl)'
    BY <2>1, <1>1, <1>2 DEF IsFreeList
  <2> QED BY <2>2, <1>1, <1>2 DEF FreeInv
<1> QED BY <1>4, <1>5, <1>6

-----------------------------------------------------------------------------
(* PTCBs and thread_count.                                                 *)

(* No thread begins or ends, no PTCB comes or goes, no process is started  *)
(* or stopped.                                                             *)
LEMMA SameThreads ==
  ASSUME ThreadInv, UNCHANGED <<ptcb_list, owner, exited, thread_count>>,
         \A p \in Pids : p # 0 => (pstate'[p] = "ALIVE" <=> pstate[p] = "ALIVE")
  PROVE  ThreadInv'
<1>1. ASSUME NEW p \in Pids PROVE ThreadsOf(p)' = ThreadsOf(p) /\ LivingOf(p)' = LivingOf(p)
  BY DEF ThreadsOf, LivingOf
<1>2. \A p \in Pids : /\ IsInjective(ptcb_list'[p]) /\ ToSet(ptcb_list'[p]) = ThreadsOf(p)'
                      /\ thread_count'[p] = Cardinality(LivingOf(p)')
                      /\ p # 0 => (pstate'[p] = "ALIVE" <=> thread_count'[p] # 0)
  BY <1>1 DEF ThreadInv
<1>3. \A t \in Tids : owner'[t] # 0
  BY DEF ThreadInv
<1> QED BY <1>2, <1>3 DEF ThreadInv

(* Exec: the first thread of a process; what its list held before is lost. *)
LEMMA FirstThread ==
  ASSUME TypeOK, ThreadInv, NEW p \in Pids, NEW x \in Tids, p # 0, pstate[p] # "ALIVE",
         new_ptcb(x, p, ToSet(ptcb_list[p])),
         ptcb_list' = [ptcb_list EXCEPT ![p] = <<x>>],
         thread_count' = [thread_count EXCEPT ![p] = 1],
         pstate' = [pstate EXCEPT ![p] = "ALIVE"]
  PROVE  ThreadInv'
<1>1. /\ owner[x] = NULL
      /\ \A u \in Tids : owner'[u] = IF u = x THEN p ELSE IF u \in ThreadsOf(p) THEN NULL ELSE owner[u]
      /\ \A u \in Tids : u # x => exited'[u] = exited[u]
      /\ exited'[x] = FALSE
  BY DEF new_ptcb, ThreadInv, TypeOK
<1>2. /\ ptcb_list'[p] = <<x>> /\ thread_count'[p] = 1 /\ pstate'[p] = "ALIVE"
      /\ \A q \in Pids : q # p => /\ ptcb_list'[q] = ptcb_list[q] /\ thread_count'[q] = thread_count[q]
                                  /\ pstate'[q] = pstate[q]
  BY DEF TypeOK
<1>3. ThreadsOf(p)' = {x} /\ LivingOf(p)' = {x}
  BY <1>1, PidFacts DEF ThreadsOf, LivingOf
<1>4. ASSUME NEW q \in Pids, q # p PROVE ThreadsOf(q)' = ThreadsOf(q) /\ LivingOf(q)' = LivingOf(q)
  BY <1>1, <1>4, PidFacts DEF ThreadsOf, LivingOf
<1>5. ASSUME NEW q \in Pids
      PROVE  /\ IsInjective(ptcb_list'[q]) /\ ToSet(ptcb_list'[q]) = ThreadsOf(q)'
             /\ thread_count'[q] = Cardinality(LivingOf(q)')
             /\ q # 0 => (pstate'[q] = "ALIVE" <=> thread_count'[q] # 0)
  <2>1. CASE q = p
    <3>1. IsInjective(<<x>>) /\ ToSet(<<x>>) = {x}
      BY DEF IsInjective, ToSet
    <3>2. Cardinality({x}) = 1
      BY FS_Singleton
    <3> QED BY <3>1, <3>2, <2>1, <1>2, <1>3
  <2>2. CASE q # p
    BY <2>2, <1>2, <1>4 DEF ThreadInv
  <2> QED BY <2>1, <2>2
<1>6. \A u \in Tids : owner'[u] # 0
  BY <1>1, PidFacts DEF ThreadInv
<1> QED BY <1>5, <1>6 DEF ThreadInv

(* CreateThread.                                                           *)
LEMMA OneThreadMore ==
  ASSUME TypeOK, ThreadInv, NEW p \in Pids, NEW x \in Tids, p # 0, pstate[p] = "ALIVE",
         new_ptcb(x, p, {}),
         ptcb_list' = [ptcb_list EXCEPT ![p] = Append(@, x)], CountThread(p), pstate' = pstate
  PROVE  ThreadInv' /\ ptcb_list' \in [Pids -> Seq(Tids)]
<1>1. /\ owner[x] = NULL
      /\ \A u \in Tids : owner'[u] = IF u = x THEN p ELSE owner[u]
      /\ \A u \in Tids : u # x => exited'[u] = exited[u]
      /\ exited'[x] = FALSE
  BY DEF new_ptcb, TypeOK
<1>2. /\ ptcb_list'[p] = Append(ptcb_list[p], x) /\ thread_count'[p] = thread_count[p] + 1
      /\ \A q \in Pids : q # p => /\ ptcb_list'[q] = ptcb_list[q] /\ thread_count'[q] = thread_count[q]
  BY DEF TypeOK, CountThread
<1>3. ThreadsOf(p)' = ThreadsOf(p) \cup {x} /\ LivingOf(p)' = LivingOf(p) \cup {x}
  BY <1>1, PidFacts DEF ThreadsOf, LivingOf
<1>4. ASSUME NEW q \in Pids, q # p PROVE ThreadsOf(q)' = ThreadsOf(q) /\ LivingOf(q)' = LivingOf(q)
  BY <1>1, <1>4, PidFacts DEF ThreadsOf, LivingOf
<1>5. x \notin ThreadsOf(p) /\ x \notin LivingOf(p)
  BY <1>1, PidFacts DEF ThreadsOf, LivingOf
<1>6. /\ Append(ptcb_list[p], x) \in Seq(Tids) /\ IsInjective(Append(ptcb_list[p], x))
      /\ ToSet(Append(ptcb_list[p], x)) = ThreadsOf(p) \cup {x}
  <2>1. ptcb_list[p] \in Seq(Tids) /\ IsInjective(ptcb_list[p]) /\ ToSet(ptcb_list[p]) = ThreadsOf(p)
    BY DEF TypeOK, ThreadInv
  <2> QED BY <2>1, <1>5, AppendOnce
<1>7. Cardinality(LivingOf(p) \cup {x}) = thread_count[p] + 1 /\ thread_count[p] \in Nat
  <2>1. IsFiniteSet(LivingOf(p)) /\ Cardinality(LivingOf(p)) = thread_count[p] /\ thread_count[p] \in Nat
    BY FiniteParts DEF ThreadInv
  <2> QED BY <2>1, <1>5, FS_AddElement
<1>8. ASSUME NEW q \in Pids
      PROVE  /\ IsInjective(ptcb_list'[q]) /\ ToSet(ptcb_list'[q]) = ThreadsOf(q)'
             /\ thread_count'[q] = Cardinality(LivingOf(q)')
             /\ q # 0 => (pstate'[q] = "ALIVE" <=> thread_count'[q] # 0)
  <2>1. CASE q = p
    BY <2>1, <1>2, <1>3, <1>6, <1>7, SMTT(30)
  <2>2. CASE q # p
    BY <2>2, <1>2, <1>4 DEF ThreadInv
  <2> QED BY <2>1, <2>2
<1>9. \A u \in Tids : owner'[u] # 0
  BY <1>1, PidFacts DEF ThreadInv
<1>10. ptcb_list' \in [Pids -> Seq(Tids)]
  BY <1>6 DEF TypeOK
<1> QED BY <1>8, <1>9, <1>10 DEF ThreadInv

(* ThreadExit: the process stops with its last thread.                     *)
LEMMA OneThreadLess ==
  ASSUME TypeOK, ThreadInv, NEW t \in Tids, Alive(t),
         exited' = [exited EXCEPT ![t] = TRUE],
         thread_count' = [thread_count EXCEPT ![owner[t]] = @ - 1],
         UNCHANGED <<ptcb_list, owner>>,
         \A q \in Pids : q # owner[t] /\ q # 0 => (pstate'[q] = "ALIVE" <=> pstate[q] = "ALIVE"),
         pstate'[owner[t]] = "ALIVE" <=> thread_count[owner[t]] # 1
  PROVE  ThreadInv' /\ thread_count' \in [Pids -> Nat]
<1>0. PICK p \in Pids : p = owner[t]
  BY LivingProcess
<1>1. p # 0 /\ t \in LivingOf(p) /\ thread_count[p] \in Nat /\ thread_count[p] >= 1
  BY <1>0, LivingProcess
<1>2. /\ thread_count'[p] = thread_count[p] - 1
      /\ \A q \in Pids : q # p => thread_count'[q] = thread_count[q]
      /\ thread_count' \in [Pids -> Nat]
  BY <1>0, <1>1 DEF TypeOK
<1>3. exited'[t] = TRUE /\ \A u \in Tids : u # t => exited'[u] = exited[u]
  BY DEF TypeOK
<1>4. LivingOf(p)' = LivingOf(p) \ {t}
  BY <1>3 DEF LivingOf
<1>5. ASSUME NEW q \in Pids PROVE ThreadsOf(q)' = ThreadsOf(q)
  BY DEF ThreadsOf
<1>6. ASSUME NEW q \in Pids, q # p PROVE LivingOf(q)' = LivingOf(q)
  BY <1>0, <1>3, <1>6 DEF LivingOf
<1>7. Cardinality(LivingOf(p) \ {t}) = thread_count[p] - 1
  <2>1. IsFiniteSet(LivingOf(p)) /\ Cardinality(LivingOf(p)) = thread_count[p]
    BY <1>1, FiniteParts DEF ThreadInv
  <2> QED BY <2>1, <1>1, FS_RemoveElement
<1>8. ASSUME NEW q \in Pids
      PROVE  /\ IsInjective(ptcb_list'[q]) /\ ToSet(ptcb_list'[q]) = ThreadsOf(q)'
             /\ thread_count'[q] = Cardinality(LivingOf(q)')
             /\ q # 0 => (pstate'[q] = "ALIVE" <=> thread_count'[q] # 0)
  <2>1. IsInjective(ptcb_list'[q]) /\ ToSet(ptcb_list'[q]) = ThreadsOf(q)'
    BY <1>5 DEF ThreadInv
  <2>2. CASE q = p
    <3>1. pstate'[q] = "ALIVE" <=> thread_count[p] # 1
      BY <2>2, <1>0
    <3> QED BY <2>1, <2>2, <3>1, <1>1, <1>2, <1>4, <1>7
  <2>3. CASE q # p
    <3>1. q # 0 => (pstate'[q] = "ALIVE" <=> pstate[q] = "ALIVE")
      BY <2>3, <1>0
    <3> QED BY <2>1, <2>3, <3>1, <1>2, <1>6 DEF ThreadInv
  <2> QED BY <2>2, <2>3
<1>9. \A u \in Tids : owner'[u] # 0
  BY DEF ThreadInv
<1> QED BY <1>2, <1>8, <1>9 DEF ThreadInv

(* The PTCB of an exited thread is freed.                                  *)
LEMMA PtcbFreed ==
  ASSUME TypeOK, ThreadInv, NEW x \in Tids, exited[x],
         ptcb_list' = Without(ptcb_list, {x}), owner' = [owner EXCEPT ![x] = NULL],
         UNCHANGED <<exited, thread_count, pstate>>
  PROVE  ThreadInv' /\ ptcb_list' \in [Pids -> Seq(Tids)]
<1>1. owner'[x] = NULL /\ \A u \in Tids : u # x => owner'[u] = owner[u]
  BY DEF TypeOK
<1>2. ASSUME NEW q \in Pids
      PROVE  /\ ptcb_list'[q] \in Seq(Tids) /\ IsInjective(ptcb_list'[q])
             /\ ToSet(ptcb_list'[q]) = ToSet(ptcb_list[q]) \ {x}
  <2>1. ptcb_list[q] \in Seq(Tids) /\ IsInjective(ptcb_list[q])
    BY DEF TypeOK, ThreadInv
  <2>2. ptcb_list'[q] = Unlink(ptcb_list[q], {x})
    BY DEF Without
  <2> DEFINE D == {x}
  <2>3. /\ Unlink(ptcb_list[q], D) \in Seq(Tids) /\ IsInjective(Unlink(ptcb_list[q], D))
        /\ ToSet(Unlink(ptcb_list[q], D)) = ToSet(ptcb_list[q]) \ D
    <3> HIDE DEF D
    <3> QED BY <2>1, UnlinkOnce
  <2> QED BY <2>2, <2>3
<1>3. ASSUME NEW q \in Pids PROVE ThreadsOf(q)' = ThreadsOf(q) \ {x} /\ LivingOf(q)' = LivingOf(q)
  BY <1>1, PidFacts DEF ThreadsOf, LivingOf
<1>4. ASSUME NEW q \in Pids
      PROVE  /\ IsInjective(ptcb_list'[q]) /\ ToSet(ptcb_list'[q]) = ThreadsOf(q)'
             /\ thread_count'[q] = Cardinality(LivingOf(q)')
             /\ q # 0 => (pstate'[q] = "ALIVE" <=> thread_count'[q] # 0)
  BY <1>2, <1>3 DEF ThreadInv
<1>5. \A u \in Tids : owner'[u] # 0
  BY <1>1, PidFacts DEF ThreadInv
<1>6. ptcb_list' \in [Pids -> Seq(Tids)]
  <2>1. ptcb_list' = [q \in Pids |-> ptcb_list'[q]]
    BY DEF Without
  <2> QED BY <2>1, <1>2
<1> QED BY <1>4, <1>5, <1>6 DEF ThreadInv

-----------------------------------------------------------------------------
(* Blocked calls.                                                          *)

(* Only living threads are in a call.                                      *)
LEMMA CallerLives ==
  ASSUME CallInv, NEW u \in Tids, call[u].op # "none"
  PROVE  Alive(u)
BY DEF CallInv, NoCall

(* Every step: t is the only thread that may change its call, and the      *)
(* calls of the others still find what they refer to.                      *)
LEMMA CallsKept ==
  ASSUME TypeOK, CallInv, NEW t \in Tids,
         \A u \in Tids : u # t =>
           /\ call'[u].op = call[u].op /\ call'[u].arg = call[u].arg
           /\ call[u] = NoCall => call'[u] = NoCall
           /\ Alive(u) => Alive(u)' /\ owner'[u] = owner[u]
           /\ call[u].op = "join" => owner'[call[u].arg] = owner[call[u].arg]
           /\ call[u].op = "waitpid" =>
                /\ call[u].arg > 1 /\ pstate'[call[u].arg] # "FREE"
                /\ parent'[call[u].arg] = owner[u],
         ~ Alive(t)' \/ call'[t].op = "none" => call'[t] = NoCall,
         owner'[t] = owner[t],
         call'[t].op = "join" => call'[t].arg \in Tids /\ owner'[call'[t].arg] = owner[t],
         call'[t].op = "waitpid" =>
           /\ call'[t].arg \in Pids /\ call'[t].arg > 1 /\ pstate'[call'[t].arg] # "FREE"
           /\ parent'[call'[t].arg] = owner[t]
           /\ \A u \in Tids : owner[u] = owner[t] /\ call[u].op \in Reaping => u = t,
         call'[t].op \in Reaping =>
           \A u \in Tids : owner[u] = owner[t] /\ call[u].op = "waitpid" => u = t,
         call'[t].op = "exit" => owner[t] = 1
  PROVE  CallInv'
<1>1. ASSUME NEW u \in Tids, ~ Alive(u)' \/ call'[u].op = "none" PROVE call'[u] = NoCall
  <2>1. CASE u = t
    BY <1>1, <2>1
  <2>2. CASE u # t
    <3>1. ~ Alive(u) \/ call[u].op = "none"
      BY <1>1, <2>2
    <3> QED BY <2>2, <3>1 DEF CallInv
  <2> QED BY <2>1, <2>2
<1>2. ASSUME NEW u \in Tids, call'[u].op = "join"
      PROVE  call'[u].arg \in Tids /\ owner'[call'[u].arg] = owner'[u]
  <2>1. CASE u = t
    BY <1>2, <2>1
  <2>2. CASE u # t
    <3>1. call[u].op = "join" /\ call'[u].arg = call[u].arg
      BY <1>2, <2>2
    <3>2. Alive(u)
      BY <3>1, CallerLives
    <3> QED BY <2>2, <3>1, <3>2 DEF CallInv
  <2> QED BY <2>1, <2>2
<1>3. ASSUME NEW u \in Tids, call'[u].op = "waitpid"
      PROVE  call'[u].arg \in Pids /\ call'[u].arg \in ChildrenOf(owner[u])'
  <2>1. CASE u = t
    BY <1>3, <2>1 DEF ChildrenOf
  <2>2. CASE u # t
    <3>1. call[u].op = "waitpid" /\ call'[u].arg = call[u].arg
      BY <1>3, <2>2
    <3>2. Alive(u)
      BY <3>1, CallerLives
    <3>3. call[u].arg \in Pids /\ owner'[u] = owner[u]
      BY <2>2, <3>1, <3>2 DEF CallInv
    <3> QED BY <2>2, <3>1, <3>3 DEF ChildrenOf
  <2> QED BY <2>1, <2>2
<1>4. ASSUME NEW u \in Tids, NEW v \in Tids,
             call'[u].op = "waitpid", owner'[v] = owner'[u], call'[v].op \in Reaping
      PROVE  v = u
  <2>1. ASSUME NEW w \in Tids, w # t, call'[w].op \in Reaping PROVE owner'[w] = owner[w] /\ call[w].op = call'[w].op
    <3>1. call[w].op = call'[w].op /\ call[w].op # "none"
      BY <2>1 DEF Reaping
    <3> QED BY <2>1, <3>1, CallerLives
  <2>2. call'[u].op \in Reaping
    BY <1>4 DEF Reaping
  <2>3. CASE u = t /\ v # t
    BY <1>4, <2>1, <2>3
  <2>4. CASE u # t /\ v = t
    BY <1>4, <2>1, <2>2, <2>4
  <2>5. CASE u # t /\ v # t
    <3>1. owner[v] = owner[u] /\ call[u].op = "waitpid" /\ call[v].op \in Reaping
      BY <1>4, <2>1, <2>2, <2>5
    <3> QED BY <3>1 DEF CallInv
  <2> QED BY <2>3, <2>4, <2>5
<1>5. ASSUME NEW u \in Tids, call'[u].op = "exit" PROVE owner'[u] = 1
  <2>1. CASE u = t
    BY <1>5, <2>1
  <2>2. CASE u # t
    <3>1. call[u].op = "exit"
      BY <1>5, <2>2
    <3>2. Alive(u)
      BY <3>1, CallerLives
    <3> QED BY <2>2, <3>1, <3>2 DEF CallInv
  <2> QED BY <2>1, <2>2
<1> QED BY <1>1, <1>2, <1>3, <1>4, <1>5 DEF CallInv

(* NoMissedWakeup, case by case.                                           *)
LEMMA Sleeper ==
  ASSUME NoMissedWakeup, NEW u \in Tids, Alive(u), call[u].asleep
  PROVE  /\ call[u].op = "join" => ~ exited[call[u].arg] /\ ~ detached[call[u].arg]
         /\ call[u].op = "waitpid" => pstate[call[u].arg] = "ALIVE"
         /\ call[u].op \notin {"join", "waitpid"} =>
              children_list[owner[u]] # << >> /\ exited_list[owner[u]] = << >>
BY DEF NoMissedWakeup

(* The same for the next state.                                            *)
LEMMA SleepersKept ==
  ASSUME \A u \in Tids : Alive(u)' /\ call'[u].asleep =>
           /\ call'[u].op = "join" => ~ exited'[call'[u].arg] /\ ~ detached'[call'[u].arg]
           /\ call'[u].op = "waitpid" => pstate'[call'[u].arg] = "ALIVE"
           /\ call'[u].op \notin {"join", "waitpid"} =>
                children_list'[owner'[u]] # << >> /\ exited_list'[owner'[u]] = << >>
  PROVE  NoMissedWakeup'
BY DEF NoMissedWakeup

(* A list is empty when nobody belongs on it.                              *)
LEMMA EmptyLists ==
  ASSUME TypeOK, TreeInv, NEW q \in Pids
  PROVE  /\ children_list[q] = << >> <=> ChildrenOf(q) = {}
         /\ exited_list[q] = << >> <=> ZombiesOf(q) = {}
<1>1. /\ children_list[q] \in Seq(Pids) /\ IsInjective(children_list[q]) /\ ToSet(children_list[q]) = ChildrenOf(q)
      /\ exited_list[q] \in Seq(Pids) /\ IsInjective(exited_list[q]) /\ ToSet(exited_list[q]) = ZombiesOf(q)
  BY DEF TypeOK, TreeInv
<1>2. children_list[q] = << >> <=> ToSet(children_list[q]) = {}
  BY <1>1, LengthCounts
<1>3. exited_list[q] = << >> <=> ToSet(exited_list[q]) = {}
  BY <1>1, LengthCounts
<1> QED BY <1>1, <1>2, <1>3

(* The same for the next state.                                            *)
LEMMA EmptyListsAfter ==
  ASSUME children_list' \in [Pids -> Seq(Pids)], exited_list' \in [Pids -> Seq(Pids)], TreeInv',
         NEW q \in Pids
  PROVE  /\ children_list'[q] = << >> <=> ChildrenOf(q)' = {}
         /\ exited_list'[q] = << >> <=> ZombiesOf(q)' = {}
<1>1. /\ children_list'[q] \in Seq(Pids) /\ IsInjective(children_list'[q]) /\ ToSet(children_list'[q]) = ChildrenOf(q)'
      /\ exited_list'[q] \in Seq(Pids) /\ IsInjective(exited_list'[q]) /\ ToSet(exited_list'[q]) = ZombiesOf(q)'
  BY DEF TreeInv
<1>2. children_list'[q] = << >> <=> ToSet(children_list'[q]) = {}
  BY <1>1, LengthCounts
<1>3. exited_list'[q] = << >> <=> ToSet(exited_list'[q]) = {}
  BY <1>1, LengthCounts
<1> QED BY <1>1, <1>2, <1>3

(* Exec and CreateThread.                                                  *)
LEMMA NewThreadCalls ==
  ASSUME TypeOK, CallInv, JoinInv, NoMissedWakeup,
         NEW t \in Tids, Alive(t), NEW x \in Tids, NEW p \in Pids, NEW lost, new_ptcb(x, p, lost),
         \A u \in lost \cap Tids : \A v \in Tids : Alive(v) => owner[v] # owner[u],
         call' = call,
         \A c \in InUse : pstate'[c] = pstate[c] /\ parent'[c] = parent[c],
         \A q \in Pids : children_list[q] # << >> => children_list'[q] # << >>,
         exited_list' = exited_list
  PROVE  CallInv' /\ JoinInv' /\ NoMissedWakeup'
<1>1. /\ owner[x] = NULL
      /\ \A u \in Tids : owner'[u] = IF u = x THEN p ELSE IF u \in lost THEN NULL ELSE owner[u]
      /\ \A u \in Tids : u # x => exited'[u] = exited[u] /\ detached'[u] = detached[u] /\ refcount'[u] = refcount[u]
      /\ refcount'[x] = 0
  BY DEF new_ptcb, TypeOK
<1>2. ASSUME NEW u \in Tids, Alive(u)
      PROVE  u # x /\ u \notin lost /\ owner'[u] = owner[u] /\ Alive(u)' /\ owner[u] \in Pids
  <2>1. u # x /\ u \notin lost
    BY <1>1, <1>2 DEF Alive
  <2>2. owner'[u] = owner[u] /\ exited'[u] = exited[u]
    BY <2>1, <1>1
  <2>3. owner[u] # NULL /\ ~ exited[u] /\ owner[u] \in Pids
    BY <1>2 DEF Alive, TypeOK
  <2> QED BY <2>1, <2>2, <2>3 DEF Alive
<1>3. ASSUME NEW u \in Tids, call[u].op = "join"
      PROVE  /\ Alive(u) /\ call[u].arg \in Tids /\ call[u].arg # x /\ call[u].arg \notin lost
             /\ owner[call[u].arg] = owner[u]
  <2>1. Alive(u) /\ call[u].arg \in Tids /\ owner[call[u].arg] = owner[u]
    BY <1>3, CallerLives DEF CallInv
  <2> QED BY <2>1, <1>1 DEF Alive
<1>4. ASSUME NEW u \in Tids, call[u].op = "waitpid"
      PROVE  /\ Alive(u) /\ call[u].arg \in InUse /\ call[u].arg > 1 /\ parent[call[u].arg] = owner[u]
  BY <1>4, CallerLives DEF CallInv, ChildrenOf, InUse
<1>5. CallInv'
  <2>1. ASSUME NEW u \in Tids
        PROVE  /\ call'[u].op = call[u].op /\ call'[u].arg = call[u].arg
               /\ call[u] = NoCall => call'[u] = NoCall
               /\ Alive(u) => Alive(u)' /\ owner'[u] = owner[u]
    BY <1>2
  <2>2. ASSUME NEW u \in Tids, call[u].op = "join" PROVE owner'[call[u].arg] = owner[call[u].arg]
    BY <1>1, <1>3, <2>2
  <2>3. ASSUME NEW u \in Tids, call[u].op = "waitpid"
        PROVE  /\ call[u].arg > 1 /\ pstate'[call[u].arg] # "FREE" /\ parent'[call[u].arg] = owner[u]
    BY <1>4, <2>3 DEF InUse
  <2>4. ~ Alive(t)' \/ call'[t].op = "none" => call'[t] = NoCall
    BY <1>2 DEF CallInv
  <2>5. owner'[t] = owner[t]
    BY <1>2
  <2>6. call'[t].op = "join" => call'[t].arg \in Tids /\ owner'[call'[t].arg] = owner[t]
    BY <1>3, <2>2
  <2>7. call'[t].op = "waitpid" =>
           /\ call'[t].arg \in Pids /\ call'[t].arg > 1 /\ pstate'[call'[t].arg] # "FREE"
           /\ parent'[call'[t].arg] = owner[t]
           /\ \A u \in Tids : owner[u] = owner[t] /\ call[u].op \in Reaping => u = t
    BY <2>3 DEF CallInv
  <2>8. call'[t].op \in Reaping =>
           \A u \in Tids : owner[u] = owner[t] /\ call[u].op = "waitpid" => u = t
    BY DEF CallInv
  <2>9. call'[t].op = "exit" => owner[t] = 1
    BY DEF CallInv
  <2> QED BY <2>1, <2>2, <2>3, <2>4, <2>5, <2>6, <2>7, <2>8, <2>9, CallsKept
<1>6. JoinInv'
  <2> SUFFICES ASSUME NEW y \in Tids, owner'[y] # NULL PROVE refcount'[y] = Cardinality(Joiners(y)')
    BY DEF JoinInv
  <2>1. Joiners(y)' = Joiners(y)
    BY DEF Joiners
  <2>2. CASE y = x
    <3>1. Joiners(x) = {}
      BY <1>3 DEF Joiners
    <3> QED BY <2>1, <2>2, <3>1, <1>1, FS_EmptySet
  <2>3. CASE y # x
    BY <2>1, <2>3, <1>1 DEF JoinInv
  <2> QED BY <2>2, <2>3
<1>7. ASSUME NEW u \in Tids, Alive(u)', call'[u].asleep
      PROVE  /\ call'[u].op = "join" => ~ exited'[call'[u].arg] /\ ~ detached'[call'[u].arg]
             /\ call'[u].op = "waitpid" => pstate'[call'[u].arg] = "ALIVE"
             /\ call'[u].op \notin {"join", "waitpid"} =>
                  children_list'[owner'[u]] # << >> /\ exited_list'[owner'[u]] = << >>
  <2>1. Alive(u) /\ call[u].asleep
    BY <1>7, CallerLives DEF CallInv, NoCall
  <2>2. owner'[u] = owner[u] /\ owner[u] \in Pids
    BY <2>1, <1>2
  <2>3. /\ call[u].op = "join" => ~ exited[call[u].arg] /\ ~ detached[call[u].arg]
        /\ call[u].op = "waitpid" => pstate[call[u].arg] = "ALIVE"
        /\ call[u].op \notin {"join", "waitpid"} =>
             children_list[owner[u]] # << >> /\ exited_list[owner[u]] = << >>
    BY <2>1, Sleeper
  <2>4. call[u].op = "join" => ~ exited'[call[u].arg] /\ ~ detached'[call[u].arg]
    BY <2>3, <1>1, <1>3
  <2>5. call[u].op = "waitpid" => pstate'[call[u].arg] = "ALIVE"
    BY <2>3, <1>4
  <2> QED BY <2>2, <2>3, <2>4, <2>5
<1>8. NoMissedWakeup'
  BY <1>7, SleepersKept
<1> QED BY <1>5, <1>6, <1>8

(* WaitChild and the loop of Exit in init: t reaps the children in D, which *)
(* is empty when it finds none, and returns or goes to sleep.               *)
LEMMA ReaperCalls ==
  ASSUME TypeOK, ThreadInv, CallInv, JoinInv, TreeInv, NoMissedWakeup,
         NEW t \in Tids, Alive(t), call[t].op \in Reaping \cup {"none"},
         NEW r \in Calls, r.op \in Reaping \cup {"none"}, r.op = "none" => r = NoCall,
         call' = [call EXCEPT ![t] = r], UNCHANGED ptcbVars,
         NEW D, D \subseteq ZombiesOf(owner[t]),
         TreeInv', children_list' \in [Pids -> Seq(Pids)], exited_list' \in [Pids -> Seq(Pids)],
         \A c \in Pids : c \notin D => pstate'[c] = pstate[c] /\ parent'[c] = parent[c],
         \A c \in D : pstate'[c] = "FREE",
         D # {} \/ r.op \in Reaping => \A u \in Tids : u # t /\ owner[u] = owner[t] => call[u].op # "waitpid",
         r.op = "waitpid" =>
           /\ r.arg \in Pids /\ r.arg \in ChildrenOf(owner[t]) /\ pstate[r.arg] = "ALIVE"
           /\ \A u \in Tids : u # t /\ owner[u] = owner[t] => call[u].op \notin Reaping,
         r.op \in {"waitany", "exit"} => ~ (ChildrenOf(owner[t]) \subseteq D) /\ ZombiesOf(owner[t]) \subseteq D,
         r.op = "exit" => owner[t] = 1
  PROVE  CallInv' /\ JoinInv' /\ NoMissedWakeup'
<1>0. PICK p \in Pids : p = owner[t]
  BY LivingProcess
<1>1. /\ owner' = owner /\ exited' = exited /\ detached' = detached /\ refcount' = refcount
      /\ call'[t] = r /\ \A u \in Tids : u # t => call'[u] = call[u]
  BY DEF ptcbVars, TypeOK
<1>2. D \subseteq Pids /\ \A c \in D : c > 1 /\ pstate[c] = "ZOMBIE" /\ parent[c] = p
  BY <1>0 DEF ZombiesOf
<1>3. ASSUME NEW q \in Pids
      PROVE  ChildrenOf(q)' = ChildrenOf(q) \ D /\ ZombiesOf(q)' = ZombiesOf(q) \ D
  BY <1>2 DEF ChildrenOf, ZombiesOf
<1>4. ASSUME NEW u \in Tids, u # t, call[u].op = "waitpid"
      PROVE  /\ call[u].arg \in Pids /\ call[u].arg \notin D /\ call[u].arg > 1 /\ pstate'[call[u].arg] # "FREE"
             /\ parent'[call[u].arg] = owner[u]
  <2>1. /\ call[u].arg \in Pids /\ call[u].arg > 1 /\ pstate[call[u].arg] # "FREE"
        /\ parent[call[u].arg] = owner[u]
    BY <1>4 DEF CallInv, ChildrenOf
  <2>2. call[u].arg \notin D
    BY <1>0, <1>2, <1>4, <2>1
  <2> QED BY <2>1, <2>2
<1>5. CallInv'
  <2>1. ASSUME NEW u \in Tids, u # t
        PROVE  /\ call'[u].op = call[u].op /\ call'[u].arg = call[u].arg
               /\ call[u] = NoCall => call'[u] = NoCall
               /\ Alive(u) => Alive(u)' /\ owner'[u] = owner[u]
               /\ call[u].op = "join" => owner'[call[u].arg] = owner[call[u].arg]
    BY <1>1, <2>1 DEF Alive
  <2>2. ASSUME NEW u \in Tids, u # t, call[u].op = "waitpid"
        PROVE  call[u].arg > 1 /\ pstate'[call[u].arg] # "FREE" /\ parent'[call[u].arg] = owner[u]
    BY <1>4, <2>2
  <2>3. owner'[t] = owner[t]
    BY <1>1
  <2>4. ~ Alive(t)' \/ call'[t].op = "none" => call'[t] = NoCall
    BY <1>1 DEF Alive
  <2>6. call'[t].op = "join" => call'[t].arg \in Tids /\ owner'[call'[t].arg] = owner[t]
    BY <1>1 DEF Reaping
  <2>7. call'[t].op = "waitpid" =>
           /\ call'[t].arg \in Pids /\ call'[t].arg > 1 /\ pstate'[call'[t].arg] # "FREE"
           /\ parent'[call'[t].arg] = owner[t]
           /\ \A u \in Tids : owner[u] = owner[t] /\ call[u].op \in Reaping => u = t
    <3> SUFFICES ASSUME r.op = "waitpid"
                 PROVE  /\ r.arg \in Pids /\ r.arg > 1 /\ pstate'[r.arg] # "FREE" /\ parent'[r.arg] = owner[t]
                        /\ \A u \in Tids : owner[u] = owner[t] /\ call[u].op \in Reaping => u = t
      BY <1>1
    <3>1. r.arg \in Pids /\ r.arg > 1 /\ parent[r.arg] = owner[t] /\ pstate[r.arg] = "ALIVE"
      BY DEF ChildrenOf
    <3>2. r.arg \notin D
      BY <1>2, <3>1
    <3>3. pstate'[r.arg] = "ALIVE" /\ parent'[r.arg] = owner[t]
      BY <3>1, <3>2
    <3>4. \A u \in Tids : owner[u] = owner[t] /\ call[u].op \in Reaping => u = t
      OBVIOUS
    <3> QED BY <3>1, <3>3, <3>4
  <2>8. call'[t].op \in Reaping =>
           \A u \in Tids : owner[u] = owner[t] /\ call[u].op = "waitpid" => u = t
    BY <1>1
  <2>9. call'[t].op = "exit" => owner[t] = 1
    BY <1>1
  <2> QED BY <2>1, <2>2, <2>3, <2>4, <2>6, <2>7, <2>8, <2>9, CallsKept, SMTT(30)
<1>6. JoinInv'
  <2> SUFFICES ASSUME NEW y \in Tids, owner'[y] # NULL PROVE refcount'[y] = Cardinality(Joiners(y)')
    BY DEF JoinInv
  <2>1. Joiners(y)' = Joiners(y)
    BY <1>1 DEF Joiners, Reaping
  <2> QED BY <2>1, <1>1 DEF JoinInv
<1>7. ASSUME NEW u \in Tids, Alive(u)', call'[u].asleep
      PROVE  /\ call'[u].op = "join" => ~ exited'[call'[u].arg] /\ ~ detached'[call'[u].arg]
             /\ call'[u].op = "waitpid" => pstate'[call'[u].arg] = "ALIVE"
             /\ call'[u].op \notin {"join", "waitpid"} =>
                  children_list'[owner'[u]] # << >> /\ exited_list'[owner'[u]] = << >>
  <2>1. CASE u = t
    <3>1. call'[u] = r /\ owner'[u] = p
      BY <2>1, <1>0, <1>1
    <3>2. r.op = "waitpid" => pstate'[r.arg] = "ALIVE"
      BY <1>2
    <3>3. r.op \in {"waitany", "exit"} => children_list'[p] # << >> /\ exited_list'[p] = << >>
      <4>1. r.op \in {"waitany", "exit"} => ChildrenOf(p)' # {} /\ ZombiesOf(p)' = {}
        BY <1>0, <1>3
      <4>2. /\ children_list'[p] = << >> <=> ChildrenOf(p)' = {}
            /\ exited_list'[p] = << >> <=> ZombiesOf(p)' = {}
        BY EmptyListsAfter
      <4> QED BY <4>1, <4>2
    <3>4. r.op # "none" /\ r.op # "join"
      BY <1>7, <3>1 DEF NoCall, Reaping
    <3>5. r.op \in {"waitpid", "waitany", "exit"}
      BY <3>4 DEF Reaping
    <3> QED BY <3>1, <3>2, <3>3, <3>4, <3>5
  <2>2. CASE u # t
    <3>1. call'[u] = call[u] /\ call[u].asleep /\ Alive(u)
      BY <2>2, <1>1, <1>7 DEF Alive
    <3>2. /\ call[u].op = "join" => ~ exited[call[u].arg] /\ ~ detached[call[u].arg]
          /\ call[u].op = "waitpid" => pstate[call[u].arg] = "ALIVE"
          /\ call[u].op \notin {"join", "waitpid"} =>
               children_list[owner[u]] # << >> /\ exited_list[owner[u]] = << >>
      BY <3>1, Sleeper
    <3>3. PICK q \in Pids : q = owner[u]
      BY <3>1, LivingProcess
    <3>4. call[u].op = "waitpid" => pstate'[call[u].arg] = "ALIVE"
      BY <2>2, <3>2, <1>4
    <3>5. ASSUME call[u].op \notin {"join", "waitpid"}
          PROVE  children_list'[q] # << >> /\ exited_list'[q] = << >>
      <4>1. ChildrenOf(q) # {} /\ ZombiesOf(q) = {}
        BY <3>2, <3>3, <3>5, EmptyLists
      <4>2. ChildrenOf(q) \cap D = {}
        <5>1. CASE q = p
          BY <4>1, <5>1, <1>0
        <5>2. CASE q # p
          BY <5>2, <1>2 DEF ChildrenOf
        <5> QED BY <5>1, <5>2
      <4>3. ChildrenOf(q)' # {} /\ ZombiesOf(q)' = {}
        BY <1>3, <4>1, <4>2
      <4>4. /\ children_list'[q] = << >> <=> ChildrenOf(q)' = {}
            /\ exited_list'[q] = << >> <=> ZombiesOf(q)' = {}
        BY EmptyListsAfter
      <4> QED BY <4>3, <4>4
    <3> QED BY <1>1, <3>1, <3>2, <3>3, <3>4, <3>5
  <2> QED BY <2>1, <2>2
<1>8. NoMissedWakeup'
  BY <1>7, SleepersKept
<1> QED BY <1>5, <1>6, <1>8

(* What kernel_broadcast does to the call of a sleeper.                    *)
LEMMA Woken ==
  ASSUME NEW c \in Calls
  PROVE  /\ [c EXCEPT !.asleep = FALSE] \in Calls
         /\ [c EXCEPT !.asleep = FALSE].op = c.op /\ [c EXCEPT !.asleep = FALSE].arg = c.arg
         /\ [c EXCEPT !.asleep = FALSE].asleep = FALSE
         /\ c = NoCall => [c EXCEPT !.asleep = FALSE] = NoCall
<1> DEFINE d == [c EXCEPT !.asleep = FALSE]
<1>1. d \in Calls /\ d.op = c.op /\ d.arg = c.arg /\ d.asleep = FALSE
  BY DEF Calls
<1>2. \A a, b \in Calls : a.op = b.op /\ a.arg = b.arg /\ a.asleep = b.asleep => a = b
  BY DEF Calls
<1> HIDE DEF d
<1>3. ASSUME c = NoCall PROVE d = NoCall
  <2>1. NoCall \in Calls /\ c.op = NoCall.op /\ c.arg = NoCall.arg /\ NoCall.asleep = FALSE
    BY <1>3 DEF NoCall
  <2> QED BY <1>1, <1>2, <2>1
<1> QED BY <1>1, <1>3 DEF d

(* A broadcast changes nothing of a call but whether it sleeps.            *)
LEMMA AwakeFacts ==
  ASSUME TypeOK, NEW S
  PROVE  /\ Awake(S) \in [Tids -> Calls]
         /\ \A u \in Tids : /\ Awake(S)[u].op = call[u].op /\ Awake(S)[u].arg = call[u].arg
                            /\ call[u] = NoCall => Awake(S)[u] = NoCall
                            /\ Awake(S)[u].asleep => u \notin S /\ call[u].asleep
<1>1. ASSUME NEW u \in Tids
      PROVE  /\ Awake(S)[u] \in Calls
             /\ Awake(S)[u].op = call[u].op /\ Awake(S)[u].arg = call[u].arg
             /\ call[u] = NoCall => Awake(S)[u] = NoCall
             /\ Awake(S)[u].asleep => u \notin S /\ call[u].asleep
  <2>1. call[u] \in Calls
    BY DEF TypeOK
  <2>2. CASE u \notin S
    <3>1. Awake(S)[u] = call[u]
      BY <2>2 DEF Awake
    <3> QED BY <2>1, <2>2, <3>1
  <2>3. CASE u \in S
    <3>1. Awake(S)[u] = [call[u] EXCEPT !.asleep = FALSE]
      BY <2>3 DEF Awake
    <3> QED BY <2>1, <3>1, Woken
  <2> QED BY <2>2, <2>3
<1>2. Awake(S) = [u \in Tids |-> Awake(S)[u]]
  BY DEF Awake
<1> HIDE DEF Awake
<1> QED BY <1>1, <1>2

(* ThreadExit: t leaves, and S are the threads that are woken up.          *)
LEMMA ExitCalls ==
  ASSUME TypeOK, CallInv, JoinInv, NoMissedWakeup,
         NEW t \in Tids, Alive(t), call[t].op # "join",
         exited' = [exited EXCEPT ![t] = TRUE], UNCHANGED <<owner, detached, refcount>>,
         NEW S, OnExitCv(t) \subseteq S,
         \A u \in Tids : u # t =>
           call'[u] = IF u \in S THEN [call[u] EXCEPT !.asleep = FALSE] ELSE call[u],
         call'[t] = NoCall,
         \A u \in Tids : u # t /\ call[u].op = "waitpid" =>
           /\ pstate'[call[u].arg] # "FREE" /\ parent'[call[u].arg] = owner[u]
           /\ u \notin S /\ pstate[call[u].arg] = "ALIVE" => pstate'[call[u].arg] = "ALIVE",
         \A u \in Tids : u # t /\ u \notin S /\ call[u].op \in {"waitany", "exit"} /\ call[u].asleep =>
           children_list'[owner[u]] # << >> /\ exited_list'[owner[u]] = << >>
  PROVE  CallInv' /\ JoinInv' /\ NoMissedWakeup'
<1>1. exited'[t] = TRUE /\ \A u \in Tids : u # t => exited'[u] = exited[u]
  BY DEF TypeOK
<1>2. ASSUME NEW u \in Tids, u # t
      PROVE  /\ call'[u].op = call[u].op /\ call'[u].arg = call[u].arg
             /\ call[u] = NoCall => call'[u] = NoCall
             /\ call'[u].asleep => u \notin S /\ call[u].asleep
  <2>1. call[u] \in Calls
    BY DEF TypeOK
  <2>2. CASE u \notin S
    BY <1>2, <2>2
  <2>3. CASE u \in S
    <3>1. call'[u] = [call[u] EXCEPT !.asleep = FALSE]
      BY <1>2, <2>3
    <3> QED BY <2>1, <3>1, Woken
  <2> QED BY <2>2, <2>3
<1>3. ASSUME NEW u \in Tids, u # t PROVE Alive(u)' <=> Alive(u)
  BY <1>1, <1>3 DEF Alive
<1>4. CallInv'
  <2>1. ASSUME NEW u \in Tids, u # t
        PROVE  /\ Alive(u) => Alive(u)' /\ owner'[u] = owner[u]
               /\ call[u].op = "join" => owner'[call[u].arg] = owner[call[u].arg]
               /\ call[u].op = "waitpid" =>
                    /\ call[u].arg > 1 /\ pstate'[call[u].arg] # "FREE" /\ parent'[call[u].arg] = owner[u]
    BY <1>3, <2>1 DEF CallInv, ChildrenOf
  <2>2. call'[t].op = "none" /\ call'[t].op \notin Reaping
    BY DEF NoCall, Reaping
  <2> QED BY <1>2, <2>1, <2>2, CallsKept
<1>5. JoinInv'
  <2> SUFFICES ASSUME NEW y \in Tids, owner'[y] # NULL PROVE refcount'[y] = Cardinality(Joiners(y)')
    BY DEF JoinInv
  <2>1. Joiners(y)' = Joiners(y)
    BY <1>2 DEF Joiners, NoCall
  <2> QED BY <2>1 DEF JoinInv
<1>6. ASSUME NEW u \in Tids, Alive(u)', call'[u].asleep
      PROVE  /\ call'[u].op = "join" => ~ exited'[call'[u].arg] /\ ~ detached'[call'[u].arg]
             /\ call'[u].op = "waitpid" => pstate'[call'[u].arg] = "ALIVE"
             /\ call'[u].op \notin {"join", "waitpid"} =>
                  children_list'[owner'[u]] # << >> /\ exited_list'[owner'[u]] = << >>
  <2>1. u # t
    BY <1>6 DEF NoCall
  <2>2. Alive(u) /\ call[u].asleep /\ u \notin S /\ call'[u].op = call[u].op /\ call'[u].arg = call[u].arg
    BY <2>1, <1>2, <1>3, <1>6
  <2>3. /\ call[u].op = "join" => ~ exited[call[u].arg] /\ ~ detached[call[u].arg]
        /\ call[u].op = "waitpid" => pstate[call[u].arg] = "ALIVE"
    BY <2>2, Sleeper
  <2>4. ASSUME call[u].op = "join" PROVE ~ exited'[call[u].arg] /\ ~ detached'[call[u].arg]
    <3>1. call[u].arg # t
      BY <2>2, <2>4 DEF OnExitCv, Alive
    <3>2. call[u].arg \in Tids
      BY <2>4 DEF CallInv
    <3> QED BY <2>3, <2>4, <3>1, <3>2, <1>1
  <2>5. call[u].op = "waitpid" => pstate'[call[u].arg] = "ALIVE"
    BY <2>1, <2>2, <2>3
  <2>6. call[u].op # "none"
    BY <2>2 DEF CallInv, NoCall
  <2>7. call[u].op \in {"none", "join", "waitpid", "waitany", "exit"}
    BY DEF TypeOK, Calls
  <2>8. call[u].op \notin {"join", "waitpid"} => children_list'[owner[u]] # << >> /\ exited_list'[owner[u]] = << >>
    BY <2>1, <2>2, <2>6, <2>7
  <2> QED BY <2>2, <2>4, <2>5, <2>8
<1>7. NoMissedWakeup'
  BY <1>6, SleepersKept
<1> QED BY <1>4, <1>5, <1>7

(* ThreadJoin that has to wait.                                            *)
LEMMA JoinCalls ==
  ASSUME TypeOK, CallInv, JoinInv, NoMissedWakeup,
         NEW t \in Tids, Running(t), NEW x \in Tids, owner[x] = owner[t], ~ exited[x], ~ detached[x],
         refcount' = [refcount EXCEPT ![x] = @ + 1],
         call' = [call EXCEPT ![t] = [op |-> "join", arg |-> x, asleep |-> TRUE]],
         UNCHANGED <<pcbVars, owner, exited, detached>>
  PROVE  /\ CallInv' /\ JoinInv' /\ NoMissedWakeup'
         /\ refcount' \in [Tids -> Nat] /\ call' \in [Tids -> Calls]
<1> DEFINE r == [op |-> "join", arg |-> x, asleep |-> TRUE]
<1>1. r \in Calls /\ r.op = "join" /\ r.arg = x /\ r.asleep = TRUE
  BY DEF Calls
<1>2. call' = [call EXCEPT ![t] = r]
  OBVIOUS
<1> HIDE DEF r
<1>3. call'[t] = r /\ (\A u \in Tids : u # t => call'[u] = call[u]) /\ call' \in [Tids -> Calls]
  <2>1. call \in [Tids -> Calls]
    BY DEF TypeOK
  <2>2. call'[t] = r /\ \A u \in Tids : u # t => call'[u] = call[u]
    BY <1>2, <2>1
  <2>3. call' \in [Tids -> Calls]
    BY <1>1, <1>2, <2>1
  <2> QED BY <2>2, <2>3
<1>4. /\ refcount'[x] = refcount[x] + 1 /\ \A y \in Tids : y # x => refcount'[y] = refcount[y]
      /\ refcount' \in [Tids -> Nat]
  BY DEF TypeOK
<1>5. /\ pstate' = pstate /\ parent' = parent /\ children_list' = children_list /\ exited_list' = exited_list
      /\ owner' = owner /\ exited' = exited /\ detached' = detached
  BY DEF pcbVars
<1>6. Alive(t) /\ call[t].op = "none"
  BY DEF Running
<1>7. CallInv'
  <2>1. ASSUME NEW u \in Tids, u # t
        PROVE  /\ call'[u].op = call[u].op /\ call'[u].arg = call[u].arg
               /\ call[u] = NoCall => call'[u] = NoCall
               /\ Alive(u) => Alive(u)' /\ owner'[u] = owner[u]
               /\ call[u].op = "join" => owner'[call[u].arg] = owner[call[u].arg]
               /\ call[u].op = "waitpid" =>
                    /\ call[u].arg > 1 /\ pstate'[call[u].arg] # "FREE" /\ parent'[call[u].arg] = owner[u]
    BY <2>1, <1>3, <1>5 DEF Alive, CallInv, ChildrenOf
  <2>2. Alive(t)' /\ call'[t].op = "join" /\ call'[t].arg = x /\ call'[t].op \notin Reaping /\ owner'[t] = owner[t]
    BY <1>1, <1>3, <1>5, <1>6 DEF Alive, Reaping
  <2> QED BY <1>5, <2>1, <2>2, CallsKept
<1>8. JoinInv'
  <2> SUFFICES ASSUME NEW y \in Tids, owner'[y] # NULL PROVE refcount'[y] = Cardinality(Joiners(y)')
    BY DEF JoinInv
  <2>1. CASE y = x
    <3>1. Joiners(y)' = Joiners(y) \cup {t} /\ t \notin Joiners(y)
      BY <2>1, <1>1, <1>3, <1>6 DEF Joiners
    <3>2. IsFiniteSet(Joiners(y)) /\ refcount[y] = Cardinality(Joiners(y))
      BY <1>5, FiniteParts DEF JoinInv
    <3>3. Cardinality(Joiners(y) \cup {t}) = Cardinality(Joiners(y)) + 1
      BY <3>1, <3>2, FS_AddElement
    <3> QED BY <2>1, <3>1, <3>2, <3>3, <1>4
  <2>2. CASE y # x
    <3>1. Joiners(y)' = Joiners(y)
      BY <2>2, <1>1, <1>3, <1>6 DEF Joiners
    <3> QED BY <2>2, <3>1, <1>4, <1>5 DEF JoinInv
  <2> QED BY <2>1, <2>2
<1>9. ASSUME NEW u \in Tids, Alive(u)', call'[u].asleep
      PROVE  /\ call'[u].op = "join" => ~ exited'[call'[u].arg] /\ ~ detached'[call'[u].arg]
             /\ call'[u].op = "waitpid" => pstate'[call'[u].arg] = "ALIVE"
             /\ call'[u].op \notin {"join", "waitpid"} =>
                  children_list'[owner'[u]] # << >> /\ exited_list'[owner'[u]] = << >>
  <2>1. CASE u = t
    BY <2>1, <1>1, <1>3, <1>5
  <2>2. CASE u # t
    <3>1. call'[u] = call[u] /\ call[u].asleep /\ Alive(u)
      BY <2>2, <1>3, <1>5, <1>9 DEF Alive
    <3>2. /\ call[u].op = "join" => ~ exited[call[u].arg] /\ ~ detached[call[u].arg]
          /\ call[u].op = "waitpid" => pstate[call[u].arg] = "ALIVE"
          /\ call[u].op \notin {"join", "waitpid"} =>
               children_list[owner[u]] # << >> /\ exited_list[owner[u]] = << >>
      BY <3>1, Sleeper
    <3> QED BY <3>1, <3>2, <1>5
  <2> QED BY <2>1, <2>2
<1>10. NoMissedWakeup'
  BY <1>9, SleepersKept
<1> QED BY <1>3, <1>4, <1>7, <1>8, <1>10

(* ThreadJoin that returns: the PTCB is freed when t was its last joiner.  *)
LEMMA JoinDone ==
  ASSUME TypeOK, CallInv, JoinInv, NoMissedWakeup,
         NEW t \in Tids, Alive(t), NEW x \in Tids, owner[x] = owner[t],
         \/ call[t] = NoCall /\ call' = call /\ refcount' = refcount
         \/ /\ t \in Joiners(x)
            /\ call' = [call EXCEPT ![t] = NoCall] /\ refcount' = [refcount EXCEPT ![x] = @ - 1],
         \/ owner' = owner
         \/ owner' = [owner EXCEPT ![x] = NULL] /\ exited[x] /\ Joiners(x) \subseteq {t},
         UNCHANGED <<pcbVars, exited, detached>>
  PROVE  /\ CallInv' /\ JoinInv' /\ NoMissedWakeup'
         /\ refcount' \in [Tids -> Nat] /\ call' \in [Tids -> Calls]
<1>1. NoCall \in Calls /\ NoCall.op = "none" /\ NoCall.asleep = FALSE
  BY DEF NoCall, Calls
<1>2. call'[t] = NoCall /\ (\A u \in Tids : u # t => call'[u] = call[u]) /\ call' \in [Tids -> Calls]
  <2>1. call \in [Tids -> Calls]
    BY DEF TypeOK
  <2>2. CASE call[t] = NoCall /\ call' = call
    BY <2>1, <2>2
  <2>3. CASE call' = [call EXCEPT ![t] = NoCall]
    BY <1>1, <2>1, <2>3
  <2> QED BY <2>2, <2>3
<1>3. /\ pstate' = pstate /\ parent' = parent /\ children_list' = children_list /\ exited_list' = exited_list
      /\ exited' = exited /\ detached' = detached
  BY DEF pcbVars
<1>4. /\ \A u \in Tids : Alive(u) => owner'[u] = owner[u]
      /\ \A u \in Tids : u # t /\ call[u].op = "join" => owner'[call[u].arg] = owner[call[u].arg]
      /\ \A u \in Tids : owner'[u] # NULL => owner'[u] = owner[u]
  <2>1. CASE owner' = owner
    BY <2>1
  <2>2. CASE owner' = [owner EXCEPT ![x] = NULL] /\ exited[x] /\ Joiners(x) \subseteq {t}
    <3>1. owner'[x] = NULL /\ \A u \in Tids : u # x => owner'[u] = owner[u]
      BY <2>2 DEF TypeOK
    <3>2. \A u \in Tids : Alive(u) => u # x
      BY <2>2 DEF Alive
    <3>3. ASSUME NEW u \in Tids, u # t, call[u].op = "join" PROVE call[u].arg \in Tids /\ call[u].arg # x
      BY <2>2, <3>3 DEF Joiners, CallInv
    <3> QED BY <3>1, <3>2, <3>3
  <2> QED BY <2>1, <2>2
<1>5. ASSUME NEW u \in Tids PROVE Alive(u)' <=> Alive(u) /\ owner'[u] = owner[u]
  BY <1>3, <1>4 DEF Alive
<1>6. CallInv'
  <2>1. ASSUME NEW u \in Tids, u # t
        PROVE  /\ call'[u].op = call[u].op /\ call'[u].arg = call[u].arg
               /\ call[u] = NoCall => call'[u] = NoCall
               /\ Alive(u) => Alive(u)' /\ owner'[u] = owner[u]
    BY <2>1, <1>2, <1>4, <1>5
  <2>2. ASSUME NEW u \in Tids, u # t
        PROVE  /\ call[u].op = "join" => owner'[call[u].arg] = owner[call[u].arg]
               /\ call[u].op = "waitpid" =>
                    /\ call[u].arg > 1 /\ pstate'[call[u].arg] # "FREE" /\ parent'[call[u].arg] = owner[u]
    BY <2>2, <1>3, <1>4 DEF CallInv, ChildrenOf
  <2>3. call'[t] = NoCall /\ call'[t].op = "none" /\ call'[t].op \notin Reaping /\ owner'[t] = owner[t]
    BY <1>1, <1>2, <1>4 DEF Reaping
  <2> QED BY <2>1, <2>2, <2>3, CallsKept
<1>7. JoinInv' /\ refcount' \in [Tids -> Nat]
  <2>1. CASE call[t] = NoCall /\ call' = call /\ refcount' = refcount
    <3>1. ASSUME NEW y \in Tids PROVE Joiners(y)' = Joiners(y)
      BY <2>1 DEF Joiners
    <3> QED BY <2>1, <3>1, <1>4 DEF JoinInv, TypeOK
  <2>2. CASE /\ t \in Joiners(x)
             /\ call' = [call EXCEPT ![t] = NoCall] /\ refcount' = [refcount EXCEPT ![x] = @ - 1]
    <3>1. Joiners(x)' = Joiners(x) \ {t}
      BY <1>1, <1>2 DEF Joiners
    <3>2. ASSUME NEW y \in Tids, y # x PROVE Joiners(y)' = Joiners(y)
      BY <2>2, <3>2, <1>1, <1>2 DEF Joiners
    <3>3. refcount'[x] = refcount[x] - 1 /\ \A y \in Tids : y # x => refcount'[y] = refcount[y]
      BY <2>2 DEF TypeOK
    <3>4. IsFiniteSet(Joiners(x)) /\ Cardinality(Joiners(x)) \in Nat /\ Cardinality(Joiners(x)) # 0
      BY <2>2, FiniteParts
    <3>5. refcount[x] = Cardinality(Joiners(x))
      BY DEF JoinInv, Alive
    <3>6. Cardinality(Joiners(x) \ {t}) = Cardinality(Joiners(x)) - 1
      BY <2>2, <3>4, FS_RemoveElement
    <3>7. refcount'[x] \in Nat
      BY <3>3, <3>4, <3>5
    <3>8. refcount' \in [Tids -> Nat]
      BY <2>2, <3>3, <3>7 DEF TypeOK
    <3>9. ASSUME NEW y \in Tids, owner'[y] # NULL PROVE refcount'[y] = Cardinality(Joiners(y)')
      <4>1. CASE y = x
        BY <4>1, <3>1, <3>3, <3>5, <3>6
      <4>2. CASE y # x
        BY <4>2, <3>2, <3>3, <3>9, <1>4 DEF JoinInv
      <4> QED BY <4>1, <4>2
    <3> QED BY <3>8, <3>9 DEF JoinInv
  <2> QED BY <2>1, <2>2
<1>8. ASSUME NEW u \in Tids, Alive(u)', call'[u].asleep
      PROVE  /\ call'[u].op = "join" => ~ exited'[call'[u].arg] /\ ~ detached'[call'[u].arg]
             /\ call'[u].op = "waitpid" => pstate'[call'[u].arg] = "ALIVE"
             /\ call'[u].op \notin {"join", "waitpid"} =>
                  children_list'[owner'[u]] # << >> /\ exited_list'[owner'[u]] = << >>
  <2>1. u # t
    BY <1>1, <1>2, <1>8
  <2>2. call'[u] = call[u] /\ call[u].asleep /\ Alive(u) /\ owner'[u] = owner[u]
    BY <2>1, <1>2, <1>5, <1>8
  <2>3. /\ call[u].op = "join" => ~ exited[call[u].arg] /\ ~ detached[call[u].arg]
        /\ call[u].op = "waitpid" => pstate[call[u].arg] = "ALIVE"
        /\ call[u].op \notin {"join", "waitpid"} =>
             children_list[owner[u]] # << >> /\ exited_list[owner[u]] = << >>
    BY <2>2, Sleeper
  <2> QED BY <2>2, <2>3, <1>3
<1>9. NoMissedWakeup'
  BY <1>8, SleepersKept
<1> QED BY <1>2, <1>6, <1>7, <1>9

(* sys_ThreadDetach wakes every joiner; the calls keep their counts.       *)
LEMMA DetachCalls ==
  ASSUME TypeOK, CallInv, JoinInv, NoMissedWakeup, NEW t \in Tids, Running(t), NEW x \in Tids,
         detached' = [detached EXCEPT ![x] = TRUE], call' = Awake(OnExitCv(x)),
         UNCHANGED <<pcbVars, owner, exited, refcount>>
  PROVE  CallInv' /\ JoinInv' /\ NoMissedWakeup'
<1>1. \A u \in Tids : /\ call'[u].op = call[u].op /\ call'[u].arg = call[u].arg
                      /\ call[u] = NoCall => call'[u] = NoCall
                      /\ call'[u].asleep => u \notin OnExitCv(x) /\ call[u].asleep
  BY AwakeFacts
<1>2. /\ pstate' = pstate /\ parent' = parent /\ children_list' = children_list /\ exited_list' = exited_list
      /\ owner' = owner /\ exited' = exited /\ refcount' = refcount
  BY DEF pcbVars
<1>3. ASSUME NEW u \in Tids PROVE Alive(u)' <=> Alive(u)
  BY <1>2 DEF Alive
<1>4. CallInv'
  <2>1. ASSUME NEW u \in Tids
        PROVE  /\ Alive(u) => Alive(u)' /\ owner'[u] = owner[u]
               /\ call[u].op = "join" => owner'[call[u].arg] = owner[call[u].arg]
               /\ call[u].op = "waitpid" =>
                    /\ call[u].arg > 1 /\ pstate'[call[u].arg] # "FREE" /\ parent'[call[u].arg] = owner[u]
    BY <1>2, <1>3 DEF CallInv, ChildrenOf
  <2>2. call[t] = NoCall
    BY DEF Running, CallInv
  <2>3. call'[t] = NoCall /\ owner'[t] = owner[t] /\ NoCall.op = "none" /\ NoCall.op \notin Reaping
    <3>1. NoCall.op = "none" /\ NoCall.op \notin Reaping
      BY DEF Reaping, NoCall
    <3> QED BY <2>2, <3>1, <1>1, <1>2
  <2> QED BY <1>1, <2>1, <2>3, CallsKept
<1>5. JoinInv'
  <2>1. ASSUME NEW y \in Tids PROVE Joiners(y)' = Joiners(y)
    BY <1>1 DEF Joiners
  <2> QED BY <2>1, <1>2 DEF JoinInv
<1>6. ASSUME NEW u \in Tids, Alive(u)', call'[u].asleep
      PROVE  /\ call'[u].op = "join" => ~ exited'[call'[u].arg] /\ ~ detached'[call'[u].arg]
             /\ call'[u].op = "waitpid" => pstate'[call'[u].arg] = "ALIVE"
             /\ call'[u].op \notin {"join", "waitpid"} =>
                  children_list'[owner'[u]] # << >> /\ exited_list'[owner'[u]] = << >>
  <2>1. /\ call'[u].op = call[u].op /\ call'[u].arg = call[u].arg
        /\ call[u].asleep /\ u \notin OnExitCv(x) /\ Alive(u)
    BY <1>1, <1>3, <1>6
  <2>2. /\ call[u].op = "join" => ~ exited[call[u].arg] /\ ~ detached[call[u].arg]
        /\ call[u].op = "waitpid" => pstate[call[u].arg] = "ALIVE"
        /\ call[u].op \notin {"join", "waitpid"} =>
             children_list[owner[u]] # << >> /\ exited_list[owner[u]] = << >>
    BY <2>1, Sleeper
  <2>3. ASSUME call[u].op = "join" PROVE ~ detached'[call[u].arg]
    <3>1. call[u].arg \in Tids /\ call[u].arg # x
      BY <2>1, <2>3 DEF OnExitCv, Alive, CallInv
    <3> QED BY <2>2, <2>3, <3>1 DEF TypeOK
  <2> QED BY <2>1, <2>2, <2>3, <1>2
<1>7. NoMissedWakeup'
  BY <1>6, SleepersKept
<1> QED BY <1>4, <1>5, <1>7

-----------------------------------------------------------------------------
(* The steps.                                                              *)

(* A step that leaves the cursor, the listing and the PCBs alone keeps the *)
(* listing.                                                                *)
LEMMA SameListing ==
  ASSUME TypeOK, ListingInv, UNCHANGED infoVars
  PROVE  ListingInv' /\ PT_cursor' \in 0 .. MAX_PROC \cup {NULL} /\ reported' \in Seq(Pids)
BY DEF ListingInv, infoVars, TypeOK

(* The number of processes is in the range of its type.                    *)
LEMMA CountType ==
  ASSUME FreeInv'
  PROVE  process_count' \in 0 .. MAX_PROC
<1>1. InUse' \in SUBSET Pids
  BY DEF InUse
<1>2. IsFiniteSet(InUse') /\ Cardinality(InUse') <= MAX_PROC
  BY <1>1, PidFacts, FS_Subset
<1>3. Cardinality(InUse') \in Nat
  BY <1>2, FS_CardinalityType
<1> QED BY <1>2, <1>3, PidFacts DEF FreeInv

(* sys_Exec: a new process with its first thread.                          *)
LEMMA ExecStep ==
  ASSUME IInv, NEW t \in Tids, NEW p \in Pids, NEW x \in Tids, Exec(t, p, x)
  PROVE  IInv'
<1>0. /\ TypeOK /\ ThreadInv /\ CallInv /\ JoinInv /\ TreeInv /\ RankInv /\ FreeInv
      /\ NoMissedWakeup /\ ListingInv
  BY DEF IInv
<1>1. /\ Alive(t) /\ acquire_PCB(p) /\ new_ptcb(x, p, ToSet(ptcb_list[p]))
      /\ ptcb_list' = [ptcb_list EXCEPT ![p] = <<x>>] /\ thread_count' = [thread_count EXCEPT ![p] = 1]
      /\ exited_list' = exited_list /\ call' = call /\ UNCHANGED infoVars
      /\ pstate' = [pstate EXCEPT ![p] = "ALIVE"] /\ pcb_freelist = p
  BY DEF Exec, Running, acquire_PCB
<1>2. PICK q \in Pids : q = owner[t]
  BY <1>0, <1>1, LivingProcess
<1>3. q # 0 /\ pstate[q] = "ALIVE"
  BY <1>0, <1>1, <1>2, LivingProcess
<1>4. parent' = [parent EXCEPT ![p] = q] /\ children_list' = [children_list EXCEPT ![q] = Cons(p, @)]
  BY <1>2 DEF Exec
<1>5. /\ TreeInv' /\ RankInv' /\ FreeInv'
      /\ children_list' \in [Pids -> Seq(Pids)] /\ pcb_freelist' \in Pids \cup {NULL}
  BY <1>0, <1>1, <1>3, <1>4, AcquireTree
<1>6. pstate[p] = "FREE" /\ p \notin InUse /\ p > 1 /\ p # 0
  BY <1>0, <1>1, HeadIsFree, PidOrder
<1>7. ThreadInv'
  BY <1>0, <1>1, <1>6, FirstThread
<1>8. CallInv' /\ JoinInv' /\ NoMissedWakeup'
  <2> DEFINE lost == ToSet(ptcb_list[p])
  <2>1. ASSUME NEW u \in lost \cap Tids, NEW v \in Tids, Alive(v) PROVE owner[v] # owner[u]
    <3>1. owner[u] = p
      BY <2>1, <1>0 DEF ThreadInv, ThreadsOf
    <3>2. pstate[owner[v]] = "ALIVE"
      BY <1>0, <2>1, LivingProcess
    <3> QED BY <3>1, <3>2, <1>6
  <2>2. \A c \in InUse : pstate'[c] = pstate[c] /\ parent'[c] = parent[c]
    BY <1>0, <1>1, <1>4, <1>6 DEF TypeOK, InUse
  <2>3. ASSUME NEW c \in Pids, children_list[c] # << >> PROVE children_list'[c] # << >>
    <3>1. CASE c = q
      <4>1. parent'[p] = q /\ pstate'[p] = "ALIVE"
        BY <1>0, <1>1, <1>4 DEF TypeOK
      <4>2. ChildrenOf(q)' # {}
        BY <4>1, <1>6 DEF ChildrenOf
      <4>3. exited_list' \in [Pids -> Seq(Pids)]
        BY <1>0, <1>1 DEF TypeOK
      <4> QED BY <3>1, <4>2, <4>3, <1>5, EmptyListsAfter
    <3>2. CASE c # q
      BY <3>2, <2>3, <1>0, <1>4 DEF TypeOK
    <3> QED BY <3>1, <3>2
  <2>4. new_ptcb(x, p, lost)
    BY <1>1
  <2> HIDE DEF lost
  <2> QED BY <1>0, <1>1, <2>1, <2>2, <2>3, <2>4, NewThreadCalls
<1>9. TypeOK'
  <2>1. pstate' \in [Pids -> {"FREE", "ALIVE", "ZOMBIE"}] /\ parent' \in [Pids -> Pids \cup {NULL}]
    BY <1>0, <1>1, <1>4 DEF TypeOK
  <2>2. exited_list' \in [Pids -> Seq(Pids)] /\ call' \in [Tids -> Calls]
    BY <1>0, <1>1 DEF TypeOK
  <2>3. thread_count' \in [Pids -> Nat]
    BY <1>0, <1>1 DEF TypeOK
  <2>4. ptcb_list' \in [Pids -> Seq(Tids)]
    BY <1>0, <1>1 DEF TypeOK
  <2>5. owner' \in [Tids -> Pids \cup {NULL}]
    BY <1>0, <1>1 DEF TypeOK, new_ptcb
  <2>6. exited' \in [Tids -> BOOLEAN] /\ detached' \in [Tids -> BOOLEAN] /\ refcount' \in [Tids -> Nat]
    BY <1>0, <1>1 DEF TypeOK, new_ptcb
  <2>7. PT_cursor' \in 0 .. MAX_PROC \cup {NULL} /\ reported' \in Seq(Pids)
    BY <1>0, <1>1, SameListing
  <2>8. process_count' \in 0 .. MAX_PROC
    BY <1>5, CountType
  <2> QED BY <1>5, <2>1, <2>2, <2>3, <2>4, <2>5, <2>6, <2>7, <2>8 DEF TypeOK
<1>10. ListingInv'
  BY <1>0, <1>1, SameListing
<1> QED BY <1>5, <1>7, <1>8, <1>9, <1>10 DEF IInv

(* sys_CreateThread: one thread more in the process.                       *)
LEMMA CreateThreadStep ==
  ASSUME IInv, NEW t \in Tids, NEW x \in Tids, CreateThread(t, x)
  PROVE  IInv'
<1>0. /\ TypeOK /\ ThreadInv /\ CallInv /\ JoinInv /\ TreeInv /\ RankInv /\ FreeInv
      /\ NoMissedWakeup /\ ListingInv
  BY DEF IInv
<1>1. Alive(t) /\ UNCHANGED pcbVars /\ call' = call /\ UNCHANGED infoVars
  BY DEF CreateThread, Running
<1>2. PICK p \in Pids : p = owner[t]
  BY <1>0, <1>1, LivingProcess
<1>3. p # 0 /\ pstate[p] = "ALIVE"
  BY <1>0, <1>1, <1>2, LivingProcess
<1>4. new_ptcb(x, p, {}) /\ ptcb_list' = [ptcb_list EXCEPT ![p] = Append(@, x)] /\ CountThread(p)
  BY <1>2 DEF CreateThread
<1>5. /\ pstate' = pstate /\ parent' = parent /\ pcb_freelist' = pcb_freelist
      /\ process_count' = process_count /\ children_list' = children_list /\ exited_list' = exited_list
  BY <1>1 DEF pcbVars
<1>6. TreeInv' /\ RankInv' /\ FreeInv'
  BY <1>0, <1>1, SamePcbs
<1>7. ThreadInv' /\ ptcb_list' \in [Pids -> Seq(Tids)]
  BY <1>0, <1>3, <1>4, <1>5, OneThreadMore
<1>8. CallInv' /\ JoinInv' /\ NoMissedWakeup'
  <2> DEFINE lost == {}
  <2>1. new_ptcb(x, p, lost)
    BY <1>4
  <2>2. \A u \in lost \cap Tids : \A v \in Tids : Alive(v) => owner[v] # owner[u]
    OBVIOUS
  <2> HIDE DEF lost
  <2>3. \A c \in InUse : pstate'[c] = pstate[c] /\ parent'[c] = parent[c]
    BY <1>5
  <2>4. \A c \in Pids : children_list[c] # << >> => children_list'[c] # << >>
    BY <1>5
  <2> QED BY <1>0, <1>1, <1>5, <2>1, <2>2, <2>3, <2>4, NewThreadCalls
<1>9. TypeOK'
  <2>1. /\ pstate' \in [Pids -> {"FREE", "ALIVE", "ZOMBIE"}] /\ parent' \in [Pids -> Pids \cup {NULL}]
        /\ pcb_freelist' \in Pids \cup {NULL} /\ process_count' \in 0 .. MAX_PROC
        /\ children_list' \in [Pids -> Seq(Pids)] /\ exited_list' \in [Pids -> Seq(Pids)]
        /\ call' \in [Tids -> Calls]
    BY <1>0, <1>1, <1>5 DEF TypeOK
  <2>2. thread_count' \in [Pids -> Nat]
    BY <1>0, <1>4 DEF TypeOK, CountThread
  <2>3. owner' \in [Tids -> Pids \cup {NULL}]
    BY <1>0, <1>4 DEF TypeOK, new_ptcb
  <2>4. exited' \in [Tids -> BOOLEAN] /\ detached' \in [Tids -> BOOLEAN] /\ refcount' \in [Tids -> Nat]
    BY <1>0, <1>4 DEF TypeOK, new_ptcb
  <2>5. PT_cursor' \in 0 .. MAX_PROC \cup {NULL} /\ reported' \in Seq(Pids)
    BY <1>0, <1>1, SameListing
  <2> QED BY <1>7, <2>1, <2>2, <2>3, <2>4, <2>5 DEF TypeOK
<1>10. ListingInv'
  BY <1>0, <1>1, SameListing
<1> QED BY <1>6, <1>7, <1>8, <1>9, <1>10 DEF IInv

(* One round of a reaping loop that frees the PCBs of zs.                  *)
LEMMA ReapStep ==
  ASSUME IInv, NEW t \in Tids, Alive(t), call[t].op \in Reaping \cup {"none"},
         NEW zs, ZombieList(zs), ToSet(zs) \subseteq ZombiesOf(owner[t]),
         Recycle(zs), pstate' = Freed(zs), UNCHANGED <<ptcbVars, infoVars>>,
         NEW r \in Calls, r.op \in {"none", "exit"}, r.op = "none" => r = NoCall,
         call' = [call EXCEPT ![t] = r],
         \A u \in Tids : u # t /\ owner[u] = owner[t] => call[u].op # "waitpid",
         r.op = "exit" => /\ owner[t] = 1
                          /\ ~ (ChildrenOf(owner[t]) \subseteq ToSet(zs)) /\ ZombiesOf(owner[t]) \subseteq ToSet(zs)
  PROVE  IInv'
<1>0. /\ TypeOK /\ ThreadInv /\ CallInv /\ JoinInv /\ TreeInv /\ RankInv /\ FreeInv
      /\ NoMissedWakeup /\ ListingInv
  BY DEF IInv
<1>1. /\ pstate' \in [Pids -> {"FREE", "ALIVE", "ZOMBIE"}] /\ InUse' = InUse \ ToSet(zs)
      /\ \A p \in Pids : p # 1 => pstate'[p] = IF p \in ToSet(zs) THEN "FREE" ELSE pstate[p]
      /\ 0 \notin ToSet(zs) /\ 1 \notin ToSet(zs)
  BY <1>0, FreedFacts
<1>2. pstate'[1] = pstate[1]
  <2>1. ~ Contains(zs, 1)
    BY <1>1, ContainsElement DEF ZombieList
  <2> QED BY <2>1, PidFacts DEF Freed
<1>3. /\ children_list' \in [Pids -> Seq(Pids)] /\ exited_list' \in [Pids -> Seq(Pids)]
      /\ parent' \in [Pids -> Pids \cup {NULL}] /\ pcb_freelist' \in Pids \cup {NULL}
      /\ \A p \in Pids : p \notin ToSet(zs) => parent'[p] = parent[p]
  BY <1>0, RecycleFacts
<1>4. TreeInv'
  BY <1>0, ReapTree
<1>5. RankInv'
  BY <1>0, <1>1, <1>3, ReapRank
<1>6. FreeInv'
  BY <1>0, <1>1, ReapFree
<1>7. ToSet(zs) \subseteq Pids /\ \A c \in ToSet(zs) : pstate[c] = "ZOMBIE"
  BY DEF ZombieList
<1>8. ThreadInv'
  <2>1. \A p \in Pids : p # 0 => (pstate'[p] = "ALIVE" <=> pstate[p] = "ALIVE")
    BY <1>1, <1>2, <1>7
  <2> QED BY <1>0, <2>1, SameThreads DEF ptcbVars
<1>9. CallInv' /\ JoinInv' /\ NoMissedWakeup'
  <2> DEFINE D == ToSet(zs)
  <2>1. \A c \in Pids : c \notin D => pstate'[c] = pstate[c] /\ parent'[c] = parent[c]
    BY <1>1, <1>2, <1>3
  <2>2. \A c \in D : pstate'[c] = "FREE"
    BY <1>1, <1>7
  <2>3. r.op \in Reaping \cup {"none"} /\ r.op # "waitpid" /\ (r.op \in {"waitany", "exit"} <=> r.op = "exit")
    BY DEF Reaping
  <2>4. UNCHANGED ptcbVars /\ D \subseteq ZombiesOf(owner[t])
    OBVIOUS
  <2>5. r.op = "exit" => ~ (ChildrenOf(owner[t]) \subseteq D) /\ ZombiesOf(owner[t]) \subseteq D
    OBVIOUS
  <2> HIDE DEF D
  <2> QED BY <1>0, <1>3, <1>4, <2>1, <2>2, <2>3, <2>4, <2>5, ReaperCalls
<1>10. TypeOK'
  <2>1. call' \in [Tids -> Calls]
    BY <1>0 DEF TypeOK
  <2>2. /\ thread_count' \in [Pids -> Nat] /\ ptcb_list' \in [Pids -> Seq(Tids)]
        /\ owner' \in [Tids -> Pids \cup {NULL}] /\ exited' \in [Tids -> BOOLEAN]
        /\ detached' \in [Tids -> BOOLEAN] /\ refcount' \in [Tids -> Nat]
    BY <1>0 DEF TypeOK, ptcbVars
  <2>3. PT_cursor' \in 0 .. MAX_PROC \cup {NULL} /\ reported' \in Seq(Pids)
    BY <1>0, SameListing
  <2>4. process_count' \in 0 .. MAX_PROC
    BY <1>6, CountType
  <2> QED BY <1>1, <1>3, <2>1, <2>2, <2>3, <2>4 DEF TypeOK
<1>11. ListingInv'
  BY <1>0, SameListing
<1> QED BY <1>4, <1>5, <1>6, <1>8, <1>9, <1>10, <1>11 DEF IInv

(* One round that reaps nothing: t returns or goes to sleep.               *)
LEMMA BlockStep ==
  ASSUME IInv, NEW t \in Tids, Alive(t), call[t].op \in Reaping \cup {"none"},
         UNCHANGED <<pcbVars, ptcbVars, infoVars>>,
         NEW r \in Calls, r.op \in {"none", "waitpid", "waitany"}, r.op = "none" => r = NoCall,
         call' = [call EXCEPT ![t] = r],
         r.op # "none" => \A u \in Tids : u # t /\ owner[u] = owner[t] => call[u].op # "waitpid",
         r.op = "waitpid" =>
           /\ r.arg \in Pids /\ r.arg \in ChildrenOf(owner[t]) /\ pstate[r.arg] = "ALIVE"
           /\ \A u \in Tids : u # t /\ owner[u] = owner[t] => call[u].op \notin Reaping,
         r.op = "waitany" => ChildrenOf(owner[t]) # {} /\ ZombiesOf(owner[t]) = {}
  PROVE  IInv'
<1>0. /\ TypeOK /\ ThreadInv /\ CallInv /\ JoinInv /\ TreeInv /\ RankInv /\ FreeInv
      /\ NoMissedWakeup /\ ListingInv
  BY DEF IInv
<1>1. /\ pstate' = pstate /\ parent' = parent /\ pcb_freelist' = pcb_freelist
      /\ process_count' = process_count /\ children_list' = children_list /\ exited_list' = exited_list
      /\ thread_count' = thread_count /\ ptcb_list' = ptcb_list /\ owner' = owner /\ exited' = exited
      /\ detached' = detached /\ refcount' = refcount
  BY DEF pcbVars, ptcbVars
<1>2. TreeInv' /\ RankInv' /\ FreeInv'
  BY <1>0, SamePcbs
<1>3. ThreadInv'
  BY <1>0, <1>1, SameThreads
<1>4. children_list' \in [Pids -> Seq(Pids)] /\ exited_list' \in [Pids -> Seq(Pids)]
  BY <1>0, <1>1 DEF TypeOK
<1>5. CallInv' /\ JoinInv' /\ NoMissedWakeup'
  <2> DEFINE D == {}
  <2>1. /\ \A c \in Pids : c \notin D => pstate'[c] = pstate[c] /\ parent'[c] = parent[c]
        /\ \A c \in D : pstate'[c] = "FREE"
        /\ D \subseteq ZombiesOf(owner[t])
    BY <1>1
  <2>2. r.op \in Reaping \cup {"none"} /\ r.op # "exit" /\ (r.op \in Reaping => r.op # "none")
    BY DEF Reaping
  <2>3. UNCHANGED ptcbVars
    OBVIOUS
  <2>4. r.op \in {"waitany", "exit"} => ~ (ChildrenOf(owner[t]) \subseteq D) /\ ZombiesOf(owner[t]) \subseteq D
    BY <2>2
  <2>5. D # {} \/ r.op \in Reaping => \A u \in Tids : u # t /\ owner[u] = owner[t] => call[u].op # "waitpid"
    BY <2>2
  <2> HIDE DEF D
  <2> QED BY <1>0, <1>2, <1>4, <2>1, <2>2, <2>3, <2>4, <2>5, ReaperCalls
<1>6. TypeOK'
  <2>1. call' \in [Tids -> Calls]
    BY <1>0 DEF TypeOK
  <2>2. PT_cursor' \in 0 .. MAX_PROC \cup {NULL} /\ reported' \in Seq(Pids)
    BY <1>0, SameListing
  <2> QED BY <1>0, <1>1, <2>1, <2>2 DEF TypeOK
<1>7. ListingInv'
  BY <1>0, SameListing
<1> QED BY <1>2, <1>3, <1>5, <1>6, <1>7 DEF IInv

(* sys_WaitChild for one process recycles a list of one zombie.            *)
LEMMA OneZombie ==
  ASSUME NEW q, NEW c \in ZombiesOf(q)
  PROVE  ZombieList(<<c>>) /\ ToSet(<<c>>) = {c}
BY DEF ZombieList, ZombiesOf, ToSet, IsInjective

(* One round of wait_for_specific_child: the child is reaped, or the       *)
(* thread sleeps.                                                          *)
LEMMA WaitSpecificStep ==
  ASSUME IInv, NEW t \in Tids, Alive(t), call[t].op \in {"none", "waitpid"},
         NEW c \in Pids, c \in ChildrenOf(owner[t]),
         \A u \in Tids : u # t /\ owner[u] = owner[t] => call[u].op \notin Reaping,
         WaitSpecificLoop(t, c), UNCHANGED <<ptcbVars, infoVars>>
  PROVE  IInv'
<1>1. call[t].op \in Reaping \cup {"none"} /\ \A u \in Tids : u # t /\ owner[u] = owner[t] => call[u].op # "waitpid"
  BY DEF Reaping
<1>2. CASE pstate[c] = "ALIVE" /\ UNCHANGED pcbVars
           /\ call' = [call EXCEPT ![t] = [op |-> "waitpid", arg |-> c, asleep |-> TRUE]]
  <2> DEFINE r == [op |-> "waitpid", arg |-> c, asleep |-> TRUE]
  <2>1. r \in Calls /\ r.op = "waitpid" /\ r.arg = c /\ call' = [call EXCEPT ![t] = r]
    BY <1>2 DEF Calls
  <2> HIDE DEF r
  <2> QED BY <1>1, <1>2, <2>1, BlockStep
<1>3. CASE pstate[c] # "ALIVE" /\ cleanup_zombie(c) /\ call' = [call EXCEPT ![t] = NoCall]
  <2>1. c \in ZombiesOf(owner[t])
    BY <1>3 DEF ChildrenOf, ZombiesOf, IInv, TypeOK
  <2> DEFINE zs == <<c>>
  <2>2. ZombieList(zs) /\ ToSet(zs) \subseteq ZombiesOf(owner[t])
    BY <2>1, OneZombie
  <2>3. Recycle(zs) /\ pstate' = Freed(zs)
    BY <1>3 DEF cleanup_zombie
  <2>4. NoCall \in Calls /\ NoCall.op = "none"
    BY DEF NoCall, Calls
  <2> HIDE DEF zs
  <2> QED BY <1>1, <1>3, <2>2, <2>3, <2>4, ReapStep
<1> QED BY <1>2, <1>3 DEF WaitSpecificLoop

(* One round of wait_for_any_child: a zombie is reaped, the thread sleeps, *)
(* or there is no child.                                                   *)
LEMMA WaitAnyStep ==
  ASSUME IInv, NEW t \in Tids, Alive(t), call[t].op \in {"none", "waitany"},
         \A u \in Tids : u # t /\ owner[u] = owner[t] => call[u].op # "waitpid",
         WaitAnyLoop(t), UNCHANGED <<ptcbVars, infoVars>>
  PROVE  IInv'
<1>0. TypeOK /\ ThreadInv /\ TreeInv
  BY DEF IInv
<1>1. call[t].op \in Reaping \cup {"none"}
  BY DEF Reaping
<1>2. PICK p \in Pids : p = owner[t]
  BY <1>0, LivingProcess
<1>3. NoCall \in Calls /\ NoCall.op = "none"
  BY DEF NoCall, Calls
<1>4. CASE UNCHANGED pcbVars /\ call' = [call EXCEPT ![t] = NoCall]
  BY <1>1, <1>3, <1>4, BlockStep
<1>5. CASE /\ exited_list[p] # << >> /\ cleanup_zombie(Head(exited_list[p]))
           /\ call' = [call EXCEPT ![t] = NoCall]
  <2> DEFINE c == Head(exited_list[p])
             zs == <<c>>
  <2>1. exited_list[p] \in Seq(Pids) /\ ToSet(exited_list[p]) = ZombiesOf(p)
    BY <1>0 DEF TypeOK, TreeInv
  <2>2. Head(exited_list[p]) \in ToSet(exited_list[p])
    BY <1>5, <2>1, LenProperties, EmptySeq DEF ToSet
  <2>3. Recycle(zs) /\ pstate' = Freed(zs)
    BY <1>5 DEF cleanup_zombie
  <2>4. c \in ZombiesOf(owner[t])
    BY <1>2, <2>1, <2>2
  <2> HIDE DEF c
  <2>5. ZombieList(zs) /\ ToSet(zs) \subseteq ZombiesOf(owner[t])
    BY <2>4, OneZombie
  <2> HIDE DEF zs
  <2> QED BY <1>1, <1>3, <1>5, <2>3, <2>5, ReapStep
<1>6. CASE /\ children_list[p] # << >> /\ exited_list[p] = << >> /\ UNCHANGED pcbVars
           /\ call' = [call EXCEPT ![t] = [op |-> "waitany", arg |-> NULL, asleep |-> TRUE]]
  <2> DEFINE r == [op |-> "waitany", arg |-> NULL, asleep |-> TRUE]
  <2>1. r \in Calls /\ r.op = "waitany" /\ call' = [call EXCEPT ![t] = r]
    BY <1>6 DEF Calls
  <2>2. ChildrenOf(owner[t]) # {} /\ ZombiesOf(owner[t]) = {}
    BY <1>0, <1>2, <1>6, EmptyLists
  <2> HIDE DEF r
  <2> QED BY <1>1, <1>6, <2>1, <2>2, BlockStep
<1> QED BY <1>2, <1>4, <1>5, <1>6 DEF WaitAnyLoop

(* A thread exits that is not the last one of its process.                 *)
LEMMA EarlyExitStep ==
  ASSUME IInv, NEW t \in Tids, Running(t), thread_count[owner[t]] > 1, UNCHANGED pcbVars,
         exited' = [exited EXCEPT ![t] = TRUE],
         thread_count' = [thread_count EXCEPT ![owner[t]] = @ - 1],
         call' = Awake(OnExitCv(t)), UNCHANGED <<ptcb_list, owner, detached, refcount, infoVars>>
  PROVE  IInv'
<1>0. /\ TypeOK /\ ThreadInv /\ CallInv /\ JoinInv /\ TreeInv /\ RankInv /\ FreeInv
      /\ NoMissedWakeup /\ ListingInv
  BY DEF IInv
<1>1. Alive(t) /\ call[t].op = "none" /\ call[t] = NoCall
  BY <1>0 DEF Running, CallInv
<1>2. /\ pstate' = pstate /\ parent' = parent /\ pcb_freelist' = pcb_freelist
      /\ process_count' = process_count /\ children_list' = children_list /\ exited_list' = exited_list
  BY DEF pcbVars
<1>3. TreeInv' /\ RankInv' /\ FreeInv'
  BY <1>0, SamePcbs
<1>4. ThreadInv' /\ thread_count' \in [Pids -> Nat]
  <2>1. pstate'[owner[t]] = "ALIVE" /\ thread_count[owner[t]] # 1 /\ owner[t] \in Pids
    <3>1. pstate[owner[t]] = "ALIVE" /\ thread_count[owner[t]] \in Nat /\ owner[t] \in Pids
      BY <1>0, <1>1, LivingProcess
    <3> QED BY <1>2, <3>1
  <2>2. \A q \in Pids : q # owner[t] /\ q # 0 => (pstate'[q] = "ALIVE" <=> pstate[q] = "ALIVE")
    BY <1>2
  <2> QED BY <1>0, <1>1, <2>1, <2>2, OneThreadLess
<1>5. CallInv' /\ JoinInv' /\ NoMissedWakeup'
  <2> DEFINE S == OnExitCv(t)
  <2>1. /\ \A u \in Tids : u # t => call'[u] = IF u \in S THEN [call[u] EXCEPT !.asleep = FALSE] ELSE call[u]
        /\ OnExitCv(t) \subseteq S
    BY DEF Awake
  <2>2. call'[t] = NoCall
    BY <1>0, <1>1, AwakeFacts
  <2>3. ASSUME NEW u \in Tids, u # t, call[u].op = "waitpid"
        PROVE  /\ pstate'[call[u].arg] # "FREE" /\ parent'[call[u].arg] = owner[u]
               /\ u \notin S /\ pstate[call[u].arg] = "ALIVE" => pstate'[call[u].arg] = "ALIVE"
    BY <1>0, <1>2, <2>3 DEF CallInv, ChildrenOf
  <2>4. ASSUME NEW u \in Tids, u # t, u \notin S, call[u].op \in {"waitany", "exit"}, call[u].asleep
        PROVE  children_list'[owner[u]] # << >> /\ exited_list'[owner[u]] = << >>
    <3>1. Alive(u)
      BY <1>0, <2>4, CallerLives
    <3> QED BY <1>0, <1>2, <2>4, <3>1, Sleeper
  <2>5. call[t].op # "join" /\ UNCHANGED <<owner, detached, refcount>>
    BY <1>1
  <2> HIDE DEF S
  <2>6. \A u \in Tids : u # t /\ call[u].op = "waitpid" =>
           /\ pstate'[call[u].arg] # "FREE" /\ parent'[call[u].arg] = owner[u]
           /\ u \notin S /\ pstate[call[u].arg] = "ALIVE" => pstate'[call[u].arg] = "ALIVE"
    BY <2>3
  <2>7. \A u \in Tids : u # t /\ u \notin S /\ call[u].op \in {"waitany", "exit"} /\ call[u].asleep =>
           children_list'[owner[u]] # << >> /\ exited_list'[owner[u]] = << >>
    BY <2>4
  <2> QED BY <1>0, <1>1, <2>1, <2>2, <2>5, <2>6, <2>7, ExitCalls
<1>6. TypeOK'
  <2>1. call' \in [Tids -> Calls]
    BY <1>0, AwakeFacts
  <2>2. exited' \in [Tids -> BOOLEAN]
    BY <1>0 DEF TypeOK
  <2>3. PT_cursor' \in 0 .. MAX_PROC \cup {NULL} /\ reported' \in Seq(Pids)
    BY <1>0, SameListing
  <2> QED BY <1>0, <1>2, <1>4, <2>1, <2>2, <2>3 DEF TypeOK
<1>7. ListingInv'
  BY <1>0, SameListing
<1> QED BY <1>3, <1>4, <1>5, <1>6, <1>7 DEF IInv

(* The last thread of a process other than init exits.                     *)
LEMMA LastExitStep ==
  ASSUME IInv, NEW t \in Tids, Running(t), thread_count[owner[t]] = 1, owner[t] # 1,
         EndProcess(t, owner[t]),
         exited' = [exited EXCEPT ![t] = TRUE],
         thread_count' = [thread_count EXCEPT ![owner[t]] = @ - 1],
         UNCHANGED <<ptcb_list, owner, detached, refcount, infoVars>>
  PROVE  IInv'
<1>0. /\ TypeOK /\ ThreadInv /\ CallInv /\ JoinInv /\ TreeInv /\ RankInv /\ FreeInv
      /\ NoMissedWakeup /\ ListingInv
  BY DEF IInv
<1>1. Alive(t) /\ call[t].op = "none" /\ call[t] = NoCall
  BY <1>0 DEF Running, CallInv
<1>2. PICK p \in Pids : p = owner[t]
  BY <1>0, <1>1, LivingProcess
<1>3. p # 0 /\ p # 1 /\ pstate[p] = "ALIVE" /\ t \in LivingOf(p)
  BY <1>0, <1>1, <1>2, LivingProcess
<1>4. p > 1
  BY <1>3, PidOrder
<1>5. EndProcess(t, p)
  BY <1>2
<1>6. /\ TreeInv' /\ RankInv' /\ FreeInv'
      /\ children_list' \in [Pids -> Seq(Pids)] /\ exited_list' \in [Pids -> Seq(Pids)]
      /\ parent' \in [Pids -> Pids \cup {NULL}]
      /\ pstate' \in [Pids -> {"FREE", "ALIVE", "ZOMBIE"}]
      /\ pstate'[p] = "ZOMBIE" /\ \A c \in Pids : c # p => pstate'[c] = pstate[c]
      /\ parent'[p] = parent[p] /\ parent[p] \in Pids
      /\ \A c \in Pids : parent'[c] = IF c \in ChildrenOf(p) THEN 1 ELSE parent[c]
  BY <1>0, <1>3, <1>4, <1>5, EndTree
<1>7. ThreadInv' /\ thread_count' \in [Pids -> Nat]
  <2>1. pstate'[owner[t]] # "ALIVE" /\ thread_count[owner[t]] = 1
    BY <1>2, <1>6
  <2>2. \A q \in Pids : q # owner[t] /\ q # 0 => (pstate'[q] = "ALIVE" <=> pstate[q] = "ALIVE")
    BY <1>2, <1>6
  <2> QED BY <1>0, <1>1, <2>1, <2>2, OneThreadLess
<1>8. ASSUME NEW u \in Tids, u # t, call[u].op # "none" PROVE Alive(u) /\ owner[u] \in Pids /\ owner[u] # p
  <2>1. Alive(u) /\ owner[u] \in Pids /\ u \in LivingOf(owner[u])
    BY <1>0, <1>8, CallerLives, LivingProcess
  <2>2. LivingOf(p) = {t}
    <3>1. Cardinality(LivingOf(p)) = 1 /\ IsFiniteSet(LivingOf(p))
      BY <1>0, <1>2, FiniteParts DEF ThreadInv
    <3>2. \E y : LivingOf(p) = {y}
      BY <3>1, FS_Singleton
    <3> QED BY <3>2, <1>3
  <2> QED BY <2>1, <2>2, <1>8
<1> DEFINE S == OnExitCv(t) \cup OnChildExit(parent[p]) \cup (IF exited_list[p] # << >> THEN OnChildExit(1) ELSE {})
<1>9. call' = Awake(S)
  BY <1>5 DEF EndProcess, ExitBroadcasts
<1>10. /\ OnExitCv(t) \subseteq S /\ OnChildExit(parent[p]) \subseteq S
       /\ exited_list[p] # << >> => OnChildExit(1) \subseteq S
  OBVIOUS
<1> HIDE DEF S
<1>11. ASSUME NEW u \in Tids, u # t, call[u].op \in Reaping, u \notin S
       PROVE  owner[u] # parent[p] /\ (exited_list[p] # << >> => owner[u] # 1)
  BY <1>10, <1>11 DEF OnChildExit, Reaping
<1>12. CallInv' /\ JoinInv' /\ NoMissedWakeup'
  <2>1. \A u \in Tids : u # t => call'[u] = IF u \in S THEN [call[u] EXCEPT !.asleep = FALSE] ELSE call[u]
    BY <1>9 DEF Awake
  <2>2. call'[t] = NoCall
    BY <1>0, <1>1, <1>9, AwakeFacts
  <2>3. ASSUME NEW u \in Tids, u # t, call[u].op = "waitpid"
        PROVE  /\ pstate'[call[u].arg] # "FREE" /\ parent'[call[u].arg] = owner[u]
               /\ u \notin S /\ pstate[call[u].arg] = "ALIVE" => pstate'[call[u].arg] = "ALIVE"
    <3>1. call[u].arg \in Pids /\ pstate[call[u].arg] # "FREE" /\ parent[call[u].arg] = owner[u]
      BY <1>0, <2>3 DEF CallInv, ChildrenOf
    <3>2. owner[u] # p
      BY <1>8, <2>3
    <3>3. call[u].arg \notin ChildrenOf(p)
      BY <3>1, <3>2 DEF ChildrenOf
    <3>4. call[u].op \in Reaping
      BY <2>3 DEF Reaping
    <3>5. u \notin S => call[u].arg # p
      BY <1>11, <2>3, <3>1, <3>4
    <3> QED BY <1>6, <3>1, <3>3, <3>5
  <2>4. ASSUME NEW u \in Tids, u # t, u \notin S, call[u].op \in {"waitany", "exit"}, call[u].asleep
        PROVE  children_list'[owner[u]] # << >> /\ exited_list'[owner[u]] = << >>
    <3>1. Alive(u) /\ owner[u] \in Pids /\ owner[u] # p
      BY <1>8, <2>4
    <3>2. PICK q \in Pids : q = owner[u]
      BY <3>1
    <3>3. q # p /\ q # parent[p] /\ (exited_list[p] # << >> => q # 1)
      BY <1>11, <2>4, <3>1, <3>2 DEF Reaping
    <3>4. ChildrenOf(q) # {} /\ ZombiesOf(q) = {}
      BY <1>0, <2>4, <3>1, <3>2, Sleeper, EmptyLists
    <3>5. ChildrenOf(q)' # {}
      <4>1. PICK c : c \in ChildrenOf(q)
        BY <3>4
      <4>2. c \in Pids /\ c > 1 /\ pstate[c] # "FREE" /\ parent[c] = q /\ c \notin ChildrenOf(p)
        BY <3>3, <4>1 DEF ChildrenOf
      <4>3. pstate'[c] # "FREE" /\ parent'[c] = q
        BY <1>6, <4>2
      <4> QED BY <4>2, <4>3 DEF ChildrenOf
    <3>6. ASSUME NEW c \in ZombiesOf(q)' PROVE FALSE
      <4>1. c \in Pids /\ c > 1 /\ pstate'[c] = "ZOMBIE" /\ parent'[c] = q
        BY DEF ZombiesOf
      <4>2. c # p
        BY <1>6, <3>3, <4>1
      <4>3. pstate[c] = "ZOMBIE"
        BY <1>6, <4>1, <4>2
      <4>4. CASE c \in ChildrenOf(p)
        <5>1. q = 1 /\ c \in ZombiesOf(p)
          BY <1>6, <4>1, <4>3, <4>4 DEF ChildrenOf, ZombiesOf
        <5>2. exited_list[p] # << >>
          BY <1>0, <5>1, EmptyLists
        <5> QED BY <3>3, <5>1, <5>2
      <4>5. CASE c \notin ChildrenOf(p)
        <5>1. parent[c] = q
          BY <1>6, <4>1, <4>5
        <5> QED BY <3>4, <4>1, <4>3, <5>1 DEF ZombiesOf
      <4> QED BY <4>4, <4>5
    <3>7. ZombiesOf(q)' = {}
      BY <3>6
    <3>8. /\ children_list'[q] = << >> <=> ChildrenOf(q)' = {}
          /\ exited_list'[q] = << >> <=> ZombiesOf(q)' = {}
      BY <1>6, EmptyListsAfter
    <3> QED BY <3>2, <3>5, <3>7, <3>8
  <2>5. call[t].op # "join" /\ UNCHANGED <<owner, detached, refcount>>
    BY <1>1
  <2>6. \A u \in Tids : u # t /\ call[u].op = "waitpid" =>
           /\ pstate'[call[u].arg] # "FREE" /\ parent'[call[u].arg] = owner[u]
           /\ u \notin S /\ pstate[call[u].arg] = "ALIVE" => pstate'[call[u].arg] = "ALIVE"
    BY <2>3
  <2>7. \A u \in Tids : u # t /\ u \notin S /\ call[u].op \in {"waitany", "exit"} /\ call[u].asleep =>
           children_list'[owner[u]] # << >> /\ exited_list'[owner[u]] = << >>
    BY <2>4
  <2> QED BY <1>0, <1>1, <1>10, <2>1, <2>2, <2>5, <2>6, <2>7, ExitCalls
<1>13. TypeOK'
  <2>1. call' \in [Tids -> Calls]
    BY <1>0, <1>9, AwakeFacts
  <2>2. exited' \in [Tids -> BOOLEAN]
    BY <1>0 DEF TypeOK
  <2>3. PT_cursor' \in 0 .. MAX_PROC \cup {NULL} /\ reported' \in Seq(Pids)
    BY <1>0, SameListing
  <2>4. pcb_freelist' = pcb_freelist /\ process_count' = process_count
    BY <1>5 DEF EndProcess
  <2> QED BY <1>0, <1>6, <1>7, <2>1, <2>2, <2>3, <2>4 DEF TypeOK
<1>14. ListingInv'
  BY <1>0, SameListing
<1> QED BY <1>6, <1>7, <1>12, <1>13, <1>14 DEF IInv

(* sys_ThreadExit, whether or not other threads are left.                  *)
LEMMA ThreadExitStep ==
  ASSUME IInv, NEW t \in Tids, Running(t), owner[t] = 1 => thread_count[1] > 1, sys_ThreadExit(t)
  PROVE  IInv'
<1>1. /\ exited' = [exited EXCEPT ![t] = TRUE]
      /\ thread_count' = [thread_count EXCEPT ![owner[t]] = @ - 1]
      /\ UNCHANGED <<ptcb_list, owner, detached, refcount, infoVars>>
  BY DEF sys_ThreadExit
<1>2. CASE thread_count[owner[t]] > 1 /\ call' = Awake(OnExitCv(t)) /\ UNCHANGED pcbVars
  BY <1>1, <1>2, EarlyExitStep
<1>3. CASE thread_count[owner[t]] = 1 /\ owner[t] # 1 /\ EndProcess(t, owner[t])
  BY <1>1, <1>3, LastExitStep
<1>4. CASE thread_count[owner[t]] = 1 /\ owner[t] = 1
  BY <1>4
<1> QED BY <1>2, <1>3, <1>4 DEF sys_ThreadExit

(* Exit in init when no other child is left: t exits, and with the last    *)
(* thread init ends.                                                       *)
LEMMA InitLeavesStep ==
  ASSUME IInv, NEW t \in Tids, Alive(t), owner[t] = 1, call[t].op \in {"none", "exit"},
         \A u \in Tids : u # t /\ owner[u] = 1 => call[u].op # "waitpid",
         NEW zs, zs = exited_list[1], Recycle(zs), ~ ChildrenRemain(zs),
         exited' = [exited EXCEPT ![t] = TRUE],
         thread_count' = [thread_count EXCEPT ![1] = @ - 1],
         pstate' = [Freed(zs) EXCEPT ![1] = IF thread_count[1] = 1 THEN "ZOMBIE" ELSE @],
         call' = [Awake(OnExitCv(t)) EXCEPT ![t] = NoCall],
         UNCHANGED <<ptcb_list, owner, detached, refcount, infoVars>>
  PROVE  IInv'
<1>0. /\ TypeOK /\ ThreadInv /\ CallInv /\ JoinInv /\ TreeInv /\ RankInv /\ FreeInv
      /\ NoMissedWakeup /\ ListingInv
  BY DEF IInv
<1>1. pstate[1] = "ALIVE" /\ 1 \in Pids /\ thread_count[1] \in Nat
  BY <1>0, LivingProcess
<1>2. /\ zs \in Seq(Pids) /\ IsInjective(zs) /\ ToSet(zs) = ZombiesOf(1)
      /\ ToSet(children_list[1]) = ChildrenOf(1)
  BY <1>0, <1>1 DEF TypeOK, TreeInv
<1>3. ZombieList(zs)
  BY <1>2 DEF ZombieList, ZombiesOf
<1>4. ChildrenOf(1) \subseteq ToSet(zs) /\ ToSet(zs) \subseteq ZombiesOf(1)
  BY <1>2 DEF ChildrenRemain
<1>5. \/ pstate' = Freed(zs) /\ thread_count[1] # 1
      \/ pstate' = [Freed(zs) EXCEPT ![1] = "ZOMBIE"] /\ thread_count[1] = 1
  <2>1. CASE thread_count[1] = 1
    BY <2>1
  <2>2. CASE thread_count[1] # 1
    <3>1. pstate' = [Freed(zs) EXCEPT ![1] = Freed(zs)[1]]
      BY <2>2
    <3>2. Freed(zs) = [p \in Pids |-> Freed(zs)[p]]
      BY DEF Freed
    <3>3. [Freed(zs) EXCEPT ![1] = Freed(zs)[1]] = Freed(zs)
      <4> HIDE DEF Freed
      <4> QED BY <3>2
    <3> QED BY <2>2, <3>1, <3>3
  <2> QED BY <2>1, <2>2
<1>6. /\ pstate' \in [Pids -> {"FREE", "ALIVE", "ZOMBIE"}] /\ InUse' = InUse \ ToSet(zs)
      /\ \A p \in Pids : p # 1 => pstate'[p] = IF p \in ToSet(zs) THEN "FREE" ELSE pstate[p]
      /\ 1 \notin ToSet(zs)
  BY <1>0, <1>3, <1>5, FreedFacts
<1>7. pstate'[1] = "ALIVE" <=> thread_count[1] # 1
  <2>1. ~ Contains(zs, 1)
    BY <1>2, <1>6, ContainsElement
  <2>2. Freed(zs)[1] = "ALIVE" /\ Freed(zs) \in [Pids -> {"FREE", "ALIVE", "ZOMBIE"}]
    BY <1>0, <1>1, <2>1 DEF Freed, TypeOK
  <2> QED BY <1>1, <1>5, <2>2
<1>8. /\ children_list' \in [Pids -> Seq(Pids)] /\ exited_list' \in [Pids -> Seq(Pids)]
      /\ parent' \in [Pids -> Pids \cup {NULL}] /\ pcb_freelist' \in Pids \cup {NULL}
      /\ \A p \in Pids : p \notin ToSet(zs) => parent'[p] = parent[p]
  BY <1>0, <1>3, RecycleFacts
<1>9. TreeInv'
  BY <1>0, <1>3, <1>4, <1>5, ReapTree
<1>10. RankInv'
  BY <1>0, <1>6, <1>8, ReapRank
<1>11. FreeInv'
  BY <1>0, <1>3, <1>6, ReapFree
<1>12. ThreadInv' /\ thread_count' \in [Pids -> Nat]
  <2>1. ASSUME NEW q \in Pids, q # 1, q # 0 PROVE pstate'[q] = "ALIVE" <=> pstate[q] = "ALIVE"
    BY <1>2, <1>6, <2>1 DEF ZombiesOf
  <2> QED BY <1>0, <1>7, <2>1, OneThreadLess
<1> DEFINE S == OnExitCv(t)
<1>13. /\ \A u \in Tids : u # t => call'[u] = IF u \in S THEN [call[u] EXCEPT !.asleep = FALSE] ELSE call[u]
       /\ call'[t] = NoCall /\ call' \in [Tids -> Calls]
  <2>1. Awake(S) \in [Tids -> Calls]
    BY <1>0, AwakeFacts
  <2>2. \A u \in Tids : Awake(S)[u] = IF u \in S THEN [call[u] EXCEPT !.asleep = FALSE] ELSE call[u]
    BY DEF Awake
  <2>3. NoCall \in Calls
    BY DEF NoCall, Calls
  <2>4. call' = [Awake(S) EXCEPT ![t] = NoCall]
    OBVIOUS
  <2> HIDE DEF S, Awake
  <2>5. call'[t] = NoCall /\ call' \in [Tids -> Calls]
    BY <2>1, <2>3, <2>4
  <2>6. \A u \in Tids : u # t => call'[u] = Awake(S)[u]
    BY <2>1, <2>4
  <2> QED BY <2>2, <2>5, <2>6
<1>14. CallInv' /\ JoinInv' /\ NoMissedWakeup'
  <2>1. OnExitCv(t) \subseteq S /\ call[t].op # "join" /\ UNCHANGED <<owner, detached, refcount>>
    OBVIOUS
  <2> HIDE DEF S
  <2>2. ASSUME NEW u \in Tids, u # t, call[u].op = "waitpid"
        PROVE  /\ pstate'[call[u].arg] # "FREE" /\ parent'[call[u].arg] = owner[u]
               /\ u \notin S /\ pstate[call[u].arg] = "ALIVE" => pstate'[call[u].arg] = "ALIVE"
    <3>1. /\ call[u].arg \in Pids /\ pstate[call[u].arg] # "FREE" /\ parent[call[u].arg] = owner[u]
          /\ call[u].arg > 1
      BY <1>0, <2>2 DEF CallInv, ChildrenOf
    <3>2. call[u].arg \notin ToSet(zs) /\ call[u].arg # 1
      BY <1>2, <2>2, <3>1 DEF ZombiesOf
    <3> QED BY <1>6, <1>8, <3>1, <3>2
  <2>3. ASSUME NEW u \in Tids, u # t, u \notin S, call[u].op \in {"waitany", "exit"}, call[u].asleep
        PROVE  children_list'[owner[u]] # << >> /\ exited_list'[owner[u]] = << >>
    <3>1. Alive(u)
      BY <1>0, <2>3, CallerLives
    <3>2. PICK q \in Pids : q = owner[u]
      BY <1>0, <3>1, LivingProcess
    <3>3. ChildrenOf(q) # {} /\ ZombiesOf(q) = {}
      BY <1>0, <2>3, <3>1, <3>2, Sleeper, EmptyLists
    <3>4. q # 1
      BY <1>2, <1>4, <3>3
    <3>5. ASSUME NEW c \in Pids, parent[c] = q \/ parent'[c] = q, c > 1
          PROVE  c \in ChildrenOf(q)' <=> c \in ChildrenOf(q)
      <4>1. CASE c \in ToSet(zs)
        <5>1. parent[c] = 1 /\ pstate'[c] = "FREE"
          BY <1>2, <1>6, <4>1 DEF ZombiesOf
        <5> QED BY <3>4, <5>1 DEF ChildrenOf
      <4>2. CASE c \notin ToSet(zs)
        <5>1. c # 1
          BY <3>5
        <5>2. pstate'[c] = pstate[c] /\ parent'[c] = parent[c]
          BY <1>6, <1>8, <4>2, <5>1
        <5> QED BY <5>2 DEF ChildrenOf
      <4> QED BY <4>1, <4>2
    <3>6. ChildrenOf(q)' # {}
      <4>1. PICK c : c \in ChildrenOf(q)
        BY <3>3
      <4>2. c \in Pids /\ c > 1 /\ parent[c] = q
        BY <4>1 DEF ChildrenOf
      <4> QED BY <3>5, <4>1, <4>2
    <3>7. ASSUME NEW c \in ZombiesOf(q)' PROVE FALSE
      <4>1. c \in Pids /\ c > 1 /\ pstate'[c] = "ZOMBIE" /\ parent'[c] = q
        BY DEF ZombiesOf
      <4>2. c # 1
        BY <4>1
      <4>3. c \notin ToSet(zs) /\ pstate[c] = "ZOMBIE"
        BY <1>6, <4>1, <4>2
      <4>4. parent[c] = q
        BY <1>8, <4>1, <4>3
      <4> QED BY <3>3, <4>1, <4>3, <4>4 DEF ZombiesOf
    <3>8. ZombiesOf(q)' = {}
      BY <3>7
    <3>9. /\ children_list'[q] = << >> <=> ChildrenOf(q)' = {}
          /\ exited_list'[q] = << >> <=> ZombiesOf(q)' = {}
      BY <1>8, <1>9, EmptyListsAfter
    <3> QED BY <3>2, <3>6, <3>8, <3>9
  <2>4. \A u \in Tids : u # t /\ call[u].op = "waitpid" =>
           /\ pstate'[call[u].arg] # "FREE" /\ parent'[call[u].arg] = owner[u]
           /\ u \notin S /\ pstate[call[u].arg] = "ALIVE" => pstate'[call[u].arg] = "ALIVE"
    BY <2>2
  <2>5. \A u \in Tids : u # t /\ u \notin S /\ call[u].op \in {"waitany", "exit"} /\ call[u].asleep =>
           children_list'[owner[u]] # << >> /\ exited_list'[owner[u]] = << >>
    BY <2>3
  <2>6. \A u \in Tids : u # t => call'[u] = IF u \in S THEN [call[u] EXCEPT !.asleep = FALSE] ELSE call[u]
    BY <1>13
  <2>7. call'[t] = NoCall
    BY <1>13
  <2> QED BY <1>0, <2>1, <2>4, <2>5, <2>6, <2>7, ExitCalls, ZenonT(30)
<1>15. TypeOK'
  <2>1. exited' \in [Tids -> BOOLEAN]
    BY <1>0 DEF TypeOK
  <2>2. PT_cursor' \in 0 .. MAX_PROC \cup {NULL} /\ reported' \in Seq(Pids)
    BY <1>0, SameListing
  <2>3. process_count' \in 0 .. MAX_PROC
    BY <1>11, CountType
  <2> QED BY <1>0, <1>6, <1>8, <1>12, <1>13, <2>1, <2>2, <2>3 DEF TypeOK
<1>16. ListingInv'
  BY <1>0, SameListing
<1> QED BY <1>9, <1>10, <1>11, <1>12, <1>14, <1>15, <1>16 DEF IInv

(* One round of the reaping loop in init's sys_Exit.                       *)
LEMMA InitExitStep ==
  ASSUME IInv, NEW t \in Tids, Alive(t), owner[t] = 1, call[t].op \in {"none", "exit"},
         \A u \in Tids : u # t /\ owner[u] = 1 => call[u].op # "waitpid", InitExitLoop(t)
  PROVE  IInv'
<1>0. TypeOK /\ TreeInv /\ 1 \in Pids
  BY PidFacts DEF IInv
<1>1. PICK zs : zs = exited_list[1]
  OBVIOUS
<1>2. Recycle(zs) /\ UNCHANGED <<ptcb_list, owner, detached, refcount, infoVars>>
  BY <1>1 DEF InitExitLoop
<1>3. CASE /\ ChildrenRemain(zs) /\ pstate' = Freed(zs)
           /\ call' = [call EXCEPT ![t] = [op |-> "exit", arg |-> NULL, asleep |-> TRUE]]
           /\ UNCHANGED <<thread_count, exited>>
  <2> DEFINE r == [op |-> "exit", arg |-> NULL, asleep |-> TRUE]
  <2>1. r \in Calls /\ r.op = "exit" /\ call' = [call EXCEPT ![t] = r]
    BY <1>3 DEF Calls
  <2>2. /\ zs \in Seq(Pids) /\ IsInjective(zs) /\ ToSet(zs) = ZombiesOf(1)
        /\ ToSet(children_list[1]) = ChildrenOf(1)
    BY <1>0, <1>1 DEF TypeOK, TreeInv
  <2>3. ZombieList(zs)
    BY <2>2 DEF ZombieList, ZombiesOf
  <2>4. ~ (ChildrenOf(1) \subseteq ToSet(zs))
    BY <1>3, <2>2 DEF ChildrenRemain
  <2>5. call[t].op \in Reaping \cup {"none"}
    BY DEF Reaping
  <2>6. UNCHANGED <<ptcbVars, infoVars>>
    BY <1>2, <1>3 DEF ptcbVars
  <2>7. ToSet(zs) \subseteq ZombiesOf(owner[t]) /\ \A u \in Tids : u # t /\ owner[u] = owner[t] => call[u].op # "waitpid"
    BY <2>2
  <2>8. ~ (ChildrenOf(owner[t]) \subseteq ToSet(zs)) /\ ZombiesOf(owner[t]) \subseteq ToSet(zs)
    BY <2>2, <2>4
  <2>9. Recycle(zs) /\ pstate' = Freed(zs)
    BY <1>2, <1>3
  <2> HIDE DEF r
  <2>10. r \in Calls /\ r.op \in {"none", "exit"} /\ (r.op = "none" => r = NoCall) /\ call' = [call EXCEPT ![t] = r]
    BY <2>1
  <2> QED BY <2>3, <2>5, <2>6, <2>7, <2>8, <2>9, <2>10, ReapStep
<1>4. CASE /\ ~ ChildrenRemain(zs) /\ exited' = [exited EXCEPT ![t] = TRUE]
           /\ thread_count' = [thread_count EXCEPT ![1] = @ - 1]
           /\ pstate' = [Freed(zs) EXCEPT ![1] = IF thread_count[1] = 1 THEN "ZOMBIE" ELSE @]
           /\ call' = [Awake(OnExitCv(t)) EXCEPT ![t] = NoCall]
  BY <1>1, <1>2, <1>4, InitLeavesStep
<1> QED BY <1>1, <1>3, <1>4 DEF InitExitLoop

(* A thread that rlist_find meets in the process's list belongs to the     *)
(* process.                                                                *)
LEMMA MyThread ==
  ASSUME TypeOK, ThreadInv, NEW t \in Tids, Alive(t), NEW x \in Tids, InMyProcess(t, x)
  PROVE  owner[x] = owner[t]
<1>1. PICK p \in Pids : p = owner[t]
  BY LivingProcess
<1>2. ptcb_list[p] \in Seq(Tids) /\ ToSet(ptcb_list[p]) = ThreadsOf(p) /\ Contains(ptcb_list[p], x)
  BY <1>1 DEF TypeOK, ThreadInv, InMyProcess
<1>3. x \in ThreadsOf(p)
  BY <1>2, ContainsElement
<1> QED BY <1>1, <1>3 DEF ThreadsOf

(* sys_ThreadJoin counts the joiner and sleeps.                            *)
LEMMA ThreadJoinStep ==
  ASSUME IInv, NEW t \in Tids, NEW x \in Tids, ThreadJoin(t, x)
  PROVE  IInv'
<1>0. /\ TypeOK /\ ThreadInv /\ CallInv /\ JoinInv /\ TreeInv /\ RankInv /\ FreeInv
      /\ NoMissedWakeup /\ ListingInv
  BY DEF IInv
<1>1. /\ Running(t) /\ Alive(t) /\ InMyProcess(t, x) /\ ~ detached[x] /\ ~ exited[x]
      /\ refcount' = [refcount EXCEPT ![x] = @ + 1]
      /\ call' = [call EXCEPT ![t] = [op |-> "join", arg |-> x, asleep |-> TRUE]]
      /\ UNCHANGED pcbVars /\ UNCHANGED <<ptcb_list, owner, exited, thread_count>>
      /\ detached' = detached /\ UNCHANGED infoVars
  BY DEF ThreadJoin, Joinable, Running
<1>2. TreeInv' /\ RankInv' /\ FreeInv'
  BY <1>0, <1>1, SamePcbs
<1>3. /\ pstate' = pstate /\ parent' = parent /\ pcb_freelist' = pcb_freelist
      /\ process_count' = process_count /\ children_list' = children_list /\ exited_list' = exited_list
  BY <1>1 DEF pcbVars
<1>4. ThreadInv'
  BY <1>0, <1>1, <1>3, SameThreads
<1>5. owner[x] = owner[t]
  BY <1>0, <1>1, MyThread
<1>6. /\ CallInv' /\ JoinInv' /\ NoMissedWakeup'
      /\ refcount' \in [Tids -> Nat] /\ call' \in [Tids -> Calls]
  BY <1>0, <1>1, <1>5, JoinCalls
<1>7. ListingInv' /\ PT_cursor' \in 0 .. MAX_PROC \cup {NULL} /\ reported' \in Seq(Pids)
  BY <1>0, <1>1, SameListing
<1>8. TypeOK'
  BY <1>0, <1>1, <1>3, <1>6, <1>7 DEF TypeOK
<1> QED BY <1>2, <1>4, <1>6, <1>7, <1>8 DEF IInv

(* Both returns of ThreadJoin.                                             *)
LEMMA JoinReturnStep ==
  ASSUME IInv, NEW t \in Tids, Alive(t), NEW x \in Tids, owner[x] = owner[t],
         \/ call[t] = NoCall /\ call' = call /\ refcount' = refcount
         \/ /\ t \in Joiners(x)
            /\ call' = [call EXCEPT ![t] = NoCall] /\ refcount' = [refcount EXCEPT ![x] = @ - 1],
         \/ UNCHANGED <<ptcb_list, owner>>
         \/ /\ ptcb_list' = Without(ptcb_list, {x}) /\ owner' = [owner EXCEPT ![x] = NULL]
            /\ exited[x] /\ Joiners(x) \subseteq {t},
         UNCHANGED <<pcbVars, thread_count, exited, detached, infoVars>>
  PROVE  IInv'
<1>0. /\ TypeOK /\ ThreadInv /\ CallInv /\ JoinInv /\ TreeInv /\ RankInv /\ FreeInv
      /\ NoMissedWakeup /\ ListingInv
  BY DEF IInv
<1>1. TreeInv' /\ RankInv' /\ FreeInv'
  BY <1>0, SamePcbs
<1>2. /\ pstate' = pstate /\ parent' = parent /\ pcb_freelist' = pcb_freelist
      /\ process_count' = process_count /\ children_list' = children_list /\ exited_list' = exited_list
  BY DEF pcbVars
<1>3. ThreadInv' /\ ptcb_list' \in [Pids -> Seq(Tids)] /\ owner' \in [Tids -> Pids \cup {NULL}]
  <2>1. CASE UNCHANGED <<ptcb_list, owner>>
    BY <2>1, <1>0, <1>2, SameThreads DEF TypeOK
  <2>2. CASE /\ ptcb_list' = Without(ptcb_list, {x}) /\ owner' = [owner EXCEPT ![x] = NULL]
             /\ exited[x] /\ Joiners(x) \subseteq {t}
    <3>1. ThreadInv' /\ ptcb_list' \in [Pids -> Seq(Tids)]
      BY <2>2, <1>0, <1>2, PtcbFreed
    <3>2. owner' \in [Tids -> Pids \cup {NULL}]
      BY <2>2, <1>0 DEF TypeOK
    <3> QED BY <3>1, <3>2
  <2> QED BY <2>1, <2>2
<1>4. /\ CallInv' /\ JoinInv' /\ NoMissedWakeup'
      /\ refcount' \in [Tids -> Nat] /\ call' \in [Tids -> Calls]
  BY <1>0, JoinDone
<1>5. ListingInv' /\ PT_cursor' \in 0 .. MAX_PROC \cup {NULL} /\ reported' \in Seq(Pids)
  BY <1>0, SameListing
<1>6. TypeOK'
  BY <1>0, <1>2, <1>3, <1>4, <1>5 DEF TypeOK
<1> QED BY <1>1, <1>3, <1>4, <1>5, <1>6 DEF IInv

(* sys_ThreadJoin on a thread that has exited returns at once.             *)
LEMMA ThreadJoinExitedStep ==
  ASSUME IInv, NEW t \in Tids, NEW x \in Tids, ThreadJoinExited(t, x)
  PROVE  IInv'
<1>0. TypeOK /\ ThreadInv /\ CallInv /\ JoinInv
  BY DEF IInv
<1>1. /\ Alive(t) /\ call[t].op = "none" /\ InMyProcess(t, x) /\ exited[x]
      /\ \/ refcount[x] = 0 /\ ptcb_list' = Without(ptcb_list, {x}) /\ owner' = [owner EXCEPT ![x] = NULL]
         \/ UNCHANGED <<ptcb_list, owner>>
      /\ UNCHANGED <<pcbVars, thread_count, exited, detached, infoVars>> /\ call' = call /\ refcount' = refcount
  BY DEF ThreadJoinExited, Joinable, Running
<1>2. call[t] = NoCall
  BY <1>0, <1>1 DEF CallInv
<1>3. owner[x] = owner[t]
  BY <1>0, <1>1, MyThread
<1>4. refcount[x] = 0 => Joiners(x) = {}
  <2>1. refcount[x] = Cardinality(Joiners(x))
    BY <1>0, <1>1, <1>3 DEF JoinInv, Alive
  <2> QED BY <2>1, FiniteParts
<1>5. \/ UNCHANGED <<ptcb_list, owner>>
      \/ /\ ptcb_list' = Without(ptcb_list, {x}) /\ owner' = [owner EXCEPT ![x] = NULL]
         /\ exited[x] /\ Joiners(x) \subseteq {t}
  BY <1>1, <1>4
<1> QED BY <1>1, <1>2, <1>3, <1>5, JoinReturnStep

(* A joiner that was woken returns from sys_ThreadJoin.                    *)
LEMMA ThreadJoinAgainStep ==
  ASSUME IInv, NEW t \in Tids, ThreadJoinAgain(t)
  PROVE  IInv'
<1>0. TypeOK /\ ThreadInv /\ CallInv /\ JoinInv
  BY DEF IInv
<1>1. PICK x : x = call[t].arg
  OBVIOUS
<1>2. /\ Alive(t) /\ call[t].op = "join" /\ JoinReturns(t, x)
      /\ UNCHANGED <<pcbVars, thread_count, exited, detached, infoVars>>
  BY <1>1 DEF ThreadJoinAgain, Resumed
<1>3. x \in Tids /\ owner[x] = owner[t] /\ t \in Joiners(x)
  BY <1>0, <1>1, <1>2 DEF CallInv, Joiners
<1>4. call' = [call EXCEPT ![t] = NoCall] /\ refcount' = [refcount EXCEPT ![x] = @ - 1]
  BY <1>2 DEF JoinReturns
<1>5. refcount[x] = 1 => Joiners(x) \subseteq {t}
  <2>1. refcount[x] = Cardinality(Joiners(x)) /\ IsFiniteSet(Joiners(x))
    BY <1>0, <1>2, <1>3, FiniteParts DEF JoinInv, Alive
  <2>2. ASSUME refcount[x] = 1 PROVE Joiners(x) \subseteq {t}
    <3>1. \E y : Joiners(x) = {y}
      BY <2>1, <2>2, FS_Singleton
    <3> QED BY <3>1, <1>3
  <2> QED BY <2>2
<1>6. \/ UNCHANGED <<ptcb_list, owner>>
      \/ /\ ptcb_list' = Without(ptcb_list, {x}) /\ owner' = [owner EXCEPT ![x] = NULL]
         /\ exited[x] /\ Joiners(x) \subseteq {t}
  BY <1>2, <1>5 DEF JoinReturns, LastJoiner
<1> QED BY <1>2, <1>3, <1>4, <1>6, JoinReturnStep

(* sys_ThreadDetach on a thread of the process.                            *)
LEMMA ThreadDetachStep ==
  ASSUME IInv, NEW t \in Tids, NEW x \in Tids, ThreadDetach(t, x)
  PROVE  IInv'
<1>0. /\ TypeOK /\ ThreadInv /\ CallInv /\ JoinInv /\ TreeInv /\ RankInv /\ FreeInv
      /\ NoMissedWakeup /\ ListingInv
  BY DEF IInv
<1>1. /\ Running(t) /\ detached' = [detached EXCEPT ![x] = TRUE] /\ call' = Awake(OnExitCv(x))
      /\ UNCHANGED pcbVars /\ UNCHANGED <<ptcb_list, owner, exited, thread_count>>
      /\ refcount' = refcount /\ UNCHANGED infoVars
  BY DEF ThreadDetach
<1>2. TreeInv' /\ RankInv' /\ FreeInv'
  BY <1>0, <1>1, SamePcbs
<1>3. /\ pstate' = pstate /\ parent' = parent /\ pcb_freelist' = pcb_freelist
      /\ process_count' = process_count /\ children_list' = children_list /\ exited_list' = exited_list
  BY <1>1 DEF pcbVars
<1>4. ThreadInv'
  BY <1>0, <1>1, <1>3, SameThreads
<1>5. CallInv' /\ JoinInv' /\ NoMissedWakeup'
  BY <1>0, <1>1, DetachCalls
<1>6. ListingInv' /\ PT_cursor' \in 0 .. MAX_PROC \cup {NULL} /\ reported' \in Seq(Pids)
  BY <1>0, <1>1, SameListing
<1>7. call' \in [Tids -> Calls] /\ detached' \in [Tids -> BOOLEAN]
  BY <1>0, <1>1, AwakeFacts DEF TypeOK
<1>8. TypeOK'
  BY <1>0, <1>1, <1>3, <1>6, <1>7 DEF TypeOK
<1> QED BY <1>2, <1>4, <1>5, <1>6, <1>8 DEF IInv

(* Only the information stream moves.                                      *)
LEMMA InfoOnly ==
  ASSUME IInv, UNCHANGED <<pcbVars, ptcbVars, call>>, ListingInv',
         PT_cursor' \in 0 .. MAX_PROC \cup {NULL}, reported' \in Seq(Pids)
  PROVE  IInv'
<1>0. /\ TypeOK /\ ThreadInv /\ CallInv /\ JoinInv /\ TreeInv /\ RankInv /\ FreeInv
      /\ NoMissedWakeup /\ ListingInv
  BY DEF IInv
<1>1. /\ pstate' = pstate /\ parent' = parent /\ pcb_freelist' = pcb_freelist
      /\ process_count' = process_count /\ children_list' = children_list /\ exited_list' = exited_list
      /\ thread_count' = thread_count /\ ptcb_list' = ptcb_list /\ owner' = owner /\ exited' = exited
      /\ detached' = detached /\ refcount' = refcount /\ call' = call
  BY DEF pcbVars, ptcbVars
<1>2. TreeInv' /\ RankInv' /\ FreeInv'
  BY <1>0, SamePcbs
<1>3. ThreadInv'
  BY <1>0, <1>1, SameThreads
<1>4. CallInv'
  BY <1>0, <1>1 DEF CallInv, Alive, ChildrenOf
<1>5. JoinInv'
  BY <1>0, <1>1 DEF JoinInv, Joiners
<1>6. NoMissedWakeup'
  BY <1>0, <1>1 DEF NoMissedWakeup, Alive
<1>7. TypeOK'
  BY <1>0, <1>1 DEF TypeOK
<1> QED BY <1>2, <1>3, <1>4, <1>5, <1>6, <1>7 DEF IInv

(* The listing cannot pass pids 0 and 1 without reporting them: they are   *)
(* never free.                                                             *)
LEMMA InfoReadStep ==
  ASSUME IInv, InfoRead
  PROVE  IInv'
<1>0. TypeOK /\ TreeInv /\ ListingInv
  BY DEF IInv
<1>1. PICK p \in Pids : /\ p >= PT_cursor
                        /\ \A q \in Pids : PT_cursor <= q /\ q < p => pstate[q] = "FREE"
                        /\ reported' = Append(reported, p) /\ PT_cursor' = p + 1
  BY DEF InfoRead, CursorAdvance
<1>2. PT_cursor # NULL /\ UNCHANGED <<pcbVars, ptcbVars, call>>
  BY DEF InfoRead
<1>3. PT_cursor \in 0 .. MAX_PROC /\ reported \in Seq(Pids)
  BY <1>0, <1>2 DEF TypeOK
<1>4. p \in 0 .. (MAX_PROC - 1) /\ MAX_PROC \in Nat
  BY PidFacts DEF Pids
<1>5. PT_cursor' \in 0 .. MAX_PROC /\ PT_cursor' # NULL
  <2>1. p + 1 \in 0 .. MAX_PROC
    BY <1>4
  <2> QED BY <1>1, <2>1, ProcAssumption
<1>6. /\ IsInjective(reported) /\ \A q \in ToSet(reported) : q < PT_cursor
      /\ PT_cursor > 0 => 0 \in ToSet(reported)
      /\ PT_cursor > 1 => 1 \in ToSet(reported)
  BY <1>0, <1>2 DEF ListingInv
<1>7. p \notin ToSet(reported)
  BY <1>1, <1>3, <1>4, <1>6
<1>8. reported' \in Seq(Pids) /\ IsInjective(reported') /\ ToSet(reported') = ToSet(reported) \cup {p}
  BY <1>1, <1>3, <1>6, <1>7, AppendOnce
<1>9. \A q \in ToSet(reported') : q < PT_cursor'
  <2>1. ToSet(reported) \subseteq Pids
    BY <1>3, LenProperties DEF ToSet
  <2>2. ASSUME NEW q \in ToSet(reported) PROVE q < p + 1
    <3>1. q \in Nat /\ q < PT_cursor
      BY <1>6, <2>1, PidFacts
    <3> QED BY <3>1, <1>1, <1>3, <1>4
  <2> QED BY <1>1, <1>4, <1>8, <2>2
<1>10. 0 \in ToSet(reported')
  <2>1. CASE PT_cursor > 0
    BY <2>1, <1>6, <1>8
  <2>2. CASE ~ (PT_cursor > 0)
    <3>1. PT_cursor <= 0
      BY <2>2, <1>3
    <3>2. ~ (0 < p)
      BY <3>1, <1>0, <1>1, PidFacts DEF TreeInv
    <3>3. p = 0
      BY <3>2, <1>4
    <3> QED BY <3>3, <1>8
  <2> QED BY <2>1, <2>2
<1>11. PT_cursor' > 1 => 1 \in ToSet(reported')
  <2>1. CASE PT_cursor > 1
    BY <2>1, <1>6, <1>8
  <2>2. CASE ~ (PT_cursor > 1)
    <3>1. PT_cursor <= 1
      BY <2>2, <1>3
    <3>2. ~ (1 < p)
      BY <3>1, <1>0, <1>1, PidFacts DEF TreeInv
    <3>3. PT_cursor' > 1 => p = 1
      BY <3>2, <1>1, <1>4
    <3> QED BY <3>3, <1>8
  <2> QED BY <2>1, <2>2
<1>12. ListingInv'
  BY <1>5, <1>8, <1>9, <1>10, <1>11 DEF ListingInv
<1> QED BY <1>2, <1>5, <1>8, <1>12, InfoOnly

(* A Read that meets no more processes moves the cursor to the end.        *)
LEMMA InfoEndStep ==
  ASSUME IInv, InfoEnd
  PROVE  IInv'
<1>0. TypeOK /\ TreeInv /\ ListingInv
  BY DEF IInv
<1>1. /\ PT_cursor # NULL /\ PT_cursor < MAX_PROC /\ PT_cursor' = MAX_PROC /\ reported' = reported
      /\ \A q \in Pids : PT_cursor <= q => pstate[q] = "FREE"
      /\ UNCHANGED <<pcbVars, ptcbVars, call>>
  BY DEF InfoEnd
<1>2. PT_cursor \in 0 .. MAX_PROC /\ reported \in Seq(Pids) /\ MAX_PROC \in Nat
  BY <1>0, <1>1, PidFacts DEF TypeOK
<1>3. ~ (PT_cursor <= 0) /\ ~ (PT_cursor <= 1)
  BY <1>0, <1>1, PidFacts DEF TreeInv
<1>4. PT_cursor > 0 /\ PT_cursor > 1
  BY <1>2, <1>3
<1>5. MAX_PROC \in 0 .. MAX_PROC /\ MAX_PROC # NULL
  BY <1>2, ProcAssumption
<1>6. ToSet(reported) \subseteq Nat
  BY <1>2, PidFacts, LenProperties DEF ToSet
<1>7. \A q \in ToSet(reported) : q < MAX_PROC
  <2>1. ASSUME NEW q \in ToSet(reported) PROVE q < MAX_PROC
    <3>1. q \in Nat /\ q < PT_cursor
      BY <1>0, <1>1, <1>6 DEF ListingInv
    <3> QED BY <3>1, <1>1, <1>2
  <2> QED BY <2>1
<1>8. ListingInv'
  BY <1>0, <1>1, <1>4, <1>5, <1>7 DEF ListingInv
<1>9. PT_cursor' \in 0 .. MAX_PROC \cup {NULL} /\ reported' \in Seq(Pids)
  BY <1>1, <1>2, <1>5
<1> QED BY <1>1, <1>8, <1>9, InfoOnly

(* sys_OpenInfo: the cursor at the start, nothing reported.                *)
LEMMA OpenInfoStep ==
  ASSUME IInv, OpenInfo
  PROVE  IInv'
<1>0. TypeOK /\ ListingInv
  BY DEF IInv
<1>1. PT_cursor = NULL /\ PT_cursor' = 0 /\ reported' = reported /\ UNCHANGED <<pcbVars, ptcbVars, call>>
  BY DEF OpenInfo
<1>2. reported' = << >>
  BY <1>0, <1>1 DEF ListingInv
<1>3. 0 \in 0 .. MAX_PROC /\ << >> \in Seq(Pids) /\ IsInjective(<< >>) /\ ToSet(<< >>) = {}
  BY PidFacts, EmptyOnce
<1>4. 0 # NULL
  BY PidFacts
<1>5. ListingInv'
  BY <1>1, <1>2, <1>3, <1>4 DEF ListingInv
<1> QED BY <1>1, <1>2, <1>3, <1>5, InfoOnly

-----------------------------------------------------------------------------
(* Every step.                                                             *)
LEMMA InvStep ==
  ASSUME OneReaperPerChild, LastInitThreadCallsExit, IInv, [Next]_vars
  PROVE  IInv'
<1>0. TypeOK /\ ThreadInv /\ CallInv /\ TreeInv /\ ListingInv
  BY DEF IInv
<1>1. ASSUME NEW t \in Tids, NEW c \in Pids, WaitSpecific(t, c) PROVE IInv'
  <2>1. /\ Alive(t) /\ call[t].op = "none" /\ IsMyChild(t, c) /\ ~ OtherReaper(t, FALSE)
        /\ WaitSpecificLoop(t, c) /\ UNCHANGED <<ptcbVars, infoVars>>
    BY <1>1 DEF WaitSpecific, Running
  <2>2. \A u \in Tids : u # t /\ owner[u] = owner[t] => call[u].op \notin Reaping
    BY <2>1 DEF OtherReaper, OnChildExit, Reaping
  <2>3. c # 0 /\ c # 1
    <3>1. owner[t] # NULL
      BY <2>1 DEF Alive
    <3> QED BY <1>0, <2>1, <3>1 DEF IsMyChild, TreeInv
  <2>4. c \in ChildrenOf(owner[t])
    BY <2>1, <2>3, PidOrder DEF IsMyChild, ChildrenOf
  <2> QED BY <2>1, <2>2, <2>4, WaitSpecificStep
<1>2. ASSUME NEW t \in Tids, WaitSpecificAgain(t) PROVE IInv'
  <2>1. /\ Alive(t) /\ call[t].op = "waitpid"
        /\ WaitSpecificLoop(t, call[t].arg) /\ UNCHANGED <<ptcbVars, infoVars>>
    BY <1>2 DEF WaitSpecificAgain, Resumed
  <2>2. PICK c \in Pids : c = call[t].arg
    BY <1>0, <2>1 DEF CallInv
  <2>3. WaitSpecificLoop(t, c) /\ c \in ChildrenOf(owner[t])
    BY <1>0, <2>1, <2>2 DEF CallInv
  <2>4. \A u \in Tids : u # t /\ owner[u] = owner[t] => call[u].op \notin Reaping
    BY <1>0, <2>1 DEF CallInv
  <2> QED BY <2>1, <2>3, <2>4, WaitSpecificStep
<1>3. ASSUME NEW t \in Tids, WaitAny(t) PROVE IInv'
  <2>1. /\ Alive(t) /\ call[t].op = "none" /\ ~ OtherReaper(t, TRUE)
        /\ WaitAnyLoop(t) /\ UNCHANGED <<ptcbVars, infoVars>>
    BY <1>3 DEF WaitAny, Running
  <2>2. \A u \in Tids : u # t /\ owner[u] = owner[t] => call[u].op # "waitpid"
    BY <2>1 DEF OtherReaper, OnChildExit
  <2> QED BY <2>1, <2>2, WaitAnyStep
<1>4. ASSUME NEW t \in Tids, WaitAnyAgain(t) PROVE IInv'
  <2>1. Alive(t) /\ call[t].op = "waitany" /\ WaitAnyLoop(t) /\ UNCHANGED <<ptcbVars, infoVars>>
    BY <1>4 DEF WaitAnyAgain, Resumed
  <2>2. call[t].op \in Reaping
    BY <2>1 DEF Reaping
  <2>3. \A u \in Tids : u # t /\ owner[u] = owner[t] => call[u].op # "waitpid"
    BY <1>0, <2>2 DEF CallInv
  <2> QED BY <2>1, <2>3, WaitAnyStep
<1>5. ASSUME NEW t \in Tids, ThreadExit(t) PROVE IInv'
  BY <1>5, ThreadExitStep DEF ThreadExit
<1>6. ASSUME NEW t \in Tids, InitExit(t) PROVE IInv'
  <2>1. /\ Alive(t) /\ call[t].op = "none" /\ owner[t] = 1 /\ ~ OtherReaper(t, TRUE) /\ InitExitLoop(t)
    BY <1>6 DEF InitExit, Running
  <2>2. \A u \in Tids : u # t /\ owner[u] = 1 => call[u].op # "waitpid"
    BY <2>1 DEF OtherReaper, OnChildExit
  <2> QED BY <2>1, <2>2, InitExitStep
<1>7. ASSUME NEW t \in Tids, InitExitAgain(t) PROVE IInv'
  <2>1. Alive(t) /\ call[t].op = "exit" /\ InitExitLoop(t)
    BY <1>7 DEF InitExitAgain, Resumed
  <2>2. owner[t] = 1 /\ call[t].op \in Reaping
    BY <1>0, <2>1 DEF CallInv, Reaping
  <2>3. \A u \in Tids : u # t /\ owner[u] = 1 => call[u].op # "waitpid"
    BY <1>0, <2>2 DEF CallInv
  <2> QED BY <2>1, <2>2, <2>3, InitExitStep
<1>8. ASSUME NEW t \in Tids, SystemCall(t) PROVE IInv'
  BY <1>1, <1>3, <1>5, <1>6, <1>8, ExecStep, CreateThreadStep, ThreadJoinStep, ThreadJoinExitedStep,
     ThreadDetachStep DEF SystemCall
<1>9. ASSUME NEW t \in Tids, Resume(t) PROVE IInv'
  BY <1>2, <1>4, <1>7, <1>9, ThreadJoinAgainStep DEF Resume
<1>10. ASSUME UNCHANGED vars PROVE IInv'
  <2>1. UNCHANGED <<pcbVars, ptcbVars, call>> /\ UNCHANGED infoVars
    BY <1>10 DEF vars
  <2>2. ListingInv' /\ PT_cursor' \in 0 .. MAX_PROC \cup {NULL} /\ reported' \in Seq(Pids)
    BY <1>0, <2>1, SameListing
  <2> QED BY <2>1, <2>2, InfoOnly
<1> QED BY <1>8, <1>9, <1>10, OpenInfoStep, InfoReadStep, InfoEndStep DEF Next

(* The invariant holds when boot has made the idle process and init.       *)
LEMMA InvInit ==
  ASSUME Init
  PROVE  IInv
<1>1. PICK t0 \in Tids :
        /\ pstate = [p \in Pids |-> IF p <= 1 THEN "ALIVE" ELSE "FREE"]
        /\ parent = [p \in Pids |-> IF p <= 1 \/ p = MAX_PROC - 1 THEN NULL ELSE p + 1]
        /\ pcb_freelist = 2
        /\ process_count = 2
        /\ children_list = [p \in Pids |-> << >>]
        /\ exited_list = [p \in Pids |-> << >>]
        /\ thread_count = [p \in Pids |-> IF p = 1 THEN 1 ELSE 0]
        /\ ptcb_list = [p \in Pids |-> IF p = 1 THEN <<t0>> ELSE << >>]
        /\ owner = [t \in Tids |-> IF t = t0 THEN 1 ELSE NULL]
        /\ exited = [t \in Tids |-> FALSE]
        /\ detached = [t \in Tids |-> FALSE]
        /\ refcount = [t \in Tids |-> 0]
        /\ call = [t \in Tids |-> NoCall]
        /\ PT_cursor = NULL
        /\ reported = << >>
  BY DEF Init
<1>2. MAX_PROC \in Nat /\ MAX_PROC >= 3 /\ NULL \notin Pids /\ 0 \in Pids /\ 1 \in Pids /\ 2 \in Pids
  BY PidFacts
<1>3. << >> \in Seq(Pids) /\ << >> \in Seq(Tids) /\ IsInjective(<< >>) /\ ToSet(<< >>) = {}
  BY EmptyOnce
<1>4. \A p \in Pids : (p <= 1 <=> p = 0 \/ p = 1) /\ (p > 1 <=> ~ (p <= 1))
  <2> SUFFICES ASSUME NEW p \in Pids PROVE (p <= 1 <=> p = 0 \/ p = 1) /\ (p > 1 <=> ~ (p <= 1))
    OBVIOUS
  <2>1. p \in Nat
    BY PidFacts
  <2> QED BY <2>1
<1>5. NoCall \in Calls /\ NoCall.op = "none" /\ NoCall.asleep = FALSE
  BY DEF NoCall, Calls
<1>6. TypeOK
  <2>1. parent \in [Pids -> Pids \cup {NULL}]
    <3>1. ASSUME NEW p \in Pids, p # MAX_PROC - 1 PROVE p + 1 \in Pids
      BY <1>2, <3>1 DEF Pids
    <3> QED BY <1>1, <3>1
  <2>2. pstate \in [Pids -> {"FREE", "ALIVE", "ZOMBIE"}]
    BY <1>1
  <2>3. children_list \in [Pids -> Seq(Pids)] /\ exited_list \in [Pids -> Seq(Pids)]
    BY <1>1, <1>3
  <2>4. ptcb_list \in [Pids -> Seq(Tids)]
    <3>1. <<t0>> \in Seq(Tids)
      OBVIOUS
    <3> QED BY <1>1, <1>3, <3>1
  <2>5. call \in [Tids -> Calls]
    BY <1>1, <1>5
  <2>6. /\ thread_count \in [Pids -> Nat] /\ owner \in [Tids -> Pids \cup {NULL}]
        /\ exited \in [Tids -> BOOLEAN] /\ detached \in [Tids -> BOOLEAN] /\ refcount \in [Tids -> Nat]
    BY <1>1, <1>2
  <2>7. pcb_freelist \in Pids \cup {NULL} /\ process_count \in 0 .. MAX_PROC
    BY <1>1, <1>2
  <2>8. PT_cursor \in 0 .. MAX_PROC \cup {NULL} /\ reported \in Seq(Pids)
    BY <1>1, <1>3
  <2> QED BY <2>1, <2>2, <2>3, <2>4, <2>5, <2>6, <2>7, <2>8 DEF TypeOK
<1>7. ThreadInv
  <2>1. ThreadsOf(1) = {t0} /\ LivingOf(1) = {t0}
    BY <1>1, <1>2 DEF ThreadsOf, LivingOf
  <2>2. ASSUME NEW p \in Pids, p # 1 PROVE ThreadsOf(p) = {} /\ LivingOf(p) = {}
    BY <1>1, <1>2, <2>2 DEF ThreadsOf, LivingOf
  <2>3. IsInjective(<<t0>>) /\ ToSet(<<t0>>) = {t0}
    BY DEF IsInjective, ToSet
  <2>4. Cardinality({t0}) = 1 /\ Cardinality({}) = 0
    BY FS_Singleton, FS_EmptySet
  <2>5. ASSUME NEW p \in Pids
        PROVE  /\ IsInjective(ptcb_list[p]) /\ ToSet(ptcb_list[p]) = ThreadsOf(p)
               /\ thread_count[p] = Cardinality(LivingOf(p))
               /\ p # 0 => (pstate[p] = "ALIVE" <=> thread_count[p] # 0)
    <3>1. CASE p = 1
      <4>1. ptcb_list[1] = <<t0>> /\ thread_count[1] = 1 /\ pstate[1] = "ALIVE"
        BY <1>1, <1>2
      <4> QED BY <3>1, <4>1, <2>1, <2>3, <2>4
    <3>2. CASE p # 1
      BY <3>2, <1>1, <1>3, <1>4, <2>2, <2>4
    <3> QED BY <3>1, <3>2
  <2>6. \A t \in Tids : owner[t] # 0
    BY <1>1, <1>2
  <2> QED BY <2>5, <2>6 DEF ThreadInv
<1>8. \A t \in Tids : call[t] = NoCall /\ call[t].op = "none" /\ ~ call[t].asleep
  BY <1>1, <1>5
<1>9. CallInv
  BY <1>8 DEF CallInv, Reaping
<1>10. JoinInv
  <2>1. ASSUME NEW x \in Tids PROVE Joiners(x) = {}
    BY <1>8 DEF Joiners
  <2> QED BY <1>1, <2>1, FS_EmptySet DEF JoinInv
<1>11. InUse = {0, 1} /\ \A p \in Pids : p > 1 => pstate[p] = "FREE"
  BY <1>1, <1>2, <1>4 DEF InUse
<1>12. TreeInv
  <2>1. ASSUME NEW q \in Pids PROVE ChildrenOf(q) = {} /\ ZombiesOf(q) = {}
    BY <1>11 DEF ChildrenOf, ZombiesOf
  <2>2. pstate[0] = "ALIVE" /\ pstate[1] # "FREE" /\ parent[0] = NULL /\ parent[1] = NULL
    BY <1>1, <1>2
  <2>3. /\ \A q \in Pids : IsInjective(children_list[q]) /\ ToSet(children_list[q]) = ChildrenOf(q)
        /\ \A q \in Pids : IsInjective(exited_list[q]) /\ ToSet(exited_list[q]) = ZombiesOf(q)
    BY <1>1, <1>3, <2>1
  <2>4. \A p \in InUse : p > 1 => parent[p] \in Pids /\ parent[p] # 0 /\ pstate[parent[p]] = "ALIVE"
    BY <1>11
  <2> QED BY <1>11, <2>2, <2>3, <2>4 DEF TreeInv
<1>13. RankInv
  <2> DEFINE rank == [p \in Pids |-> 1]
  <2>1. rank \in [Pids -> Nat] /\ \A p \in Pids : rank[p] > 0
    OBVIOUS
  <2>2. \A p \in Pids : p > 1 => p \notin InUse
    BY <1>11 DEF InUse
  <2> HIDE DEF rank
  <2> QED BY <2>1, <2>2 DEF RankInv
<1>14. FreeInv
  <2> DEFINE n == MAX_PROC - 2
             fl == [i \in 1 .. n |-> i + 1]
  <2>1. n \in Nat /\ n >= 1 /\ \A i \in 1 .. n : i + 1 \in Pids
    BY <1>2 DEF Pids
  <2>2. fl \in Seq(Pids) /\ Len(fl) = n /\ DOMAIN fl = 1 .. n /\ \A i \in 1 .. n : fl[i] = i + 1
    BY <2>1
  <2> HIDE DEF fl
  <2>3. IsInjective(fl)
    <3>1. ASSUME NEW i \in 1 .. n, NEW j \in 1 .. n, fl[i] = fl[j] PROVE i = j
      BY <2>1, <2>2, <3>1
    <3> QED BY <2>2, <3>1 DEF IsInjective
  <2>4. ToSet(fl) = Pids \ InUse
    <3>1. ASSUME NEW p \in Pids, p \notin InUse PROVE p \in ToSet(fl)
      <4>1. p > 1
        BY <1>4, <1>11, <3>1
      <4>2. p - 1 \in 1 .. n /\ (p - 1) + 1 = p
        BY <1>2, <4>1 DEF Pids
      <4> QED BY <2>2, <4>2 DEF ToSet
    <3>2. ASSUME NEW p \in ToSet(fl) PROVE p \in Pids /\ p \notin InUse
      <4>1. PICK i \in 1 .. n : p = i + 1
        BY <2>2, <3>2 DEF ToSet
      <4> QED BY <2>1, <4>1, <1>11
    <3> QED BY <3>1, <3>2
  <2>5. pcb_freelist = IF fl = << >> THEN NULL ELSE fl[1]
    <3>1. fl # << >> /\ fl[1] = 2
      BY <2>1, <2>2
    <3> QED BY <1>1, <3>1
  <2>6. ASSUME NEW i \in 1 .. Len(fl) PROVE parent[fl[i]] = IF i = Len(fl) THEN NULL ELSE fl[i + 1]
    <3>1. i \in 1 .. n /\ i + 1 \in Pids /\ ~ (i + 1 <= 1) /\ (i + 1 = MAX_PROC - 1 <=> i = n)
      BY <1>2, <2>1, <2>2
    <3>2. parent[i + 1] = IF i = n THEN NULL ELSE (i + 1) + 1
      BY <1>1, <3>1
    <3>3. i # n => i + 1 \in 1 .. n
      BY <2>1, <3>1
    <3>4. i # n => fl[i + 1] = (i + 1) + 1
      BY <2>2, <3>3
    <3> QED BY <2>2, <3>1, <3>2, <3>4
  <2>7. IsFreeList(fl)
    BY <2>3, <2>4, <2>5, <2>6 DEF IsFreeList
  <2>8. process_count = Cardinality(InUse)
    <3>1. Cardinality({0} \cup {1}) = 1 + 1
      <4>1. IsFiniteSet({0}) /\ Cardinality({0}) = 1
        BY FS_Singleton
      <4>2. 1 \notin {0}
        OBVIOUS
      <4> QED BY <4>1, <4>2, FS_AddElement
    <3>2. {0} \cup {1} = InUse
      BY <1>11
    <3>3. process_count = 2
      BY <1>1
    <3> QED BY <3>1, <3>2, <3>3
  <2> QED BY <2>2, <2>7, <2>8 DEF FreeInv
<1>15. NoMissedWakeup
  BY <1>8 DEF NoMissedWakeup
<1>16. ListingInv
  BY <1>1, <1>3 DEF ListingInv
<1> QED BY <1>6, <1>7, <1>9, <1>10, <1>12, <1>13, <1>14, <1>15, <1>16 DEF IInv

(* The inductive invariant holds in every reachable state, for programs    *)
(* that wait for a child from one thread at a time and whose init leaves   *)
(* through Exit.                                                           *)
THEOREM Invariance ==
  ASSUME OneReaperPerChild, LastInitThreadCallsExit
  PROVE  Spec => []IInv
<1>1. IInv /\ [Next]_vars => IInv'
  BY InvStep
<1> QED BY <1>1, InvInit, PTL DEF Spec

-----------------------------------------------------------------------------
(* What the invariant says of the process table.                           *)

(* The parts of TreeInvariant follow from the inductive invariant: the     *)
(* lists.                                                                  *)
LEMMA TreeHolds ==
  ASSUME IInv
  PROVE  ProcessTree
<1>0. TypeOK /\ TreeInv
  BY DEF IInv
<1>1. ASSUME NEW p \in Pids, NEW q \in Pids
      PROVE  /\ Contains(children_list[q], p) <=> p > 1 /\ pstate[p] # "FREE" /\ parent[p] = q
             /\ Contains(exited_list[q], p) <=> p > 1 /\ pstate[p] = "ZOMBIE" /\ parent[p] = q
  <2>1. /\ children_list[q] \in Seq(Pids) /\ ToSet(children_list[q]) = ChildrenOf(q)
        /\ exited_list[q] \in Seq(Pids) /\ ToSet(exited_list[q]) = ZombiesOf(q)
    BY <1>0 DEF TypeOK, TreeInv
  <2>2. Contains(children_list[q], p) <=> p \in ChildrenOf(q)
    BY <2>1, ContainsElement
  <2>3. Contains(exited_list[q], p) <=> p \in ZombiesOf(q)
    BY <2>1, ContainsElement
  <2> QED BY <2>2, <2>3 DEF ChildrenOf, ZombiesOf
<1>2. \A q \in Pids : IsInjective(children_list[q]) /\ IsInjective(exited_list[q])
  BY <1>0 DEF TreeInv
<1>3. \A p \in Pids : p > 1 /\ pstate[p] # "FREE" => pstate[parent[p]] = "ALIVE"
  BY <1>0 DEF TreeInv, InUse
<1>4. ASSUME NEW p \in Pids, pstate[p] = "ZOMBIE"
      PROVE  children_list[p] = << >> /\ exited_list[p] = << >>
  <2>1. ChildrenOf(p) = {} /\ ZombiesOf(p) = {}
    BY <1>3, <1>4 DEF ChildrenOf, ZombiesOf
  <2> QED BY <1>0, <2>1, EmptyLists
<1> QED BY <1>1, <1>2, <1>3, <1>4 DEF ProcessTree, ZombieHasNoChildren

(* Following the links from pcb_freelist visits the free list in order and *)
(* then stays at NULL.                                                     *)
LEMMA ChainIsList ==
  ASSUME TypeOK, NEW fl \in Seq(Pids), IsFreeList(fl), NEW n \in 0 .. MAX_PROC
  PROVE  FreeChain[n] = IF n < Len(fl) THEN fl[n + 1] ELSE NULL
<1> DEFINE At(i) == IF i < Len(fl) THEN fl[i + 1] ELSE NULL
           Fits(g) == g = [i \in 0 .. MAX_PROC |->
                             IF i = 0 THEN pcb_freelist
                             ELSE IF g[i - 1] = NULL THEN NULL ELSE parent[g[i - 1]]]
           f == [i \in 0 .. MAX_PROC |-> At(i)]
<1>1. /\ Len(fl) \in Nat /\ MAX_PROC \in Nat /\ NULL \notin Pids /\ 0 \in 0 .. MAX_PROC
      /\ \A i \in 1 .. Len(fl) : fl[i] \in Pids
  BY PidFacts, LenProperties
<1>2. At(0) = pcb_freelist
  <2>1. fl = << >> <=> Len(fl) = 0
    BY EmptySeq, <1>1
  <2> QED BY <1>1, <2>1 DEF IsFreeList
<1>3. ASSUME NEW i \in 0 .. MAX_PROC, i # 0
      PROVE  At(i) = IF At(i - 1) = NULL THEN NULL ELSE parent[At(i - 1)]
  <2>0. i - 1 \in Nat /\ (i - 1) + 1 = i /\ i \in Nat
    BY <1>3
  <2>1. CASE i - 1 < Len(fl)
    <3>1. i \in 1 .. Len(fl) /\ (i = Len(fl) <=> ~ (i < Len(fl)))
      BY <1>1, <2>0, <2>1, <1>3
    <3>2. At(i - 1) = fl[i] /\ fl[i] \in Pids
      BY <1>1, <2>0, <2>1, <3>1
    <3>3. parent[fl[i]] = IF i = Len(fl) THEN NULL ELSE fl[i + 1]
      BY <3>1 DEF IsFreeList
    <3> QED BY <1>1, <3>1, <3>2, <3>3
  <2>2. CASE ~ (i - 1 < Len(fl))
    <3>1. ~ (i < Len(fl))
      BY <1>1, <2>0, <2>2
    <3> QED BY <2>2, <3>1
  <2> QED BY <2>1, <2>2
<1>4. \A i \in 0 .. MAX_PROC : f[i] = At(i)
  OBVIOUS
<1> HIDE DEF At
<1>5. Fits(f)
  <2>1. ASSUME NEW i \in 0 .. MAX_PROC
        PROVE  At(i) = IF i = 0 THEN pcb_freelist ELSE IF f[i - 1] = NULL THEN NULL ELSE parent[f[i - 1]]
    <3>1. CASE i = 0
      BY <1>2, <3>1
    <3>2. CASE i # 0
      <4>1. i - 1 \in 0 .. MAX_PROC
        BY <1>1, <3>2
      <4> QED BY <1>3, <1>4, <3>2, <4>1
    <3> QED BY <3>1, <3>2
  <2>2. f = [i \in 0 .. MAX_PROC |-> At(i)]
    OBVIOUS
  <2> HIDE DEF f
  <2> QED BY <2>1, <2>2
<1>6. Fits(FreeChain)
  <2>1. FreeChain = CHOOSE chain : Fits(chain)
    BY DEF FreeChain
  <2> HIDE DEF Fits, f
  <2> QED BY <1>5, <2>1
<1> DEFINE T == {i \in 0 .. MAX_PROC : FreeChain[i] = At(i)}
<1>7. 0 \in T
  <2>1. FreeChain[0] = pcb_freelist
    <3> HIDE DEF FreeChain
    <3> QED BY <1>1, <1>6
  <2> QED BY <1>1, <1>2, <2>1
<1>8. ASSUME NEW i \in 0 .. MAX_PROC, i < MAX_PROC, i \in T PROVE i + 1 \in T
  <2>1. i + 1 \in 0 .. MAX_PROC /\ i + 1 # 0 /\ (i + 1) - 1 = i
    BY <1>1, <1>8
  <2>2. FreeChain[i + 1] = IF FreeChain[i] = NULL THEN NULL ELSE parent[FreeChain[i]]
    <3> DEFINE C == FreeChain
    <3>1. Fits(C)
      BY <1>6
    <3> HIDE DEF C
    <3>2. C[i + 1] = IF C[(i + 1) - 1] = NULL THEN NULL ELSE parent[C[(i + 1) - 1]]
      BY <2>1, <3>1
    <3> QED BY <2>1, <3>2 DEF C
  <2>3. At(i + 1) = IF At(i) = NULL THEN NULL ELSE parent[At(i)]
    BY <1>3, <2>1
  <2> QED BY <1>8, <2>1, <2>2, <2>3
<1>9. 0 .. MAX_PROC \subseteq T
  <2> HIDE DEF T
  <2> QED BY <1>1, <1>7, <1>8, UpTo
<1> QED BY <1>9 DEF At

(* The free list is a chain through exactly the free PCBs.                 *)
LEMMA FreeListHolds ==
  ASSUME IInv
  PROVE  FreeListSound
<1>0. TypeOK /\ FreeInv /\ TreeInv
  BY DEF IInv
<1>1. PICK fl \in Seq(Pids) : IsFreeList(fl)
  BY <1>0 DEF FreeInv
<1>2. /\ Len(fl) \in Nat /\ DOMAIN fl = 1 .. Len(fl) /\ MAX_PROC \in Nat
      /\ IsInjective(fl) /\ ToSet(fl) = Pids \ InUse
  BY <1>1, LenProperties, PidFacts DEF IsFreeList
<1>3. Len(fl) <= MAX_PROC
  <2>1. Cardinality(ToSet(fl)) = Len(fl)
    BY <1>2, LengthCounts
  <2>2. ToSet(fl) \subseteq Pids
    BY <1>2
  <2> QED BY <2>1, <2>2, FS_Subset, PidFacts
<1>4. \A n \in 0 .. MAX_PROC : FreeChain[n] = IF n < Len(fl) THEN fl[n + 1] ELSE NULL
  BY <1>0, <1>1, ChainIsList
<1> HIDE DEF FreeChain
<1>5. ASSUME NEW n \in 0 .. MAX_PROC PROVE FreeChain[n] \in (Pids \ InUse) \cup {NULL}
  <2>1. CASE n < Len(fl)
    <3>1. n + 1 \in 1 .. Len(fl)
      BY <1>2, <2>1
    <3>2. fl[n + 1] \in ToSet(fl)
      BY <1>2, <3>1 DEF ToSet
    <3> QED BY <1>2, <1>4, <2>1, <3>2
  <2>2. CASE ~ (n < Len(fl))
    BY <1>4, <2>2
  <2> QED BY <2>1, <2>2
<1>6. ASSUME NEW p \in (Pids \ InUse) \cup {NULL} PROVE \E n \in 0 .. MAX_PROC : FreeChain[n] = p
  <2>1. CASE p \in Pids \ InUse
    <3>1. PICK i \in 1 .. Len(fl) : fl[i] = p
      BY <1>2, <2>1 DEF ToSet
    <3>2. i - 1 \in 0 .. MAX_PROC /\ i - 1 < Len(fl) /\ (i - 1) + 1 = i
      BY <1>2, <1>3, <3>1
    <3>3. FreeChain[i - 1] = fl[i]
      BY <1>4, <3>2
    <3> QED BY <3>1, <3>2, <3>3
  <2>2. CASE p = NULL
    <3>1. Len(fl) \in 0 .. MAX_PROC /\ ~ (Len(fl) < Len(fl))
      BY <1>2, <1>3
    <3> QED BY <1>4, <2>2, <3>1
  <2> QED BY <2>1, <2>2
<1>7. {FreeChain[n] : n \in 0 .. MAX_PROC} = (Pids \ InUse) \cup {NULL}
  BY <1>5, <1>6
<1>8. Pids \ InUse = {p \in Pids : pstate[p] = "FREE"} /\ InUse = {p \in Pids : pstate[p] # "FREE"}
  BY DEF InUse
<1> QED BY <1>0, <1>7, <1>8 DEF FreeListSound, FreeInv

(* The counters of processes, threads and joiners are exact.               *)
LEMMA CountsHold ==
  ASSUME IInv
  PROVE  CountsExact
<1>0. TypeOK /\ ThreadInv /\ CallInv /\ JoinInv
  BY DEF IInv
<1>1. ThreadsCounted
  <2>1. ASSUME NEW p \in Pids \ {0}
        PROVE  /\ pstate[p] # "FREE" =>
                    /\ thread_count[p] = Cardinality({t \in Tids : owner[t] = p /\ ~ exited[t]})
                    /\ ToSet(ptcb_list[p]) = {t \in Tids : owner[t] = p}
                    /\ pstate[p] = "ZOMBIE" <=> thread_count[p] = 0
               /\ IsInjective(ptcb_list[p])
    <3>1. /\ thread_count[p] = Cardinality(LivingOf(p)) /\ ToSet(ptcb_list[p]) = ThreadsOf(p)
          /\ IsInjective(ptcb_list[p]) /\ (pstate[p] = "ALIVE" <=> thread_count[p] # 0)
      BY <1>0 DEF ThreadInv
    <3>2. pstate[p] \in {"FREE", "ALIVE", "ZOMBIE"}
      BY <1>0 DEF TypeOK
    <3> QED BY <3>1, <3>2 DEF LivingOf, ThreadsOf
  <2> QED BY <2>1 DEF ThreadsCounted
<1>2. JoinersCounted
  <2>1. ASSUME NEW x \in Tids, owner[x] # NULL
        PROVE  refcount[x] = Cardinality({t \in Tids : Alive(t) /\ t \in OnExitCv(x)})
    <3>1. {t \in Tids : Alive(t) /\ t \in OnExitCv(x)} = Joiners(x)
      <4>1. ASSUME NEW t \in Tids, call[t].op = "join" PROVE Alive(t) /\ owner[t] # NULL
        BY <1>0, <4>1, CallerLives DEF Alive
      <4> QED BY <4>1 DEF OnExitCv, Joiners
    <3> QED BY <1>0, <2>1, <3>1 DEF JoinInv
  <2>2. \A t \in Tids : Alive(t) /\ call[t].op = "join" => owner[call[t].arg] = owner[t]
    BY <1>0 DEF CallInv
  <2> QED BY <2>1, <2>2 DEF JoinersCounted
<1> QED BY <1>1, <1>2 DEF CountsExact

-----------------------------------------------------------------------------
(* Who may give a PCB back.                                                *)

Reaped(t) == {p \in Pids : pstate[p] = "ZOMBIE" /\ pstate'[p] = "FREE" /\ parent[p] = owner[t]}

(* The step body of ReapsExitedChild.                                      *)
ReapsOwnZombies ==
  process_count' < process_count =>
    \E t \in Tids : \E zs \in SUBSET Pids :
      /\ Alive(t) /\ zs = Reaped(t)
      /\ Cardinality(zs) = process_count - process_count'

(* What a thread recycles were zombies of its own process.                 *)
LEMMA RecycleReaps ==
  ASSUME TypeOK, TreeInv, NEW t \in Tids, Alive(t), NEW zs, ZombieList(zs),
         ToSet(zs) \subseteq ZombiesOf(owner[t]), Recycle(zs),
         pstate' = Freed(zs) \/ pstate' = [Freed(zs) EXCEPT ![1] = "ZOMBIE"]
  PROVE  ReapsOwnZombies
<1>1. /\ \A p \in Pids : p # 1 => pstate'[p] = IF p \in ToSet(zs) THEN "FREE" ELSE pstate[p]
      /\ pstate'[1] = pstate[1] \/ pstate'[1] = "ZOMBIE"
      /\ 1 \notin ToSet(zs)
  BY FreedFacts
<1>2. Reaped(t) \subseteq ToSet(zs)
  <2>1. ASSUME NEW p \in Pids, pstate[p] = "ZOMBIE", pstate'[p] = "FREE" PROVE p \in ToSet(zs)
    <3>1. p # 1
      BY <1>1, <2>1
    <3> QED BY <1>1, <2>1, <3>1
  <2> QED BY <2>1 DEF Reaped
<1>3. ToSet(zs) \subseteq Reaped(t)
  BY <1>1 DEF Reaped, ZombiesOf
<1>4. Cardinality(ToSet(zs)) = Len(zs) /\ Len(zs) \in Nat
  BY LengthCounts, LenProperties DEF ZombieList
<1>5. process_count' = process_count - Len(zs) /\ process_count \in Nat
  BY RecycleFacts DEF TypeOK
<1>6. Cardinality(Reaped(t)) = process_count - process_count'
  <2>1. Reaped(t) = ToSet(zs)
    BY <1>2, <1>3
  <2> QED BY <2>1, <1>4, <1>5
<1>7. Reaped(t) \in SUBSET Pids
  BY DEF Reaped
<1> QED BY <1>6, <1>7 DEF ReapsOwnZombies

(* A step that frees no PCB reaps nobody.                                  *)
LEMMA KeepsPcbs ==
  ASSUME TypeOK, process_count' = process_count \/ process_count' = process_count + 1
  PROVE  ReapsOwnZombies
<1>1. process_count \in Nat
  BY DEF TypeOK
<1>2. ~ (process_count' < process_count)
  BY <1>1
<1> QED BY <1>2 DEF ReapsOwnZombies

(* wait_for_specific_child reaps a zombie child of the caller.             *)
LEMMA SpecificReaps ==
  ASSUME TypeOK, TreeInv, NEW t \in Tids, Alive(t), NEW c \in Pids, c \in ChildrenOf(owner[t]),
         WaitSpecificLoop(t, c)
  PROVE  ReapsOwnZombies
<1>1. CASE UNCHANGED pcbVars
  BY <1>1, KeepsPcbs DEF pcbVars
<1>2. CASE pstate[c] # "ALIVE" /\ cleanup_zombie(c)
  <2>1. c \in ZombiesOf(owner[t])
    BY <1>2 DEF ChildrenOf, ZombiesOf, TypeOK
  <2> DEFINE zs == <<c>>
  <2>2. ZombieList(zs) /\ ToSet(zs) \subseteq ZombiesOf(owner[t])
    BY <2>1, OneZombie
  <2>3. Recycle(zs) /\ pstate' = Freed(zs)
    BY <1>2 DEF cleanup_zombie
  <2> HIDE DEF zs
  <2> QED BY <2>2, <2>3, RecycleReaps
<1> QED BY <1>1, <1>2 DEF WaitSpecificLoop

(* wait_for_any_child reaps a zombie child of the caller.                  *)
LEMMA AnyReaps ==
  ASSUME TypeOK, ThreadInv, TreeInv, NEW t \in Tids, Alive(t), WaitAnyLoop(t)
  PROVE  ReapsOwnZombies
<1>1. CASE UNCHANGED pcbVars
  BY <1>1, KeepsPcbs DEF pcbVars
<1>2. PICK p \in Pids : p = owner[t]
  BY LivingProcess
<1>3. CASE exited_list[p] # << >> /\ cleanup_zombie(Head(exited_list[p]))
  <2> DEFINE c == Head(exited_list[p])
             zs == <<c>>
  <2>1. exited_list[p] \in Seq(Pids) /\ ToSet(exited_list[p]) = ZombiesOf(p)
    BY DEF TypeOK, TreeInv
  <2>2. c \in ZombiesOf(owner[t])
    BY <1>2, <1>3, <2>1, LenProperties, EmptySeq DEF ToSet
  <2>3. Recycle(zs) /\ pstate' = Freed(zs)
    BY <1>3 DEF cleanup_zombie
  <2> HIDE DEF c
  <2>4. ZombieList(zs) /\ ToSet(zs) \subseteq ZombiesOf(owner[t])
    BY <2>2, OneZombie
  <2> HIDE DEF zs
  <2> QED BY <2>3, <2>4, RecycleReaps
<1> QED BY <1>1, <1>2, <1>3 DEF WaitAnyLoop

(* init's exit loop reaps zombie children of init.                         *)
LEMMA InitExitReaps ==
  ASSUME TypeOK, TreeInv, NEW t \in Tids, Alive(t), owner[t] = 1, InitExitLoop(t)
  PROVE  ReapsOwnZombies
<1>1. PICK zs : zs = exited_list[1]
  OBVIOUS
<1>2. /\ zs \in Seq(Pids) /\ IsInjective(zs) /\ ToSet(zs) = ZombiesOf(1)
  BY <1>1, PidFacts DEF TypeOK, TreeInv
<1>3. ZombieList(zs) /\ ToSet(zs) \subseteq ZombiesOf(owner[t])
  BY <1>2 DEF ZombieList, ZombiesOf
<1>4. Recycle(zs) /\ (pstate' = Freed(zs)
                      \/ pstate' = [Freed(zs) EXCEPT ![1] = IF thread_count[1] = 1 THEN "ZOMBIE" ELSE @])
  BY <1>1 DEF InitExitLoop
<1>5. pstate' = Freed(zs) \/ pstate' = [Freed(zs) EXCEPT ![1] = "ZOMBIE"]
  <2>1. CASE thread_count[1] = 1
    BY <1>4, <2>1
  <2>2. CASE thread_count[1] # 1
    <3>1. Freed(zs) = [p \in Pids |-> Freed(zs)[p]]
      BY DEF Freed
    <3>2. [Freed(zs) EXCEPT ![1] = Freed(zs)[1]] = Freed(zs)
      <4> HIDE DEF Freed
      <4> QED BY <3>1
    <3> QED BY <1>4, <2>2, <3>2
  <2> QED BY <2>1, <2>2
<1> QED BY <1>3, <1>4, <1>5, RecycleReaps

(* Every step reaps only children of the process it runs in.               *)
LEMMA ReapingStep ==
  ASSUME IInv, [Next]_vars
  PROVE  ReapsOwnZombies
<1>0. TypeOK /\ ThreadInv /\ CallInv /\ TreeInv
  BY DEF IInv
<1>1. ASSUME NEW t \in Tids, NEW c \in Pids, WaitSpecific(t, c) PROVE ReapsOwnZombies
  <2>1. Alive(t) /\ IsMyChild(t, c) /\ WaitSpecificLoop(t, c) /\ owner[t] # NULL
    BY <1>1 DEF WaitSpecific, Running, Alive
  <2>2. c # 0 /\ c # 1
    BY <1>0, <2>1 DEF IsMyChild, TreeInv
  <2>3. c \in ChildrenOf(owner[t])
    BY <2>1, <2>2, PidOrder DEF IsMyChild, ChildrenOf
  <2> QED BY <1>0, <2>1, <2>3, SpecificReaps
<1>2. ASSUME NEW t \in Tids, WaitSpecificAgain(t) PROVE ReapsOwnZombies
  <2>1. Alive(t) /\ call[t].op = "waitpid" /\ WaitSpecificLoop(t, call[t].arg)
    BY <1>2 DEF WaitSpecificAgain, Resumed
  <2>2. PICK c \in Pids : c = call[t].arg
    BY <1>0, <2>1 DEF CallInv
  <2>3. WaitSpecificLoop(t, c) /\ c \in ChildrenOf(owner[t])
    BY <1>0, <2>1, <2>2 DEF CallInv
  <2> QED BY <1>0, <2>1, <2>3, SpecificReaps
<1>3. ASSUME NEW t \in Tids, WaitAny(t) \/ WaitAnyAgain(t) PROVE ReapsOwnZombies
  <2>1. Alive(t) /\ WaitAnyLoop(t)
    BY <1>3 DEF WaitAny, WaitAnyAgain, Running, Resumed
  <2> QED BY <1>0, <2>1, AnyReaps
<1>4. ASSUME NEW t \in Tids, InitExit(t) \/ InitExitAgain(t) PROVE ReapsOwnZombies
  <2>1. Alive(t) /\ owner[t] = 1 /\ InitExitLoop(t)
    BY <1>0, <1>4 DEF InitExit, InitExitAgain, Running, Resumed, CallInv
  <2> QED BY <1>0, <2>1, InitExitReaps
<1>5. ASSUME NEW t \in Tids, NEW p \in Pids, NEW x \in Tids, Exec(t, p, x) PROVE ReapsOwnZombies
  BY <1>0, <1>5, KeepsPcbs DEF Exec, acquire_PCB
<1>6. ASSUME UNCHANGED pcbVars PROVE ReapsOwnZombies
  BY <1>0, <1>6, KeepsPcbs DEF pcbVars
<1>7. ASSUME NEW t \in Tids, ThreadExit(t) PROVE ReapsOwnZombies
  <2>1. process_count' = process_count
    BY <1>7 DEF ThreadExit, sys_ThreadExit, EndProcess, pcbVars
  <2> QED BY <1>0, <2>1, KeepsPcbs
<1>8. ASSUME NEW t \in Tids, NEW x \in Tids,
             CreateThread(t, x) \/ ThreadJoin(t, x) \/ ThreadJoinExited(t, x) \/ ThreadDetach(t, x)
      PROVE  ReapsOwnZombies
  BY <1>6, <1>8 DEF CreateThread, ThreadJoin, ThreadJoinExited, ThreadDetach
<1>9. ASSUME NEW t \in Tids, SystemCall(t) PROVE ReapsOwnZombies
  BY <1>1, <1>3, <1>4, <1>5, <1>7, <1>8, <1>9 DEF SystemCall
<1>10. ASSUME NEW t \in Tids, Resume(t) PROVE ReapsOwnZombies
  <2>1. CASE ThreadJoinAgain(t)
    BY <1>6, <2>1 DEF ThreadJoinAgain
  <2> QED BY <1>2, <1>3, <1>4, <1>10, <2>1 DEF Resume
<1>11. CASE OpenInfo \/ InfoRead \/ InfoEnd
  BY <1>6, <1>11 DEF OpenInfo, InfoRead, InfoEnd
<1>12. CASE UNCHANGED vars
  BY <1>6, <1>12 DEF vars
<1> QED BY <1>9, <1>10, <1>11, <1>12 DEF Next

-----------------------------------------------------------------------------
(* The theorems.                                                           *)

(* The process table is consistent after any sequence of Exec, exit, wait, *)
(* join and detach: the children's lists agree with parent and pstate, the *)
(* free list holds exactly the free PCBs, thread_count and refcount are    *)
(* exact and no PTCB is freed under a joiner.                              *)
THEOREM TreeSound ==
  ASSUME OneReaperPerChild, LastInitThreadCallsExit
  PROVE  Spec => []TreeInvariant
<1>1. IInv => TreeInvariant
  BY TreeHolds, FreeListHolds, CountsHold DEF TreeInvariant, IInv
<1> QED BY <1>1, Invariance, PTL

(* Nobody sleeps in WaitChild, in init's Exit or in ThreadJoin on a        *)
(* condition that is already true.                                         *)
THEOREM WakeupsArrive ==
  ASSUME OneReaperPerChild, LastInitThreadCallsExit
  PROVE  Spec => []NoMissedWakeup
<1>1. IInv => NoMissedWakeup
  BY DEF IInv
<1> QED BY <1>1, Invariance, PTL

(* A PCB is given back only by a thread of the parent, and only when the   *)
(* child has exited.                                                       *)
THEOREM OnlyParentsReap ==
  ASSUME OneReaperPerChild, LastInitThreadCallsExit
  PROVE  Spec => ReapsExitedChild
<1>1. IInv /\ [Next]_vars => ReapsOwnZombies
  BY ReapingStep
<1>2. ReapsOwnZombies =>
        (process_count' < process_count =>
           \E t \in Tids : \E zs \in SUBSET Pids :
             /\ Alive(t)
             /\ zs = {p \in Pids : pstate[p] = "ZOMBIE" /\ pstate'[p] = "FREE" /\ parent[p] = owner[t]}
             /\ Cardinality(zs) = process_count - process_count')
  BY DEF ReapsOwnZombies, Reaped
<1> QED BY <1>1, <1>2, Invariance, PTL DEF Spec, ReapsExitedChild

(* A listing of the processes reports no pid twice, and when it has ended  *)
(* pids 0 and 1 are in it.                                                 *)
THEOREM ListingsComplete ==
  ASSUME OneReaperPerChild, LastInitThreadCallsExit
  PROVE  Spec => []ListingComplete
<1>1. ASSUME IInv PROVE ListingComplete
  <2>1. MAX_PROC > 0 /\ MAX_PROC > 1 /\ MAX_PROC # NULL
    <3>1. MAX_PROC \in 0 .. MAX_PROC
      BY PidFacts
    <3> QED BY <3>1, PidFacts, ProcAssumption
  <2> QED BY <1>1, <2>1 DEF IInv, ListingInv, ListingComplete
<1>2. IInv => ListingComplete
  BY <1>1
<1> QED BY <1>2, Invariance, PTL

=============================================================================
