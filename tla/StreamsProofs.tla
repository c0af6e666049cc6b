---------------------------- MODULE StreamsProofs ---------------------------
(***************************************************************************)
(* Theorems about Streams, for any number of processes, threads, file ids, *)
(* FCBs and stream objects.                                                *)
(***************************************************************************)
EXTENDS Streams, ListLemmas

-----------------------------------------------------------------------------
(* The inductive invariant.                                                *)

(* The file ids, and the Reads and Writes under way, that refer to an FCB. *)
Places(fidt, c) == {e \in Pids \X Fids : fidt[e[1]][e[2]] = c}
Uses(pending, c) == {t \in Tids : pending[t] # NULL /\ pending[t].fcb = c}

Refs(fidt, pending) ==
  [c \in FCBs |-> Cardinality(Places(fidt, c)) + Cardinality(Uses(pending, c))]

(* k, the FCBs, and so, their stream objects, are right when refs[c] is    *)
(* the number of references to each FCB c.                                 *)
Accounts(k, refs, so) ==
  /\ refs \in [FCBs -> Nat] /\ so \in [FCBs -> Objects \cup {NULL}]
  /\ k.refcount \in [FCBs -> Nat] /\ k.freelist \in Seq(FCBs) /\ k.live \in SUBSET Objects
  /\ IsInjective(k.freelist)
  /\ \A c \in FCBs : c \in ToSet(k.freelist) <=> refs[c] = 0
  /\ \A c \in FCBs : refs[c] # 0 => k.refcount[c] = refs[c] /\ so[c] \in Objects
  /\ \A c, d \in FCBs : refs[c] # 0 /\ refs[d] # 0 /\ so[c] = so[d] => c = d
  /\ k.live = {so[c] : c \in {d \in FCBs : refs[d] # 0}}

(* A pending Read or Write works on the object its FCB still carries.      *)
IOKept == \A t \in Tids : io[t] # NULL => streamobj[io[t].fcb] = io[t].obj

(* A process without threads has no open file ids: Exec may take it.       *)
EmptyTables == \A p \in Pids : (\A t \in Tids : proc[t] # p) => FIDT[p] = Closed

IInv == TypeOK /\ Accounts(FT, Refs(FIDT, io), streamobj) /\ IOKept /\ EmptyTables

-----------------------------------------------------------------------------
(* The operations on the FCBs keep the accounts.                           *)

(* FCB_decref: one reference less; the last one closes and frees.          *)
LEMMA DecrefAccounts ==
  ASSUME NEW k, NEW refs, Accounts(k, refs, streamobj), NEW c \in FCBs, refs[c] # 0
  PROVE  Accounts(FCB_decref(k, c), [refs EXCEPT ![c] = @ - 1], streamobj)
<1> DEFINE m == FCB_decref(k, c)
           r == [refs EXCEPT ![c] = @ - 1]
<1>1. /\ refs \in [FCBs -> Nat] /\ streamobj \in [FCBs -> Objects \cup {NULL}]
      /\ k.refcount \in [FCBs -> Nat] /\ k.freelist \in Seq(FCBs) /\ k.live \in SUBSET Objects
      /\ IsInjective(k.freelist)
      /\ \A d \in FCBs : d \in ToSet(k.freelist) <=> refs[d] = 0
      /\ \A d \in FCBs : refs[d] # 0 => k.refcount[d] = refs[d] /\ streamobj[d] \in Objects
      /\ \A b, d \in FCBs : refs[b] # 0 /\ refs[d] # 0 /\ streamobj[b] = streamobj[d] => b = d
      /\ k.live = {streamobj[b] : b \in {d \in FCBs : refs[d] # 0}}
  BY DEF Accounts
<1>2. k.refcount[c] = refs[c] /\ refs[c] \in Nat \ {0} /\ c \notin ToSet(k.freelist)
  BY <1>1
<1>3. /\ r \in [FCBs -> Nat] /\ r[c] = refs[c] - 1
      /\ \A d \in FCBs : d # c => r[d] = refs[d]
  BY <1>1, <1>2
<1>4. /\ m.refcount \in [FCBs -> Nat] /\ m.refcount[c] = k.refcount[c] - 1
      /\ \A d \in FCBs : d # c => m.refcount[d] = k.refcount[d]
  BY <1>1, <1>2 DEF FCB_decref
<1>5. \A d \in FCBs : r[d] # 0 => m.refcount[d] = r[d] /\ streamobj[d] \in Objects
  BY <1>1, <1>2, <1>3, <1>4
<1>6. CASE refs[c] = 1
  <2>1. m.freelist = Append(k.freelist, c) /\ m.live = k.live \ {streamobj[c]}
    BY <1>2, <1>6 DEF FCB_decref, CloseMethod
  <2>2. /\ m.freelist \in Seq(FCBs) /\ IsInjective(m.freelist)
        /\ ToSet(m.freelist) = ToSet(k.freelist) \cup {c}
    BY <1>1, <1>2, <2>1, AppendOnce
  <2>3. \A d \in FCBs : d \in ToSet(m.freelist) <=> r[d] = 0
    BY <1>1, <1>3, <1>6, <2>2
  <2>4. \A b, d \in FCBs : r[b] # 0 /\ r[d] # 0 /\ streamobj[b] = streamobj[d] => b = d
    BY <1>1, <1>3, <1>6
  <2>5. m.live = {streamobj[b] : b \in {d \in FCBs : r[d] # 0}}
    BY <1>1, <1>2, <1>3, <1>6, <2>1
  <2>6. m.live \in SUBSET Objects
    BY <1>1, <2>1
  <2> HIDE DEF m, r
  <2> QED BY <1>1, <1>3, <1>4, <1>5, <2>2, <2>3, <2>4, <2>5, <2>6 DEF Accounts, m, r
<1>7. CASE refs[c] # 1
  <2>1. m.freelist = k.freelist /\ m.live = k.live
    BY <1>2, <1>7 DEF FCB_decref, CloseMethod
  <2>2. \A d \in FCBs : r[d] # 0 <=> refs[d] # 0
    BY <1>2, <1>3, <1>7
  <2>5. m.live = {streamobj[b] : b \in {d \in FCBs : r[d] # 0}}
    BY <1>1, <2>1, <2>2
  <2>4. \A b, d \in FCBs : r[b] # 0 /\ r[d] # 0 /\ streamobj[b] = streamobj[d] => b = d
    BY <1>1, <2>2
  <2>3. \A d \in FCBs : d \in ToSet(m.freelist) <=> r[d] = 0
    BY <1>1, <2>1, <2>2
  <2> HIDE DEF m, r
  <2> QED BY <1>1, <1>3, <1>4, <1>5, <2>1, <2>3, <2>4, <2>5 DEF Accounts, m, r
<1> QED BY <1>6, <1>7

(* More references to FCBs in use, as FCB_incref adds one and Exec adds    *)
(* one for each file id.                                                   *)
LEMMA IncrefAccounts ==
  ASSUME NEW k, NEW refs, NEW so, Accounts(k, refs, so),
         NEW more \in [FCBs -> Nat], \A c \in FCBs : more[c] # 0 => refs[c] # 0,
         NEW m, m.freelist = k.freelist, m.live = k.live,
         m.refcount \in [FCBs -> Nat],
         \A c \in FCBs : m.refcount[c] = k.refcount[c] + more[c],
         NEW r \in [FCBs -> Nat], \A c \in FCBs : r[c] = refs[c] + more[c]
  PROVE  Accounts(m, r, so)
<1>1. /\ refs \in [FCBs -> Nat] /\ so \in [FCBs -> Objects \cup {NULL}]
      /\ k.refcount \in [FCBs -> Nat] /\ k.freelist \in Seq(FCBs) /\ k.live \in SUBSET Objects
      /\ IsInjective(k.freelist)
      /\ \A d \in FCBs : d \in ToSet(k.freelist) <=> refs[d] = 0
      /\ \A d \in FCBs : refs[d] # 0 => k.refcount[d] = refs[d] /\ so[d] \in Objects
      /\ \A b, d \in FCBs : refs[b] # 0 /\ refs[d] # 0 /\ so[b] = so[d] => b = d
      /\ k.live = {so[b] : b \in {d \in FCBs : refs[d] # 0}}
  BY DEF Accounts
<1>2. \A d \in FCBs : r[d] # 0 <=> refs[d] # 0
  BY <1>1
<1>3. \A d \in FCBs : r[d] # 0 => m.refcount[d] = r[d] /\ so[d] \in Objects
  BY <1>1, <1>2
<1>4. m.live = {so[b] : b \in {d \in FCBs : r[d] # 0}}
  BY <1>1, <1>2
<1>5. \A b, d \in FCBs : r[b] # 0 /\ r[d] # 0 /\ so[b] = so[d] => b = d
  BY <1>1, <1>2
<1>6. \A d \in FCBs : d \in ToSet(m.freelist) <=> r[d] = 0
  BY <1>1, <1>2
<1> QED BY <1>1, <1>3, <1>4, <1>5, <1>6 DEF Accounts

FCBStates == [refcount : [FCBs -> Int], freelist : Seq(FCBs), live : SUBSET Objects]

(* What the operations on the FCBs work on.                                *)
LEMMA StateTypes ==
  /\ \A refs, so : Accounts(FT, refs, so) => FT \in FCBStates
  /\ \A s \in FCBStates, c \in FCBs : FCB_decref(s, c) \in FCBStates
<1>1. ASSUME NEW refs, NEW so, Accounts(FT, refs, so) PROVE FT \in FCBStates
  <2>1. refcount \in [FCBs -> Nat] /\ FCB_freelist \in Seq(FCBs) /\ live \in SUBSET Objects
    BY <1>1 DEF Accounts, FT
  <2> QED BY <2>1 DEF FT, FCBStates
<1>2. ASSUME NEW s \in FCBStates, NEW c \in FCBs PROVE FCB_decref(s, c) \in FCBStates
  <2>1. s.refcount \in [FCBs -> Int] /\ s.freelist \in Seq(FCBs) /\ s.live \in SUBSET Objects
    BY DEF FCBStates
  <2>2. [s.refcount EXCEPT ![c] = @ - 1] \in [FCBs -> Int]
    BY <2>1
  <2>3. Append(s.freelist, c) \in Seq(FCBs)
    BY <2>1
  <2> QED BY <2>1, <2>2, <2>3 DEF FCB_decref, FCBStates
<1> QED BY <1>1, <1>2

(* FCB_incref of an FCB in use.                                            *)
LEMMA IncrefOne ==
  ASSUME NEW k \in FCBStates, NEW refs, NEW so, Accounts(k, refs, so),
         NEW c \in FCBs, refs[c] # 0
  PROVE  Accounts(FCB_incref(k, c), [refs EXCEPT ![c] = @ + 1], so)
<1> DEFINE m == FCB_incref(k, c)
           r == [refs EXCEPT ![c] = @ + 1]
           more == [d \in FCBs |-> IF d = c THEN 1 ELSE 0]
<1>1. refs \in [FCBs -> Nat] /\ k.refcount \in [FCBs -> Nat]
  BY DEF Accounts
<1>2. m.freelist = k.freelist /\ m.live = k.live /\ m.refcount = [k.refcount EXCEPT ![c] = @ + 1]
  <2> DEFINE rc == [k.refcount EXCEPT ![c] = @ + 1]
  <2>1. m = [k EXCEPT !.refcount = rc]
    BY DEF FCB_incref
  <2> HIDE DEF m, rc
  <2>2. m.freelist = k.freelist /\ m.live = k.live /\ m.refcount = rc
    BY <2>1 DEF FCBStates
  <2> QED BY <2>2 DEF rc
<1>3. m.refcount \in [FCBs -> Nat] /\ \A d \in FCBs : m.refcount[d] = k.refcount[d] + more[d]
  BY <1>1, <1>2
<1>4. r \in [FCBs -> Nat] /\ \A d \in FCBs : r[d] = refs[d] + more[d]
  BY <1>1
<1>5. more \in [FCBs -> Nat] /\ \A d \in FCBs : more[d] # 0 => refs[d] # 0
  OBVIOUS
<1> HIDE DEF m, r, more
<1>6. Accounts(m, r, so)
  BY <1>2, <1>3, <1>4, <1>5, IncrefAccounts
<1> QED BY <1>6 DEF m, r

(* The accounts depend on nothing but the fields of k.                     *)
LEMMA SameAccounts ==
  ASSUME NEW k, NEW refs, NEW so, Accounts(k, refs, so), NEW m,
         m.freelist = k.freelist, m.live = k.live, m.refcount = k.refcount
  PROVE  Accounts(m, refs, so)
BY DEF Accounts

-----------------------------------------------------------------------------
(* Counting references.                                                    *)

(* There are finitely many places that can refer to an FCB.                *)
LEMMA FinitePlaces ==
  /\ IsFiniteSet(Fids) /\ IsFiniteSet(FCBs) /\ Cardinality(FCBs) = MAX_FILES
  /\ \A fidt, c : IsFiniteSet(Places(fidt, c)) /\ Cardinality(Places(fidt, c)) \in Nat
  /\ \A pending, c : IsFiniteSet(Uses(pending, c)) /\ Cardinality(Uses(pending, c)) \in Nat
<1>1. IsFiniteSet(Fids) /\ IsFiniteSet(FCBs) /\ Cardinality(FCBs) = MAX_FILES
  <2>1. /\ 0 \in Int /\ 1 \in Int /\ MAX_FILEID - 1 \in Int /\ MAX_FILES \in Int
        /\ (1 > MAX_FILES => MAX_FILES = 0) /\ MAX_FILES - 1 + 1 = MAX_FILES
    BY StreamsAssumption
  <2>2. IsFiniteSet(Fids)
    BY <2>1, FS_Interval DEF Fids
  <2>3. IsFiniteSet(FCBs) /\ Cardinality(FCBs) = IF 1 > MAX_FILES THEN 0 ELSE MAX_FILES - 1 + 1
    BY <2>1, FS_Interval DEF FCBs
  <2> QED BY <2>1, <2>2, <2>3
<1>2. IsFiniteSet(Pids \X Fids)
  BY <1>1, StreamsAssumption, FS_Product
<1>3. ASSUME NEW fidt, NEW c
      PROVE  IsFiniteSet(Places(fidt, c)) /\ Cardinality(Places(fidt, c)) \in Nat
  <2>1. Places(fidt, c) \in SUBSET (Pids \X Fids)
    BY DEF Places
  <2> QED BY <1>2, <2>1, FS_Subset, FS_CardinalityType
<1>4. ASSUME NEW pending, NEW c
      PROVE  IsFiniteSet(Uses(pending, c)) /\ Cardinality(Uses(pending, c)) \in Nat
  <2>1. Uses(pending, c) \in SUBSET Tids
    BY DEF Uses
  <2> QED BY StreamsAssumption, <2>1, FS_Subset, FS_CardinalityType
<1> QED BY <1>1, <1>3, <1>4

(* What References counts.                                                 *)
LEMMA RefsAre ==
  ASSUME NEW fidt, NEW pending
  PROVE  Refs(fidt, pending) \in [FCBs -> Nat]
<1>1. \A c \in FCBs : Cardinality(Places(fidt, c)) + Cardinality(Uses(pending, c)) \in Nat
  BY FinitePlaces
<1> QED BY <1>1 DEF Refs

(* The values of FIDT and io, and how the system calls change them.        *)
Rows    == [Fids -> FCBs \cup {NULL}]
Tables  == [Pids -> Rows]
Pending == [Tids -> [fcb : FCBs, obj : Objects] \cup {NULL}]

Put(fidt, p, f, v)  == [fidt EXCEPT ![p][f] = v]
PutRow(fidt, p, row) == [fidt EXCEPT ![p] = row]
PutIO(pending, t, d) == [pending EXCEPT ![t] = d]

(* A file id gets another stream, or none.                                 *)
LEMMA PutCount ==
  ASSUME NEW fidt \in Tables,
         NEW p \in Pids, NEW f \in Fids, NEW v \in FCBs \cup {NULL}, v # fidt[p][f],
         NEW c \in FCBs
  PROVE  /\ Put(fidt, p, f, v) \in Tables
         /\ Cardinality(Places(Put(fidt, p, f, v), c)) =
              Cardinality(Places(fidt, c)) + (IF c = v THEN 1 ELSE IF c = fidt[p][f] THEN -1 ELSE 0)
<1> DEFINE fidt2 == Put(fidt, p, f, v)
           e == <<p, f>>
           A == Places(fidt, c)
           B == Places(fidt2, c)
<1>1. fidt2 \in Tables
  BY DEF Put, Tables, Rows
<1>2. /\ fidt2[p][f] = v
      /\ \A q \in Pids, g \in Fids : q # p \/ g # f => fidt2[q][g] = fidt[q][g]
  BY DEF Put, Tables, Rows
<1> HIDE DEF fidt2
<1>3. IsFiniteSet(A)
  BY FinitePlaces
<1>4. CASE c = v
  <2>1. B = A \cup {e} /\ e \notin A
    BY <1>2, <1>4 DEF Places
  <2>2. Cardinality(B) = Cardinality(A) + 1
    <3> HIDE DEF A, B, e
    <3> QED BY <1>3, <2>1, FS_AddElement
  <2> QED BY <1>1, <1>4, <2>2 DEF fidt2
<1>5. CASE c # v /\ c = fidt[p][f]
  <2>1. B = A \ {e} /\ e \in A
    BY <1>2, <1>5 DEF Places
  <2>2. Cardinality(B) = Cardinality(A) - 1 /\ Cardinality(A) \in Nat
    <3> HIDE DEF A, B, e
    <3> QED BY <1>3, <2>1, FS_RemoveElement, FS_CardinalityType
  <2> QED BY <1>1, <1>5, <2>2 DEF fidt2
<1>6. CASE c # v /\ c # fidt[p][f]
  <2>1. B = A
    BY <1>2, <1>6 DEF Places
  <2>2. Cardinality(A) \in Nat
    BY <1>3, FS_CardinalityType
  <2> QED BY <1>1, <1>6, <2>1, <2>2 DEF fidt2
<1> QED BY <1>4, <1>5, <1>6

(* A Read or Write begins or ends.                                         *)
LEMMA UseCount ==
  ASSUME NEW pending \in Pending,
         NEW t \in Tids, NEW c \in FCBs, NEW d \in [fcb : FCBs, obj : Objects],
         pending[t] = NULL
  PROVE  Cardinality(Uses(PutIO(pending, t, d), c)) =
           Cardinality(Uses(pending, c)) + (IF c = d.fcb THEN 1 ELSE 0)
<1> DEFINE after == PutIO(pending, t, d)
           A == Uses(pending, c)
           B == Uses(after, c)
<1>1. d # NULL
  BY NullAssumption
<1>2. after[t] = d /\ \A u \in Tids : u # t => after[u] = pending[u]
  BY DEF PutIO, Pending
<1> HIDE DEF after
<1>3. IsFiniteSet(A) /\ Cardinality(A) \in Nat
  BY FinitePlaces
<1>4. CASE c = d.fcb
  <2>1. B = A \cup {t} /\ t \notin A
    BY <1>1, <1>2, <1>4 DEF Uses
  <2>2. Cardinality(B) = Cardinality(A) + 1
    <3> HIDE DEF A, B
    <3> QED BY <1>3, <2>1, FS_AddElement
  <2> QED BY <1>4, <2>2 DEF after
<1>5. CASE c # d.fcb
  <2>1. B = A
    BY <1>1, <1>2, <1>5 DEF Uses
  <2> QED BY <1>3, <1>5, <2>1 DEF after
<1> QED BY <1>4, <1>5

(* How often a table names an FCB.                                         *)
LEMMA CountType ==
  ASSUME NEW row \in Rows, NEW c
  PROVE  /\ Count(c, row) = Cardinality({f \in Fids : row[f] = c})
         /\ IsFiniteSet({f \in Fids : row[f] = c}) /\ Count(c, row) \in Nat
         /\ Count(c, row) # 0 <=> \E f \in Fids : row[f] = c
<1>1. {f \in DOMAIN row : row[f] = c} = {f \in Fids : row[f] = c}
  BY DEF Rows
<1> DEFINE A == {f \in Fids : row[f] = c}
<1>2. A \in SUBSET Fids
  OBVIOUS
<1>3. Count(c, row) = Cardinality(A)
  BY <1>1 DEF Count
<1> HIDE DEF A
<1>4. IsFiniteSet(A) /\ Cardinality(A) \in Nat
  BY <1>2, FinitePlaces, FS_Subset, FS_CardinalityType
<1>5. Cardinality(A) = 0 <=> A = {}
  BY <1>4, FS_EmptySet
<1> QED BY <1>3, <1>4, <1>5 DEF A

(* A process gets a copy of a table in Exec, or its table is emptied.      *)
LEMMA RowCount ==
  ASSUME NEW fidt \in Tables,
         NEW p \in Pids, fidt[p] = Closed,
         NEW row \in Rows, NEW c \in FCBs
  PROVE  Cardinality(Places(PutRow(fidt, p, row), c)) =
           Cardinality(Places(fidt, c)) + Count(c, row)
<1> DEFINE fidt2 == PutRow(fidt, p, row)
           A == Places(fidt, c)
           B == Places(fidt2, c)
           R == {f \in Fids : row[f] = c}
           E == {p} \X R
<1>1. fidt2[p] = row /\ \A q \in Pids : q # p => fidt2[q] = fidt[q]
  BY DEF PutRow, Tables
<1> HIDE DEF fidt2
<1>2. \A f \in Fids : fidt[p][f] # c
  BY NullAssumption DEF Closed
<1>3. B = A \cup E
  BY <1>1, <1>2 DEF Places
<1>4. A \cap E = {}
  BY <1>2 DEF Places
<1>5. IsFiniteSet(R) /\ Cardinality(R) = Count(c, row) /\ Count(c, row) \in Nat
  BY CountType
<1>6. IsFiniteSet(E) /\ Cardinality(E) = Cardinality(R)
  <2>1. IsFiniteSet({p}) /\ Cardinality({p}) = 1
    BY FS_Singleton
  <2> HIDE DEF R
  <2>2. IsFiniteSet(E) /\ Cardinality(E) = Cardinality({p}) * Cardinality(R)
    BY <2>1, <1>5, FS_Product
  <2> QED BY <2>1, <2>2, <1>5
<1>7. IsFiniteSet(A) /\ Cardinality(A) \in Nat
  BY FinitePlaces
<1>8. Cardinality(B) = Cardinality(A) + Cardinality(E)
  <2> HIDE DEF A, B, E
  <2>1. Cardinality(A \cup E) = Cardinality(A) + Cardinality(E) - Cardinality(A \cap E)
    BY <1>6, <1>7, FS_Union
  <2>2. Cardinality(A \cap E) = 0
    BY <1>4, FS_EmptySet
  <2> QED BY <1>3, <1>5, <1>6, <1>7, <2>1, <2>2
<1> QED BY <1>5, <1>6, <1>8 DEF fidt2

(* The references after each of these changes.                             *)
LEMMA RefsAfterPut ==
  ASSUME NEW fidt \in Tables, NEW pending,
         NEW p \in Pids, NEW f \in Fids, NEW v \in FCBs \cup {NULL}, v # fidt[p][f]
  PROVE  Refs(Put(fidt, p, f, v), pending) =
           [c \in FCBs |-> Refs(fidt, pending)[c] + (IF c = v THEN 1 ELSE IF c = fidt[p][f] THEN -1 ELSE 0)]
<1>1. ASSUME NEW c \in FCBs
      PROVE  Cardinality(Places(Put(fidt, p, f, v), c)) + Cardinality(Uses(pending, c)) =
               Refs(fidt, pending)[c] + (IF c = v THEN 1 ELSE IF c = fidt[p][f] THEN -1 ELSE 0)
  <2>1. Cardinality(Places(Put(fidt, p, f, v), c)) =
          Cardinality(Places(fidt, c)) + (IF c = v THEN 1 ELSE IF c = fidt[p][f] THEN -1 ELSE 0)
    BY PutCount
  <2>2. Refs(fidt, pending)[c] = Cardinality(Places(fidt, c)) + Cardinality(Uses(pending, c))
    BY DEF Refs
  <2>3. Cardinality(Places(fidt, c)) \in Nat /\ Cardinality(Uses(pending, c)) \in Nat
    BY FinitePlaces
  <2> QED BY <2>1, <2>2, <2>3
<1> QED BY <1>1 DEF Refs

(* One use more.                                                           *)
LEMMA RefsAfterUse ==
  ASSUME NEW fidt, NEW pending \in Pending,
         NEW t \in Tids, NEW d \in [fcb : FCBs, obj : Objects], pending[t] = NULL
  PROVE  Refs(fidt, PutIO(pending, t, d)) =
           [c \in FCBs |-> Refs(fidt, pending)[c] + (IF c = d.fcb THEN 1 ELSE 0)]
<1>1. ASSUME NEW c \in FCBs
      PROVE  Cardinality(Places(fidt, c)) + Cardinality(Uses(PutIO(pending, t, d), c)) =
               Refs(fidt, pending)[c] + (IF c = d.fcb THEN 1 ELSE 0)
  <2>1. Cardinality(Uses(PutIO(pending, t, d), c)) =
          Cardinality(Uses(pending, c)) + (IF c = d.fcb THEN 1 ELSE 0)
    BY UseCount
  <2>2. Refs(fidt, pending)[c] = Cardinality(Places(fidt, c)) + Cardinality(Uses(pending, c))
    BY DEF Refs
  <2>3. Cardinality(Places(fidt, c)) \in Nat /\ Cardinality(Uses(pending, c)) \in Nat
    BY FinitePlaces
  <2> QED BY <2>1, <2>2, <2>3
<1> QED BY <1>1 DEF Refs

(* One table more.                                                         *)
LEMMA RefsAfterRow ==
  ASSUME NEW fidt \in Tables, NEW pending, NEW p \in Pids, fidt[p] = Closed, NEW row \in Rows
  PROVE  Refs(PutRow(fidt, p, row), pending) =
           [c \in FCBs |-> Refs(fidt, pending)[c] + Count(c, row)]
<1>1. ASSUME NEW c \in FCBs
      PROVE  Cardinality(Places(PutRow(fidt, p, row), c)) + Cardinality(Uses(pending, c)) =
               Refs(fidt, pending)[c] + Count(c, row)
  <2>1. Cardinality(Places(PutRow(fidt, p, row), c)) = Cardinality(Places(fidt, c)) + Count(c, row)
    BY RowCount
  <2>2. Refs(fidt, pending)[c] = Cardinality(Places(fidt, c)) + Cardinality(Uses(pending, c))
    BY DEF Refs
  <2>3. Cardinality(Places(fidt, c)) \in Nat /\ Cardinality(Uses(pending, c)) \in Nat /\ Count(c, row) \in Nat
    BY FinitePlaces, CountType
  <2> QED BY <2>1, <2>2, <2>3
<1> QED BY <1>1 DEF Refs

-----------------------------------------------------------------------------
(* The end of a process: FCB_decref for each entry of its file table.      *)

(* The entries below n that name c.                                        *)
Below(table, n, c) == {f \in Fids : f < n /\ table[f] = c}

(* The loop over the table drops one reference for each of its entries.    *)
LEMMA CleanUpAccounts ==
  ASSUME NEW refs, Accounts(FT, refs, streamobj),
         NEW table \in Rows, \A c \in FCBs : Count(c, table) <= refs[c]
  PROVE  Accounts(CleanUp(table), [c \in FCBs |-> refs[c] - Count(c, table)], streamobj)
<1> DEFINE k == CHOOSE k : k = [n \in 0 .. MAX_FILEID |->
                  IF n = 0 THEN FT
                  ELSE IF table[n - 1] = NULL THEN k[n - 1] ELSE FCB_decref(k[n - 1], table[n - 1])]
<1>0. MAX_FILEID \in Nat /\ \A n \in 1 .. MAX_FILEID : n - 1 \in Fids
  BY StreamsAssumption DEF Fids
<1>1. /\ refs \in [FCBs -> Nat]
      /\ refcount \in [FCBs -> Nat] /\ FCB_freelist \in Seq(FCBs) /\ live \in SUBSET Objects
  BY DEF Accounts, FT
<1>2. k = [n \in 0 .. MAX_FILEID |->
            IF n = 0 THEN FT
            ELSE IF table[n - 1] = NULL THEN k[n - 1] ELSE FCB_decref(k[n - 1], table[n - 1])]
  <2> DEFINE step == [q \in (1 .. MAX_FILEID) \X FCBStates |->
                        IF table[q[1] - 1] = NULL THEN q[2] ELSE FCB_decref(q[2], table[q[1] - 1])]
  <2>1. FT \in FCBStates
    BY StateTypes
  <2>2. \A s \in FCBStates, c \in FCBs : FCB_decref(s, c) \in FCBStates
    BY StateTypes
  <2>3. step \in [(1 .. MAX_FILEID) \X FCBStates -> FCBStates]
    <3>1. ASSUME NEW n \in 1 .. MAX_FILEID, NEW s \in FCBStates
          PROVE (IF table[n - 1] = NULL THEN s ELSE FCB_decref(s, table[n - 1])) \in FCBStates
      <4>1. table[n - 1] = NULL \/ table[n - 1] \in FCBs
        BY <1>0 DEF Rows
      <4> QED BY <4>1, <2>2
    <3> QED BY <3>1
  <2>4. \A n \in 1 .. MAX_FILEID, s \in FCBStates :
          step[<<n, s>>] = IF table[n - 1] = NULL THEN s ELSE FCB_decref(s, table[n - 1])
    OBVIOUS
  <2> HIDE DEF step
  <2>5. PICK f \in [0 .. MAX_FILEID -> FCBStates] :
          f[0] = FT /\ \A n \in 1 .. MAX_FILEID : f[n] = step[<<n, f[n - 1]>>]
    <3> DEFINE a == FT
               N == MAX_FILEID
               S == FCBStates
    <3>1. N \in Nat /\ a \in S /\ step \in [(1 .. N) \X S -> S]
      BY <1>0, <2>1, <2>3
    <3> HIDE DEF a, N, S
    <3>2. Loop(N, S, a, step) # {}
      BY <3>1, RecursionExists
    <3> QED BY <3>2 DEF Loop, a, N, S
  <2>6. ASSUME NEW n \in 0 .. MAX_FILEID
        PROVE f[n] = IF n = 0 THEN FT
                     ELSE IF table[n - 1] = NULL THEN f[n - 1] ELSE FCB_decref(f[n - 1], table[n - 1])
    <3>1. CASE n = 0
      BY <3>1, <2>5
    <3>2. CASE n # 0
      <4>1. n \in 1 .. MAX_FILEID /\ n - 1 \in 0 .. MAX_FILEID
        BY <1>0, <3>2
      <4> QED BY <2>4, <2>5, <3>2, <4>1
    <3> QED BY <3>1, <3>2
  <2>7. f = [n \in 0 .. MAX_FILEID |->
            IF n = 0 THEN FT
            ELSE IF table[n - 1] = NULL THEN f[n - 1] ELSE FCB_decref(f[n - 1], table[n - 1])]
    BY <2>6
  <2> QED BY <2>7
<1>3. CleanUp(table) = k[MAX_FILEID]
  BY DEF CleanUp
<1> HIDE DEF k
<1> DEFINE r(n) == [c \in FCBs |-> refs[c] - Cardinality(Below(table, n, c))]
           T == {n \in 0 .. MAX_FILEID : Accounts(k[n], r(n), streamobj)}
<1>4. ASSUME NEW n \in Nat, NEW c \in FCBs
      PROVE  /\ IsFiniteSet(Below(table, n, c)) /\ Cardinality(Below(table, n, c)) \in Nat
             /\ Cardinality(Below(table, n, c)) <= Count(c, table)
  <2> DEFINE B == Below(table, n, c)
             A == {f \in Fids : table[f] = c}
  <2>1. IsFiniteSet(A) /\ Count(c, table) = Cardinality(A)
    BY CountType
  <2>2. B \in SUBSET A
    BY DEF Below
  <2> HIDE DEF A, B
  <2>3. IsFiniteSet(B) /\ Cardinality(B) <= Cardinality(A) /\ Cardinality(B) \in Nat
    BY <2>1, <2>2, FS_Subset, FS_CardinalityType
  <2> QED BY <2>1, <2>3 DEF B
<1>5. 0 \in T
  <2>1. k[0] = FT
    BY <1>0, <1>2
  <2>2. \A c \in FCBs : Below(table, 0, c) = {}
    BY <1>0 DEF Below, Fids
  <2>3. \A c \in FCBs : refs[c] - Cardinality(Below(table, 0, c)) = refs[c]
    <3>1. ASSUME NEW c \in FCBs PROVE refs[c] - Cardinality(Below(table, 0, c)) = refs[c]
      <4>1. Cardinality(Below(table, 0, c)) = 0
        BY <2>2, FS_EmptySet
      <4> QED BY <4>1, <1>1
    <3> QED BY <3>1
  <2>4. r(0) = refs
    BY <1>1, <2>3
  <2>5. 0 \in 0 .. MAX_FILEID
    BY <1>0
  <2> HIDE DEF r
  <2> QED BY <2>1, <2>4, <2>5
<1>6. ASSUME NEW n \in 0 .. MAX_FILEID, n < MAX_FILEID, n \in T PROVE n + 1 \in T
  <2>1. n + 1 \in 0 .. MAX_FILEID /\ n + 1 # 0 /\ n + 1 - 1 = n /\ n \in Fids /\ n \in Nat /\ n + 1 \in Nat
    BY <1>0, <1>6 DEF Fids
  <2>2. k[n + 1] = IF table[n] = NULL THEN k[n] ELSE FCB_decref(k[n], table[n])
    <3>1. k[n + 1] = IF table[n + 1 - 1] = NULL THEN k[n + 1 - 1] ELSE FCB_decref(k[n + 1 - 1], table[n + 1 - 1])
      BY <1>2, <2>1
    <3> QED BY <2>1, <3>1
  <2>3. \A c \in FCBs : c # table[n] => Below(table, n + 1, c) = Below(table, n, c)
    BY <2>1 DEF Below, Fids
  <2>4. CASE table[n] = NULL
    <3>1. \A c \in FCBs : Below(table, n + 1, c) = Below(table, n, c)
      BY <2>3, <2>4, NullAssumption
    <3>2. r(n + 1) = r(n)
      BY <3>1
    <3> HIDE DEF r
    <3> QED BY <2>1, <2>2, <2>4, <3>2, <1>6
  <2>5. CASE table[n] # NULL
    <3> DEFINE c == table[n]
               A == Below(table, n, c)
               B == Below(table, n + 1, c)
    <3>1. c \in FCBs
      BY <2>1, <2>5 DEF Rows
    <3>2. B = A \cup {n} /\ n \notin A
      BY <2>1 DEF Below, Fids
    <3>3. /\ IsFiniteSet(A) /\ Cardinality(A) \in Nat
          /\ Cardinality(B) \in Nat /\ Cardinality(B) <= Count(c, table)
      BY <1>4, <2>1, <3>1
    <3>4. Cardinality(B) = Cardinality(A) + 1
      <4> HIDE DEF A, B
      <4> QED BY <3>2, <3>3, FS_AddElement
    <3>5. refs[c] \in Nat /\ Count(c, table) <= refs[c] /\ Count(c, table) \in Nat
      BY <1>1, <3>1, CountType
    <3> HIDE DEF A, B
    <3>6. refs[c] - Cardinality(A) # 0 /\ refs[c] - Cardinality(B) = refs[c] - Cardinality(A) - 1
      BY <3>3, <3>4, <3>5
    <3>7. r(n) \in [FCBs -> Int] /\ r(n)[c] # 0
      BY <1>1, <1>4, <2>1, <3>1, <3>6 DEF A
    <3>8. r(n + 1) = [r(n) EXCEPT ![c] = @ - 1]
      <4>1. \A d \in FCBs : d # c => r(n + 1)[d] = r(n)[d]
        BY <2>3
      <4>2. r(n + 1)[c] = r(n)[c] - 1
        BY <3>1, <3>6 DEF A, B
      <4> QED BY <4>1, <4>2
    <3>9. Accounts(k[n], r(n), streamobj)
      BY <1>6
    <3> DEFINE rn == r(n)
               kn == k[n]
    <3>10. Accounts(kn, rn, streamobj) /\ rn[c] # 0
      BY <3>7, <3>9
    <3>11. k[n + 1] = FCB_decref(kn, c) /\ r(n + 1) = [rn EXCEPT ![c] = @ - 1]
      BY <2>2, <2>5, <3>8
    <3> HIDE DEF rn, kn, c, r
    <3>12. Accounts(FCB_decref(kn, c), [rn EXCEPT ![c] = @ - 1], streamobj)
      BY <3>1, <3>10, DecrefAccounts
    <3> QED BY <2>1, <3>11, <3>12
  <2> QED BY <2>4, <2>5
<1>7. MAX_FILEID \in T
  <2> HIDE DEF T
  <2>1. 0 .. MAX_FILEID \subseteq T
    BY <1>0, <1>5, <1>6, UpTo
  <2> QED BY <2>1, <1>0
<1>8. r(MAX_FILEID) = [c \in FCBs |-> refs[c] - Count(c, table)]
  <2>1. ASSUME NEW c \in FCBs PROVE Cardinality(Below(table, MAX_FILEID, c)) = Count(c, table)
    <3>1. Below(table, MAX_FILEID, c) = {f \in Fids : table[f] = c}
      BY <1>0 DEF Below, Fids
    <3> QED BY <3>1, CountType
  <2> QED BY <2>1
<1> HIDE DEF r
<1> QED BY <1>3, <1>7, <1>8

-----------------------------------------------------------------------------
(* Opening streams.                                                        *)

First(n) == {FCB_freelist[i] : i \in 1 .. n}

(* The FCBs m and their objects so, once the caller of FCB_reserve has put *)
(* the objects in the first n FCBs of the free list.                       *)
Reservation(n, objs, m, so) ==
  /\ n <= Len(FCB_freelist)
  /\ objs \in [1 .. n -> Objects] /\ IsInjective(objs) /\ \A i \in 1 .. n : objs[i] \notin live
  /\ m.refcount = [c \in FCBs |-> IF c \in First(n) THEN 1 ELSE refcount[c]]
  /\ m.freelist = SubSeq(FCB_freelist, n + 1, Len(FCB_freelist))
  /\ m.live = live \cup Range(objs)
  /\ so \in [FCBs -> Objects \cup {NULL}]
  /\ \A i \in 1 .. n : so[FCB_freelist[i]] = objs[i]
  /\ \A c \in FCBs : c \notin First(n) => so[c] = streamobj[c]

(* Each of them has one reference then.                                    *)
LEMMA ReserveAccounts ==
  ASSUME NEW refs, Accounts(FT, refs, streamobj),
         NEW n \in Nat, NEW objs, NEW m, NEW so, Reservation(n, objs, m, so),
         NEW r \in [FCBs -> Nat],
         \A c \in FCBs : r[c] = IF c \in First(n) THEN 1 ELSE refs[c]
  PROVE  Accounts(m, r, so)
<1>0. /\ n <= Len(FCB_freelist)
      /\ objs \in [1 .. n -> Objects] /\ IsInjective(objs) /\ \A i \in 1 .. n : objs[i] \notin live
      /\ m.refcount = [c \in FCBs |-> IF c \in First(n) THEN 1 ELSE refcount[c]]
      /\ m.freelist = SubSeq(FCB_freelist, n + 1, Len(FCB_freelist))
      /\ m.live = live \cup Range(objs)
      /\ so \in [FCBs -> Objects \cup {NULL}]
      /\ \A i \in 1 .. n : so[FCB_freelist[i]] = objs[i]
      /\ \A c \in FCBs : c \notin First(n) => so[c] = streamobj[c]
  BY DEF Reservation
<1> DEFINE fl == FCB_freelist
           taken == {fl[i] : i \in 1 .. n}
<1>1. /\ refs \in [FCBs -> Nat] /\ streamobj \in [FCBs -> Objects \cup {NULL}]
      /\ refcount \in [FCBs -> Nat] /\ fl \in Seq(FCBs) /\ live \in SUBSET Objects
      /\ IsInjective(fl)
      /\ \A d \in FCBs : d \in ToSet(fl) <=> refs[d] = 0
      /\ \A d \in FCBs : refs[d] # 0 => refcount[d] = refs[d] /\ streamobj[d] \in Objects
      /\ \A b, d \in FCBs : refs[b] # 0 /\ refs[d] # 0 /\ streamobj[b] = streamobj[d] => b = d
      /\ live = {streamobj[b] : b \in {d \in FCBs : refs[d] # 0}}
  BY DEF Accounts, FT
<1>2. Len(fl) \in Nat /\ DOMAIN fl = 1 .. Len(fl) /\ \A i \in 1 .. Len(fl) : fl[i] \in FCBs
  BY <1>1, LenProperties
<1> HIDE DEF fl
<1>3. /\ m.freelist \in Seq(FCBs) /\ Len(m.freelist) = Len(fl) - n
      /\ \A i \in 1 .. Len(fl) - n : m.freelist[i] = fl[n + i]
  <2>1. n + 1 \in Int /\ \A i \in n + 1 .. Len(fl) : fl[i] \in FCBs
    BY <1>2
  <2> DEFINE b == SubSeq(fl, n + 1, Len(fl))
  <2>2. /\ b \in Seq(FCBs)
        /\ Len(b) = IF n + 1 <= Len(fl) THEN Len(fl) - (n + 1) + 1 ELSE 0
        /\ \A i \in 1 .. Len(fl) - (n + 1) + 1 : b[i] = fl[n + 1 + i - 1]
    BY <2>1, <1>2, SubSeqProperties
  <2>3. m.freelist = b
    BY <1>0 DEF fl
  <2> HIDE DEF b
  <2>4. n <= Len(fl)
    BY <1>0 DEF fl
  <2>5. Len(b) = Len(fl) - n /\ Len(fl) - (n + 1) + 1 = Len(fl) - n
    <3>1. Len(fl) - (n + 1) + 1 = Len(fl) - n /\ (~ (n + 1 <= Len(fl)) => Len(fl) - n = 0)
      <4>1. \A L \in Nat : n <= L => L - (n + 1) + 1 = L - n /\ (~ (n + 1 <= L) => L - n = 0)
        OBVIOUS
      <4> QED BY <1>2, <2>4, <4>1
    <3> QED BY <2>2, <3>1
  <2>6. \A i \in 1 .. Len(fl) - n : n + 1 + i - 1 = n + i
    BY <1>2
  <2> QED BY <2>2, <2>3, <2>5, <2>6
<1>4. DOMAIN m.freelist = 1 .. Len(fl) - n
  BY <1>3, LenProperties
<1>5. IsInjective(m.freelist)
  <2> SUFFICES ASSUME NEW i \in 1 .. Len(fl) - n, NEW j \in 1 .. Len(fl) - n,
                      m.freelist[i] = m.freelist[j]
               PROVE  i = j
    BY <1>4 DEF IsInjective
  <2>1. n + i \in 1 .. Len(fl) /\ n + j \in 1 .. Len(fl)
    BY <1>2
  <2>3. fl[n + i] = fl[n + j]
    BY <1>3
  <2>2. n + i = n + j
    BY <1>1, <1>2, <2>1, <2>3 DEF IsInjective
  <2> QED BY <2>2
<1>6. ToSet(m.freelist) = ToSet(fl) \ taken
  <2>0. n <= Len(fl)
    BY <1>0 DEF fl
  <2>1. ASSUME NEW i \in 1 .. Len(fl) - n PROVE m.freelist[i] \in ToSet(fl) \ taken
    <3>1. n + i \in 1 .. Len(fl) /\ \A j \in 1 .. n : n + i # j /\ j \in 1 .. Len(fl)
      BY <1>2, <2>0
    <3>2. \A j \in 1 .. n : fl[n + i] # fl[j]
      BY <1>1, <1>2, <3>1 DEF IsInjective
    <3>3. m.freelist[i] = fl[n + i]
      BY <1>3
    <3>4. fl[n + i] \notin taken
      BY <3>2
    <3>5. fl[n + i] \in ToSet(fl)
      BY <1>2, <3>1 DEF ToSet
    <3> QED BY <3>3, <3>4, <3>5
  <2>2. ASSUME NEW c \in ToSet(fl) \ taken PROVE c \in ToSet(m.freelist)
    <3>1. PICK i \in 1 .. Len(fl) : c = fl[i]
      BY <1>2 DEF ToSet
    <3>2. i \notin 1 .. n
      BY <3>1, <2>2
    <3>3. i - n \in 1 .. Len(fl) - n /\ n + (i - n) = i
      BY <1>2, <2>0, <3>2
    <3> QED BY <1>3, <1>4, <3>1, <3>3 DEF ToSet
  <2>3. \A c \in ToSet(m.freelist) : \E i \in 1 .. Len(fl) - n : c = m.freelist[i]
    BY <1>4 DEF ToSet
  <2> HIDE DEF taken
  <2>4. ToSet(m.freelist) \subseteq ToSet(fl) \ taken
    BY <2>1, <2>3
  <2>5. ToSet(fl) \ taken \subseteq ToSet(m.freelist)
    BY <2>2
  <2> QED BY <2>4, <2>5
<1>7. taken \subseteq ToSet(fl) /\ taken \subseteq FCBs
  <2>0. n <= Len(fl)
    BY <1>0 DEF fl
  <2>1. \A i \in 1 .. n : i \in 1 .. Len(fl)
    BY <2>0, <1>2
  <2> QED BY <1>2, <2>1 DEF ToSet
<1>8. /\ m.refcount \in [FCBs -> Nat]
      /\ \A c \in FCBs : m.refcount[c] = IF c \in taken THEN 1 ELSE refcount[c]
      /\ \A c \in FCBs : r[c] = IF c \in taken THEN 1 ELSE refs[c]
      /\ \A c \in FCBs : c \notin taken => so[c] = streamobj[c]
      /\ \A i \in 1 .. n : so[fl[i]] = objs[i]
  BY <1>0, <1>1 DEF fl, First
<1>9. \A c \in FCBs : c \in ToSet(m.freelist) <=> r[c] = 0
  <2> HIDE DEF taken
  <2>1. ASSUME NEW c \in FCBs PROVE c \in ToSet(m.freelist) <=> r[c] = 0
    <3>1. CASE c \in taken
      BY <3>1, <1>6, <1>8
    <3>2. CASE c \notin taken
      BY <3>2, <1>1, <1>6, <1>8
    <3> QED BY <3>1, <3>2
  <2> QED BY <2>1
<1>10. \A c \in taken : so[c] \in Objects /\ so[c] \notin live /\ so[c] \in Range(objs)
  <2>1. ASSUME NEW i \in 1 .. n PROVE objs[i] \in Objects /\ objs[i] \notin live /\ objs[i] \in Range(objs)
    BY <1>0 DEF Range
  <2> QED BY <2>1, <1>8
<1>11. \A c \in FCBs : r[c] # 0 => m.refcount[c] = r[c] /\ so[c] \in Objects
  BY <1>1, <1>8, <1>10
<1>12. \A c, d \in taken : so[c] = so[d] => c = d
  <2>1. ASSUME NEW i \in 1 .. n, NEW j \in 1 .. n, so[fl[i]] = so[fl[j]] PROVE fl[i] = fl[j]
    <3>1. objs[i] = objs[j] /\ DOMAIN objs = 1 .. n
      BY <1>0, <1>8, <2>1
    <3> QED BY <1>0, <3>1 DEF IsInjective
  <2>2. \A c \in taken : \E i \in 1 .. n : c = fl[i]
    OBVIOUS
  <2> HIDE DEF taken
  <2>3. ASSUME NEW c \in taken, NEW d \in taken, so[c] = so[d] PROVE c = d
    <3>1. PICK i \in 1 .. n : c = fl[i]
      BY <2>2
    <3>2. PICK j \in 1 .. n : d = fl[j]
      BY <2>2
    <3>3. so[fl[i]] = so[fl[j]]
      BY <2>3, <3>1, <3>2
    <3>4. fl[i] = fl[j]
      BY <2>1, <3>3
    <3> QED BY <3>1, <3>2, <3>4
  <2> QED BY <2>3
<1>13. \A c \in FCBs : c \notin taken /\ r[c] # 0 => so[c] \in live /\ refs[c] # 0 /\ so[c] = streamobj[c]
  BY <1>1, <1>8
<1>14. \A c, d \in FCBs : r[c] # 0 /\ r[d] # 0 /\ so[c] = so[d] => c = d
  <2> HIDE DEF taken
  <2> QED BY <1>1, <1>10, <1>12, <1>13
<1>15. m.live = {so[c] : c \in {d \in FCBs : r[d] # 0}}
  <2>1. ASSUME NEW c \in FCBs, r[c] # 0 PROVE so[c] \in m.live
    BY <2>1, <1>0, <1>10, <1>13
  <2>2. ASSUME NEW o \in live PROVE \E c \in FCBs : r[c] # 0 /\ so[c] = o
    <3>1. PICK c \in FCBs : refs[c] # 0 /\ streamobj[c] = o
      BY <1>1
    <3>2. c \notin taken
      BY <1>1, <1>7, <3>1
    <3> QED BY <1>8, <3>1, <3>2
  <2>3. ASSUME NEW o \in Range(objs) PROVE \E c \in FCBs : r[c] # 0 /\ so[c] = o
    <3>1. PICK i \in 1 .. n : o = objs[i]
      BY <1>0 DEF Range
    <3>2. fl[i] \in taken /\ fl[i] \in FCBs
      BY <1>7
    <3>3. so[fl[i]] = objs[i]
      BY <1>8
    <3> HIDE DEF taken
    <3>4. r[fl[i]] = 1
      BY <1>8, <3>2
    <3> QED BY <3>1, <3>2, <3>3, <3>4
  <2> QED BY <1>0, <2>1, <2>2, <2>3
<1>16. m.live \in SUBSET Objects
  <2>1. Range(objs) \subseteq Objects
    BY <1>0 DEF Range
  <2> QED BY <1>0, <1>1, <2>1
<1> QED BY <1>0, <1>3, <1>5, <1>8, <1>9, <1>11, <1>14, <1>15, <1>16 DEF Accounts

-----------------------------------------------------------------------------
(* The steps.                                                              *)

(* The conjuncts of the invariant.                                         *)
LEMMA InvFacts ==
  ASSUME IInv
  PROVE  /\ FIDT \in Tables /\ \A p \in Pids : FIDT[p] \in Rows
         /\ refcount \in [FCBs -> Nat] /\ FCB_freelist \in Seq(FCBs) /\ live \in SUBSET Objects
         /\ streamobj \in [FCBs -> Objects \cup {NULL}]
         /\ proc \in [Tids -> Pids \cup {NULL}]
         /\ io \in Pending
         /\ Refs(FIDT, io) \in [FCBs -> Nat]
         /\ Accounts(FT, Refs(FIDT, io), streamobj)
         /\ IOKept /\ EmptyTables
BY RefsAre DEF IInv, TypeOK, Tables, Rows, Pending

(* What a thread refers to is in use.                                      *)
LEMMA InUse ==
  ASSUME IInv
  PROVE  /\ \A p \in Pids, f \in Fids : FIDT[p][f] # NULL =>
              FIDT[p][f] \in FCBs /\ Refs(FIDT, io)[FIDT[p][f]] # 0
         /\ \A t \in Tids : io[t] # NULL =>
              io[t].fcb \in FCBs /\ io[t].obj \in Objects /\ Refs(FIDT, io)[io[t].fcb] # 0
<1>1. ASSUME NEW p \in Pids, NEW f \in Fids, FIDT[p][f] # NULL
      PROVE  FIDT[p][f] \in FCBs /\ Refs(FIDT, io)[FIDT[p][f]] # 0
  <2> DEFINE c == FIDT[p][f]
  <2>1. c \in FCBs
    BY <1>1, InvFacts DEF Rows
  <2>2. <<p, f>> \in Places(FIDT, c)
    BY DEF Places
  <2> HIDE DEF c
  <2>3. Cardinality(Places(FIDT, c)) # 0
    BY <2>2, FinitePlaces, FS_EmptySet
  <2>4. Refs(FIDT, io)[c] # 0
    BY <2>1, <2>3, FinitePlaces DEF Refs
  <2> QED BY <2>1, <2>4 DEF c
<1>2. ASSUME NEW t \in Tids, io[t] # NULL
      PROVE  io[t].fcb \in FCBs /\ io[t].obj \in Objects /\ Refs(FIDT, io)[io[t].fcb] # 0
  <2> DEFINE c == io[t].fcb
  <2>1. c \in FCBs /\ io[t].obj \in Objects
    BY <1>2, InvFacts DEF Pending
  <2>2. t \in Uses(io, c)
    BY <1>2 DEF Uses
  <2> HIDE DEF c
  <2>3. Cardinality(Uses(io, c)) # 0
    BY <2>2, FinitePlaces, FS_EmptySet
  <2>4. Refs(FIDT, io)[c] # 0
    BY <2>1, <2>3, FinitePlaces DEF Refs
  <2> QED BY <2>1, <2>4 DEF c
<1> QED BY <1>1, <1>2

(* The accounts after a step.                                              *)
LEMMA Accounted ==
  ASSUME NEW m, refcount' = m.refcount, FCB_freelist' = m.freelist, live' = m.live,
         NEW refs, NEW so, Accounts(m, refs, so), Refs(FIDT', io') = refs, streamobj' = so
  PROVE  Accounts(FT, Refs(FIDT, io), streamobj)'
<1>1. Accounts([refcount |-> refcount', freelist |-> FCB_freelist', live |-> live'], refs, so)
  BY SameAccounts
<1> QED BY <1>1 DEF FT

(* Close.                                                                  *)
LEMMA CloseStep ==
  ASSUME IInv, NEW t \in Tids, NEW f \in Fids, sys_Close(t, f)
  PROVE  IInv'
<1>1. PICK p \in Pids, c \in FCBs : p = proc[t] /\ c = FIDT[p][f] /\ Refs(FIDT, io)[c] # 0
  <2>1. proc[t] \in Pids
    BY InvFacts DEF sys_Close, Running
  <2> QED BY <2>1, InUse DEF sys_Close
<1>2. PICK m : m = FCB_decref(FT, c)
  OBVIOUS
<1>3. /\ FIDT' = Put(FIDT, p, f, NULL)
      /\ refcount' = m.refcount /\ FCB_freelist' = m.freelist /\ live' = m.live
      /\ streamobj' = streamobj /\ proc' = proc /\ io' = io
  BY <1>1, <1>2 DEF sys_Close, Become, Put
<1>4. PICK refs : refs = Refs(FIDT, io)
  OBVIOUS
<1>5. refs \in [FCBs -> Nat] /\ Accounts(m, [refs EXCEPT ![c] = @ - 1], streamobj)
  BY <1>1, <1>2, <1>4, InvFacts, DecrefAccounts
<1>6. NULL # FIDT[p][f] /\ FIDT \in Tables /\ NULL \in FCBs \cup {NULL}
  BY <1>1, NullAssumption, InvFacts
<1>7. Refs(FIDT', io') = [refs EXCEPT ![c] = @ - 1]
  <2>1. Refs(FIDT', io') = [d \in FCBs |->
           refs[d] + (IF d = NULL THEN 1 ELSE IF d = FIDT[p][f] THEN -1 ELSE 0)]
    BY <1>3, <1>4, <1>6, RefsAfterPut
  <2>2. \A d \in FCBs : refs[d] + (IF d = NULL THEN 1 ELSE IF d = FIDT[p][f] THEN -1 ELSE 0) =
                         IF d = c THEN refs[d] - 1 ELSE refs[d]
    BY <1>1, <1>5, NullAssumption
  <2>3. Refs(FIDT', io') = [d \in FCBs |-> IF d = c THEN refs[d] - 1 ELSE refs[d]]
    BY <2>1, <2>2
  <2> QED BY <2>3, <1>5
<1>8. Accounts(FT, Refs(FIDT, io), streamobj)'
  BY <1>3, <1>5, <1>7, Accounted
<1>9. FIDT' \in Tables
  BY <1>3, <1>6, PutCount
<1>10. TypeOK'
  BY <1>3, <1>8, <1>9, InvFacts DEF TypeOK, Accounts, FT, Tables, Rows, Pending
<1>11. IOKept'
  BY <1>3, InvFacts DEF IOKept
<1>12. EmptyTables'
  <2>1. \A q \in Pids : q # p => FIDT'[q] = FIDT[q]
    BY <1>3, <1>6 DEF Put, Tables
  <2> QED BY <1>1, <1>3, <2>1, InvFacts DEF EmptyTables
<1> QED BY <1>8, <1>10, <1>11, <1>12 DEF IInv

(* The end of a Read or Write, which may be the last use of its stream.    *)
LEMMA EndIOStep ==
  ASSUME IInv, NEW t \in Tids, EndIO(t)
  PROVE  IInv'
<1>1. PICK d \in [fcb : FCBs, obj : Objects] : d = io[t] /\ Refs(FIDT, io)[d.fcb] # 0
  <2>1. io[t] # NULL
    BY DEF EndIO
  <2>2. io[t] \in [fcb : FCBs, obj : Objects]
    BY <2>1, InvFacts DEF Pending
  <2> QED BY <2>1, <2>2, InUse
<1>2. PICK c \in FCBs : c = d.fcb
  OBVIOUS
<1>3. PICK m : m = FCB_decref(FT, c)
  OBVIOUS
<1>4. /\ io' = PutIO(io, t, NULL) /\ FIDT' = FIDT
      /\ refcount' = m.refcount /\ FCB_freelist' = m.freelist /\ live' = m.live
      /\ streamobj' = streamobj /\ proc' = proc
  BY <1>1, <1>2, <1>3 DEF EndIO, Become, PutIO
<1>5. PICK refs : refs = Refs(FIDT, io)
  OBVIOUS
<1>6. refs \in [FCBs -> Nat] /\ refs[c] # 0 /\ Accounts(m, [refs EXCEPT ![c] = @ - 1], streamobj)
  BY <1>1, <1>2, <1>3, <1>5, InvFacts, DecrefAccounts
<1>7. io \in Pending
  BY InvFacts
<1>8. /\ io' \in Pending /\ io'[t] = NULL /\ io = PutIO(io', t, d)
      /\ \A u \in Tids : io'[u] # NULL => io'[u] = io[u]
  BY <1>1, <1>4, <1>7 DEF Pending, PutIO
<1>9. Refs(FIDT', io') = [refs EXCEPT ![c] = @ - 1]
  <2>0. PICK after \in Pending : after = io'
    BY <1>8
  <2>1. Refs(FIDT, PutIO(after, t, d)) =
          [b \in FCBs |-> Refs(FIDT, after)[b] + (IF b = d.fcb THEN 1 ELSE 0)]
    BY <1>8, <2>0, RefsAfterUse
  <2>2. PICK r \in [FCBs -> Nat] : r = Refs(FIDT, after)
    BY RefsAre
  <2>3. \A b \in FCBs : refs[b] = r[b] + (IF b = c THEN 1 ELSE 0)
    BY <2>0, <2>1, <2>2, <1>2, <1>5, <1>8
  <2>4. \A b \in FCBs : r[b] = IF b = c THEN refs[b] - 1 ELSE refs[b]
    BY <2>3, <1>6
  <2>5. r = [refs EXCEPT ![c] = @ - 1]
    BY <2>4, <1>6
  <2> QED BY <2>0, <2>2, <2>5, <1>4
<1>10. Accounts(FT, Refs(FIDT, io), streamobj)'
  BY <1>4, <1>6, <1>9, Accounted
<1>11. TypeOK'
  BY <1>4, <1>8, <1>10, InvFacts DEF TypeOK, Accounts, FT, Tables, Rows, Pending
<1>12. IOKept'
  BY <1>4, <1>8, InvFacts DEF IOKept
<1>13. EmptyTables'
  BY <1>4, InvFacts DEF EmptyTables
<1> QED BY <1>10, <1>11, <1>12, <1>13 DEF IInv

(* The start of a Read or Write, which takes a reference.                  *)
LEMMA BeginIOStep ==
  ASSUME IInv, NEW t \in Tids, NEW f \in Fids, BeginIO(t, f)
  PROVE  IInv'
<1>1. PICK p \in Pids, c \in FCBs : p = proc[t] /\ c = FIDT[p][f] /\ Refs(FIDT, io)[c] # 0
  <2>1. proc[t] \in Pids
    BY InvFacts DEF BeginIO, Running
  <2> QED BY <2>1, InUse DEF BeginIO
<1>2. streamobj[c] \in Objects
  BY <1>1, InvFacts DEF Accounts
<1>3. PICK d \in [fcb : FCBs, obj : Objects] : d.fcb = c /\ d.obj = streamobj[c] /\ d = [fcb |-> c, obj |-> streamobj[c]]
  BY <1>2
<1>4. PICK m : m = FCB_incref(FT, c)
  OBVIOUS
<1>5. /\ io' = PutIO(io, t, d) /\ FIDT' = FIDT /\ io[t] = NULL
      /\ refcount' = m.refcount /\ FCB_freelist' = m.freelist /\ live' = m.live
      /\ streamobj' = streamobj /\ proc' = proc
  BY <1>1, <1>3, <1>4 DEF BeginIO, Running, Become, PutIO, HeldDuringIO
<1>6. PICK refs : refs = Refs(FIDT, io)
  OBVIOUS
<1>7. refs \in [FCBs -> Nat] /\ Accounts(m, [refs EXCEPT ![c] = @ + 1], streamobj)
  <2>1. Accounts(FT, refs, streamobj) /\ refs[c] # 0 /\ refs \in [FCBs -> Nat]
    BY <1>1, <1>6, InvFacts
  <2>2. FT \in FCBStates
    BY <2>1, StateTypes
  <2> QED BY <1>4, <2>1, <2>2, IncrefOne
<1>8. io \in Pending /\ FIDT \in Tables
  BY InvFacts
<1>9. io' \in Pending /\ io'[t] = d /\ \A u \in Tids : u # t => io'[u] = io[u]
  BY <1>5, <1>8 DEF PutIO, Pending
<1>10. Refs(FIDT', io') = [refs EXCEPT ![c] = @ + 1]
  <2>1. Refs(FIDT, PutIO(io, t, d)) = [b \in FCBs |-> refs[b] + (IF b = d.fcb THEN 1 ELSE 0)]
    BY <1>5, <1>6, <1>8, RefsAfterUse
  <2>2. Refs(FIDT', io') = [b \in FCBs |-> refs[b] + (IF b = c THEN 1 ELSE 0)]
    BY <1>3, <1>5, <2>1
  <2>3. \A b \in FCBs : refs[b] + (IF b = c THEN 1 ELSE 0) = IF b = c THEN refs[b] + 1 ELSE refs[b]
    BY <1>7
  <2> QED BY <2>2, <2>3, <1>7
<1>11. Accounts(FT, Refs(FIDT, io), streamobj)'
  BY <1>5, <1>7, <1>10, Accounted
<1>12. TypeOK'
  BY <1>5, <1>9, <1>11, InvFacts DEF TypeOK, Accounts, FT, Tables, Rows, Pending
<1>13. IOKept'
  BY <1>3, <1>5, <1>9, InvFacts DEF IOKept
<1>14. EmptyTables'
  BY <1>5, InvFacts DEF EmptyTables
<1> QED BY <1>11, <1>12, <1>13, <1>14 DEF IInv

(* Dup2 onto a closed or an open file id.                                  *)
LEMMA Dup2Step ==
  ASSUME IInv, NEW t \in Tids, NEW oldfd \in Fids, NEW newfd \in Fids, sys_Dup2(t, oldfd, newfd)
  PROVE  IInv'
<1>1. PICK p \in Pids, c \in FCBs : p = proc[t] /\ c = FIDT[p][oldfd] /\ Refs(FIDT, io)[c] # 0
  <2>1. proc[t] \in Pids
    BY InvFacts DEF sys_Dup2, Running
  <2> QED BY <2>1, InUse DEF sys_Dup2
<1>2. PICK b \in FCBs \cup {NULL} : b = FIDT[p][newfd] /\ (b # NULL => Refs(FIDT, io)[b] # 0) /\ b # c
  <2>1. FIDT[p][newfd] \in FCBs \cup {NULL}
    BY InvFacts DEF Rows
  <2> QED BY <2>1, <1>1, InUse DEF sys_Dup2
<1>3. PICK k : k = Replaced(FT, b)
  OBVIOUS
<1>4. PICK m : m = FCB_incref(k, c)
  OBVIOUS
<1>5. /\ FIDT' = Put(FIDT, p, newfd, c)
      /\ refcount' = m.refcount /\ FCB_freelist' = m.freelist /\ live' = m.live
      /\ streamobj' = streamobj /\ proc' = proc /\ io' = io
  BY <1>1, <1>2, <1>3, <1>4 DEF sys_Dup2, Become, Put
<1>6. PICK refs : refs = Refs(FIDT, io)
  OBVIOUS
<1>7. /\ refs \in [FCBs -> Nat] /\ refs[c] # 0 /\ (b # NULL => refs[b] # 0)
      /\ Accounts(FT, refs, streamobj) /\ FT \in FCBStates /\ FIDT \in Tables
  <2>1. refs \in [FCBs -> Nat] /\ Accounts(FT, refs, streamobj) /\ FIDT \in Tables
    BY <1>6, InvFacts
  <2> QED BY <2>1, <1>1, <1>2, <1>6, StateTypes
<1>8. PICK mid \in [FCBs -> Nat] :
        /\ Accounts(k, mid, streamobj) /\ k \in FCBStates
        /\ \A d \in FCBs : mid[d] = IF d = b THEN refs[d] - 1 ELSE refs[d]
  <2>1. CASE b = NULL
    <3>1. k = FT /\ \A d \in FCBs : d # b
      BY <1>3, <2>1, NullAssumption DEF Replaced
    <3> QED BY <3>1, <1>7
  <2>2. CASE b # NULL
    <3>1. k = FCB_decref(FT, b) /\ b \in FCBs
      BY <1>3, <2>2 DEF Replaced
    <3>2. Accounts(k, [refs EXCEPT ![b] = @ - 1], streamobj)
      BY <3>1, <2>2, <1>7, DecrefAccounts
    <3>3. k \in FCBStates
      BY <3>1, <1>7, StateTypes
    <3>4. /\ [refs EXCEPT ![b] = @ - 1] \in [FCBs -> Nat]
          /\ \A d \in FCBs : [refs EXCEPT ![b] = @ - 1][d] = IF d = b THEN refs[d] - 1 ELSE refs[d]
      BY <1>7, <2>2, <3>1
    <3> QED BY <3>2, <3>3, <3>4
  <2> QED BY <2>1, <2>2
<1>9. Accounts(m, [mid EXCEPT ![c] = @ + 1], streamobj)
  <2>1. mid[c] # 0
    BY <1>2, <1>7, <1>8
  <2> QED BY <1>4, <1>8, <2>1, IncrefOne
<1>10. Refs(FIDT', io') = [mid EXCEPT ![c] = @ + 1]
  <2>1. c \in FCBs \cup {NULL} /\ c # FIDT[p][newfd]
    BY <1>2
  <2>2. Refs(Put(FIDT, p, newfd, c), io) =
           [d \in FCBs |-> refs[d] + (IF d = c THEN 1 ELSE IF d = FIDT[p][newfd] THEN -1 ELSE 0)]
    BY <1>6, <1>7, <2>1, RefsAfterPut
  <2>3. Refs(FIDT', io') = [d \in FCBs |-> refs[d] + (IF d = c THEN 1 ELSE IF d = b THEN -1 ELSE 0)]
    BY <1>2, <1>5, <2>2
  <2>4. \A d \in FCBs : refs[d] + (IF d = c THEN 1 ELSE IF d = b THEN -1 ELSE 0) =
                         IF d = c THEN mid[d] + 1 ELSE mid[d]
    BY <1>2, <1>7, <1>8
  <2> QED BY <2>3, <2>4
<1>11. Accounts(FT, Refs(FIDT, io), streamobj)'
  BY <1>5, <1>9, <1>10, Accounted
<1>12. FIDT' \in Tables
  BY <1>2, <1>5, <1>7, PutCount
<1>13. TypeOK'
  BY <1>5, <1>11, <1>12, InvFacts DEF TypeOK, Accounts, FT, Tables, Rows, Pending
<1>14. IOKept'
  BY <1>5, InvFacts DEF IOKept
<1>15. EmptyTables'
  <2>1. \A q \in Pids : q # p => FIDT'[q] = FIDT[q]
    BY <1>5, <1>7 DEF Put, Tables
  <2> QED BY <1>1, <1>5, <2>1, InvFacts DEF EmptyTables
<1> QED BY <1>11, <1>13, <1>14, <1>15 DEF IInv

(* Exec: the child has the streams of its parent.                          *)
LEMMA ExecStep ==
  ASSUME IInv, NEW t \in Tids, NEW p \in Pids, NEW u \in Tids, Exec(t, p, u)
  PROVE  IInv'
<1>1. PICK q \in Pids, row \in Rows : q = proc[t] /\ row = FIDT[q]
  BY InvFacts DEF Exec, Running
<1>2. FIDT \in Tables /\ FIDT[p] = Closed /\ proc \in [Tids -> Pids \cup {NULL}]
  <2>1. \A v \in Tids : proc[v] # p
    BY InvFacts DEF Exec, Range
  <2> QED BY <2>1, InvFacts DEF EmptyTables
<1>3. PICK m : m = Inherited(FT, q)
  OBVIOUS
<1>4. /\ FIDT' = PutRow(FIDT, p, row) /\ proc' = [proc EXCEPT ![u] = p] /\ proc[u] = NULL
      /\ refcount' = m.refcount /\ FCB_freelist' = m.freelist /\ live' = m.live
      /\ streamobj' = streamobj /\ io' = io
  BY <1>1, <1>3 DEF Exec, Become, PutRow
<1>5. PICK refs : refs = Refs(FIDT, io)
  OBVIOUS
<1>6. PICK more \in [FCBs -> Nat] : \A c \in FCBs : more[c] = Count(c, row)
  <2>1. \A c \in FCBs : Count(c, row) \in Nat
    BY CountType
  <2>2. [c \in FCBs |-> Count(c, row)] \in [FCBs -> Nat]
    BY <2>1
  <2> QED BY <2>2
<1>7. refs \in [FCBs -> Nat] /\ Accounts(FT, refs, streamobj) /\ refcount \in [FCBs -> Nat]
  BY <1>5, InvFacts
<1>8. PICK r \in [FCBs -> Nat] : \A c \in FCBs : r[c] = refs[c] + more[c]
  <2>1. [c \in FCBs |-> refs[c] + more[c]] \in [FCBs -> Nat]
    BY <1>7
  <2> QED BY <2>1
<1>9. Accounts(m, r, streamobj)
  <2>1. \A c \in FCBs : more[c] # 0 => refs[c] # 0
    <3>1. ASSUME NEW c \in FCBs, more[c] # 0 PROVE refs[c] # 0
      <4>1. PICK f \in Fids : row[f] = c
        BY <1>6, <3>1, CountType
      <4>2. FIDT[q][f] = c /\ c # NULL
        BY <1>1, <4>1, NullAssumption
      <4> QED BY <4>2, <1>5, InUse
    <3> QED BY <3>1
  <2>2. /\ m.freelist = FT.freelist /\ m.live = FT.live
        /\ m.refcount = [c \in FCBs |-> refcount[c] + Count(c, row)]
    BY <1>1, <1>3 DEF Inherited, FT
  <2>3. /\ m.refcount \in [FCBs -> Nat] /\ FT.refcount = refcount
        /\ \A c \in FCBs : m.refcount[c] = FT.refcount[c] + more[c]
    BY <1>6, <1>7, <2>2 DEF FT
  <2> QED BY <1>7, <1>8, <2>1, <2>2, <2>3, IncrefAccounts
<1>10. Refs(FIDT', io') = r
  <2>1. Refs(PutRow(FIDT, p, row), io) = [c \in FCBs |-> refs[c] + Count(c, row)]
    BY <1>2, <1>5, RefsAfterRow
  <2> QED BY <1>4, <1>6, <1>8, <2>1
<1>11. Accounts(FT, Refs(FIDT, io), streamobj)'
  BY <1>4, <1>9, <1>10, Accounted
<1>12. FIDT' \in Tables /\ \A d \in Pids : d # p => FIDT'[d] = FIDT[d]
  BY <1>2, <1>4 DEF Tables, PutRow
<1>13. TypeOK'
  BY <1>2, <1>4, <1>11, <1>12, InvFacts DEF TypeOK, Accounts, FT, Tables, Rows, Pending
<1>14. IOKept'
  BY <1>4, InvFacts DEF IOKept
<1>15. EmptyTables'
  <2> SUFFICES ASSUME NEW d \in Pids, \A v \in Tids : proc'[v] # d PROVE FIDT'[d] = Closed
    BY DEF EmptyTables
  <2>1. proc'[u] = p /\ \A v \in Tids : v # u => proc'[v] = proc[v]
    BY <1>2, <1>4
  <2>2. d # p /\ \A v \in Tids : proc[v] # d
    BY <1>4, <2>1, StreamsAssumption
  <2> QED BY <1>12, <2>2, InvFacts DEF EmptyTables
<1> QED BY <1>11, <1>13, <1>14, <1>15 DEF IInv

(* CreateThread.                                                           *)
LEMMA CreateThreadStep ==
  ASSUME IInv, NEW t \in Tids, NEW u \in Tids, CreateThread(t, u)
  PROVE  IInv'
<1>1. /\ FIDT' = FIDT /\ refcount' = refcount /\ FCB_freelist' = FCB_freelist /\ live' = live
      /\ streamobj' = streamobj /\ io' = io
      /\ proc' = [proc EXCEPT ![u] = proc[t]] /\ proc[u] = NULL
  BY DEF CreateThread
<1>2. proc \in [Tids -> Pids \cup {NULL}]
  BY InvFacts
<1>3. proc' \in [Tids -> Pids \cup {NULL}] /\ proc'[u] = proc[t] /\ \A v \in Tids : v # u => proc'[v] = proc[v]
  BY <1>1, <1>2
<1>4. Accounts(FT, Refs(FIDT, io), streamobj)'
  BY <1>1, InvFacts DEF FT
<1>5. TypeOK'
  BY <1>1, <1>3, InvFacts DEF TypeOK, Tables, Rows, Pending
<1>6. IOKept'
  BY <1>1, InvFacts DEF IOKept
<1>7. EmptyTables'
  <2> SUFFICES ASSUME NEW d \in Pids, \A v \in Tids : proc'[v] # d PROVE FIDT'[d] = Closed
    BY DEF EmptyTables
  <2>1. \A v \in Tids : proc[v] # d
    BY <1>1, <1>3, StreamsAssumption
  <2> QED BY <1>1, <2>1, InvFacts DEF EmptyTables
<1> QED BY <1>4, <1>5, <1>6, <1>7 DEF IInv

(* The end of a thread, and of its process if it is the last one.          *)
LEMMA ThreadExitStep ==
  ASSUME IInv, NEW t \in Tids, ThreadExit(t)
  PROVE  IInv'
<1>1. PICK p \in Pids, row \in Rows : p = proc[t] /\ row = FIDT[p]
  BY InvFacts DEF ThreadExit, Running
<1>2. /\ proc' = [proc EXCEPT ![t] = NULL] /\ streamobj' = streamobj /\ io' = io
      /\ proc \in [Tids -> Pids \cup {NULL}] /\ FIDT \in Tables
  BY InvFacts DEF ThreadExit
<1>3. /\ proc' \in [Tids -> Pids \cup {NULL}] /\ proc'[t] = NULL
      /\ \A v \in Tids : v # t => proc'[v] = proc[v]
  BY <1>2
<1>4. IOKept'
  BY <1>2, InvFacts DEF IOKept
<1>5. CASE \A u \in Tids \ {t} : proc[u] # p
  <2>1. PICK m : m = CleanUp(row)
    OBVIOUS
  <2>2. /\ FIDT' = PutRow(FIDT, p, Closed)
        /\ refcount' = m.refcount /\ FCB_freelist' = m.freelist /\ live' = m.live
    BY <1>1, <1>5, <2>1 DEF ThreadExit, Become, PutRow
  <2>3. PICK refs \in [FCBs -> Nat] : refs = Refs(FIDT, io)
    BY RefsAre
  <2>4. /\ FIDT' \in Tables /\ FIDT'[p] = Closed /\ FIDT = PutRow(FIDT', p, row)
        /\ \A q \in Pids : q # p => FIDT'[q] = FIDT[q]
    BY <1>1, <1>2, <2>2 DEF PutRow, Tables, Rows, Closed
  <2>5. PICK after \in Tables : after = FIDT'
    BY <2>4
  <2>6. PICK r \in [FCBs -> Nat] : r = Refs(after, io)
    BY RefsAre
  <2>7. \A c \in FCBs : refs[c] = r[c] + Count(c, row)
    <3>1. Refs(PutRow(after, p, row), io) = [c \in FCBs |-> r[c] + Count(c, row)]
      BY <2>4, <2>5, <2>6, RefsAfterRow
    <3> QED BY <2>3, <2>4, <2>5, <3>1
  <2>8. \A c \in FCBs : Count(c, row) \in Nat /\ Count(c, row) <= refs[c] /\ refs[c] - Count(c, row) = r[c]
    <3>1. ASSUME NEW c \in FCBs
          PROVE  Count(c, row) \in Nat /\ Count(c, row) <= refs[c] /\ refs[c] - Count(c, row) = r[c]
      <4>1. Count(c, row) \in Nat /\ r[c] \in Nat /\ refs[c] = r[c] + Count(c, row)
        BY <2>7, CountType
      <4> QED BY <4>1
    <3> QED BY <3>1
  <2>9. r = [c \in FCBs |-> refs[c] - Count(c, row)]
    BY <2>8
  <2>10. Accounts(m, r, streamobj)
    <3>1. Accounts(FT, refs, streamobj)
      BY <2>3, InvFacts
    <3> QED BY <2>1, <2>8, <2>9, <3>1, CleanUpAccounts
  <2>11. Accounts(FT, Refs(FIDT, io), streamobj)'
    BY <1>2, <2>2, <2>5, <2>6, <2>10, Accounted
  <2>12. TypeOK'
    BY <1>2, <1>3, <2>4, <2>11, InvFacts DEF TypeOK, Accounts, FT, Tables, Rows, Pending
  <2>13. EmptyTables'
    <3> SUFFICES ASSUME NEW d \in Pids, \A v \in Tids : proc'[v] # d PROVE FIDT'[d] = Closed
      BY DEF EmptyTables
    <3>1. CASE d = p
      BY <3>1, <2>4
    <3>2. CASE d # p
      <4>1. \A v \in Tids : proc[v] # d
        BY <1>1, <1>3, <3>2
      <4> QED BY <2>4, <3>2, <4>1, InvFacts DEF EmptyTables
    <3> QED BY <3>1, <3>2
  <2> QED BY <1>4, <2>11, <2>12, <2>13 DEF IInv
<1>6. CASE ~ \A u \in Tids \ {t} : proc[u] # p
  <2>1. FIDT' = FIDT /\ refcount' = refcount /\ FCB_freelist' = FCB_freelist /\ live' = live
    BY <1>1, <1>6 DEF ThreadExit
  <2>2. Accounts(FT, Refs(FIDT, io), streamobj)'
    BY <1>2, <2>1, InvFacts DEF FT
  <2>3. TypeOK'
    BY <1>2, <1>3, <2>1, InvFacts DEF TypeOK, Tables, Rows, Pending
  <2>4. EmptyTables'
    <3> SUFFICES ASSUME NEW d \in Pids, \A v \in Tids : proc'[v] # d PROVE FIDT'[d] = Closed
      BY DEF EmptyTables
    <3>1. d # p
      BY <1>3, <1>6
    <3>2. \A v \in Tids : proc[v] # d
      BY <1>1, <1>3, <3>1
    <3> QED BY <2>1, <3>2, InvFacts DEF EmptyTables
  <2> QED BY <1>4, <2>2, <2>3, <2>4 DEF IInv
<1> QED BY <1>5, <1>6

(* Calls that fail: the free list is reordered, and the counts of free     *)
(* FCBs, which nobody reads, may change.                                   *)
LEMMA ReorderAccounts ==
  ASSUME NEW k, NEW refs, NEW so, Accounts(k, refs, so), NEW m, m.live = k.live,
         m.freelist \in Seq(FCBs), IsInjective(m.freelist), ToSet(m.freelist) = ToSet(k.freelist),
         m.refcount \in [FCBs -> Nat],
         \A c \in FCBs : refs[c] # 0 => m.refcount[c] = k.refcount[c]
  PROVE  Accounts(m, refs, so)
BY DEF Accounts

(* A failing open or Pipe leaves every stream as it was.                   *)
LEMMA FailStep ==
  ASSUME IInv, NEW t \in Tids, OpenFails(t) \/ PipeFails(t)
  PROVE  IInv'
<1>1. /\ FIDT' = FIDT /\ streamobj' = streamobj /\ live' = live /\ proc' = proc /\ io' = io
  BY DEF OpenFails, PipeFails
<1>2. PICK refs : refs = Refs(FIDT, io)
  OBVIOUS
<1>3. PICK fl \in Seq(FCBs) : fl = FCB_freelist
  BY InvFacts
<1>4. /\ Accounts(FT, refs, streamobj) /\ refcount \in [FCBs -> Nat] /\ IsInjective(fl)
      /\ \A c \in FCBs : c \in ToSet(fl) <=> refs[c] = 0
      /\ FT.live = live /\ FT.freelist = fl /\ FT.refcount = refcount
  BY <1>2, <1>3, InvFacts DEF Accounts, FT
<1>5. /\ FCB_freelist' \in Seq(FCBs) /\ IsInjective(FCB_freelist') /\ ToSet(FCB_freelist') = ToSet(fl)
      /\ refcount' \in [FCBs -> Nat]
      /\ \A c \in FCBs : refs[c] # 0 => refcount'[c] = refcount[c]
  <2>1. CASE OpenFails(t)
    <3>0. fl # << >> /\ FCB_freelist' = Append(Tail(fl), Head(fl)) /\ refcount' = [refcount EXCEPT ![Head(fl)] = 1]
      BY <2>1, <1>3 DEF OpenFails
    <3>1. /\ Tail(fl) \in Seq(FCBs) /\ Head(fl) \in FCBs /\ IsInjective(Tail(fl))
          /\ Head(fl) \in ToSet(fl) /\ ToSet(Tail(fl)) = ToSet(fl) \ {Head(fl)}
      BY <1>4, <3>0, TailOnce
    <3> DEFINE s == Tail(fl)
               e == Head(fl)
    <3>2. s \in Seq(FCBs) /\ IsInjective(s) /\ e \in FCBs /\ e \notin ToSet(s)
      BY <3>1
    <3>3. ToSet(s) \cup {e} = ToSet(fl) /\ e \in ToSet(fl)
      BY <3>1
    <3> HIDE DEF s, e
    <3>4. Append(s, e) \in Seq(FCBs) /\ IsInjective(Append(s, e)) /\ ToSet(Append(s, e)) = ToSet(s) \cup {e}
      BY <3>2, AppendOnce
    <3>5. FCB_freelist' = Append(s, e) /\ refcount' = [refcount EXCEPT ![e] = 1]
      BY <3>0 DEF s, e
    <3>6. refcount' \in [FCBs -> Nat] /\ \A c \in FCBs : refs[c] # 0 => refcount'[c] = refcount[c]
      BY <1>4, <3>2, <3>3, <3>5
    <3> QED BY <3>3, <3>4, <3>5, <3>6
  <2>2. CASE PipeFails(t)
    <3>1. FCB_freelist' = Reverse(fl)
      BY <1>3, <2>2 DEF PipeFails, RolledBack
    <3>2. refcount' = [c \in FCBs |-> IF c \in ToSet(fl) THEN 0 ELSE refcount[c]]
      BY <1>3, <2>2 DEF PipeFails, Range, ToSet
    <3>3. refcount' \in [FCBs -> Nat] /\ \A c \in FCBs : refs[c] # 0 => refcount'[c] = refcount[c]
      BY <1>4, <3>2
    <3> QED BY <1>4, <3>1, <3>3, ReverseOnce
  <2> QED BY <2>1, <2>2
<1>6. PICK m : m.refcount = refcount' /\ m.freelist = FCB_freelist' /\ m.live = live'
  <2> WITNESS [refcount |-> refcount', freelist |-> FCB_freelist', live |-> live']
  <2> QED OBVIOUS
<1>7. Accounts(m, refs, streamobj)
  <2>1. m.live = FT.live /\ m.freelist \in Seq(FCBs) /\ IsInjective(m.freelist)
    BY <1>1, <1>4, <1>5, <1>6
  <2>2. ToSet(m.freelist) = ToSet(FT.freelist)
    BY <1>4, <1>5, <1>6
  <2>3. m.refcount \in [FCBs -> Nat] /\ \A c \in FCBs : refs[c] # 0 => m.refcount[c] = FT.refcount[c]
    BY <1>4, <1>5, <1>6
  <2> QED BY <1>4, <2>1, <2>2, <2>3, ReorderAccounts
<1>8. Accounts(FT, Refs(FIDT, io), streamobj)'
  <2>1. Refs(FIDT', io') = refs
    BY <1>1, <1>2
  <2> QED BY <1>1, <1>6, <1>7, <2>1, Accounted
<1>9. TypeOK'
  BY <1>1, <1>8, InvFacts DEF TypeOK, Accounts, FT, Tables, Rows, Pending
<1>10. IOKept'
  BY <1>1, InvFacts DEF IOKept
<1>11. EmptyTables'
  BY <1>1, InvFacts DEF EmptyTables
<1> QED BY <1>8, <1>9, <1>10, <1>11 DEF IInv

(* r has one reference for each of the first n free FCBs.                  *)
OneEach(n, refs, r) == \A c \in FCBs : r[c] = IF c \in First(n) THEN 1 ELSE refs[c]

SameButFor(p, fidt, before) == \A q \in Pids : q # p => fidt[q] = before[q]

(* What FCB_reserve does, for n streams, apart from the file ids.          *)
LEMMA Reserved ==
  ASSUME IInv, NEW t \in Tids, NEW p \in Pids, p = proc[t], proc' = proc, io' = io,
         NEW fids, NEW objs, FCB_reserve(p, fids, objs), NEW n \in Nat, n = Len(fids),
         objs \in [1 .. n -> Unused], IsInjective(objs),
         FIDT' \in Tables, SameButFor(p, FIDT', FIDT),
         OneEach(n, Refs(FIDT, io), Refs(FIDT', io'))
  PROVE  IInv'
<1>0. PICK r \in [FCBs -> Nat] :
        r = Refs(FIDT', io') /\ \A c \in FCBs : r[c] = IF c \in First(n) THEN 1 ELSE Refs(FIDT, io)[c]
  BY RefsAre DEF OneEach
<1>1. PICK fl \in Seq(FCBs) : fl = FCB_freelist
  BY InvFacts
<1> DEFINE taken == {fl[i] : i \in 1 .. n}
<1>2. PICK refs : refs = Refs(FIDT, io) /\ Accounts(FT, refs, streamobj)
  BY InvFacts
<1>3. /\ IsInjective(fl) /\ \A c \in FCBs : c \in ToSet(fl) <=> refs[c] = 0
      /\ streamobj \in [FCBs -> Objects \cup {NULL}]
  BY <1>1, <1>2 DEF Accounts, FT
<1>4. n <= Len(fl) /\ DOMAIN fl = 1 .. Len(fl) /\ Len(fl) \in Nat /\ \A i \in 1 .. n : fl[i] \in FCBs
  <2>1. DOMAIN fl = 1 .. Len(fl) /\ Len(fl) \in Nat /\ \A i \in 1 .. Len(fl) : fl[i] \in FCBs
    BY LenProperties
  <2>2. n <= Len(fl)
    BY <1>1, <2>1 DEF FCB_reserve
  <2> QED BY <2>1, <2>2
<1>5. /\ refcount' = [c \in FCBs |-> IF c \in taken THEN 1 ELSE refcount[c]]
      /\ streamobj' = [c \in FCBs |-> IF c \in taken THEN objs[CHOOSE i \in 1 .. n : fl[i] = c] ELSE streamobj[c]]
      /\ FCB_freelist' = SubSeq(fl, n + 1, Len(fl))
      /\ live' = live \cup Range(objs)
  BY <1>1 DEF FCB_reserve
<1>6. /\ objs \in [1 .. n -> Objects]
      /\ \A i \in 1 .. n : objs[i] \notin live
  BY DEF Unused
<1>7. \A i \in 1 .. n : fl[i] \in taken /\ (CHOOSE j \in 1 .. n : fl[j] = fl[i]) = i
  <2>1. ASSUME NEW i \in 1 .. n PROVE (CHOOSE j \in 1 .. n : fl[j] = fl[i]) = i
    <3>1. \A j \in 1 .. n : fl[j] = fl[i] => j = i
      <4>1. \A j \in 1 .. n : j \in DOMAIN fl
        BY <1>4
      <4> QED BY <1>3, <4>1 DEF IsInjective
    <3> QED BY <3>1
  <2> QED BY <2>1
<1>8. PICK so : so = streamobj'
  OBVIOUS
<1>9. /\ \A i \in 1 .. n : so[fl[i]] = objs[i]
      /\ \A c \in FCBs : c \notin taken => so[c] = streamobj[c]
  <2>1. ASSUME NEW i \in 1 .. n PROVE so[fl[i]] = objs[i]
    <3> HIDE DEF taken
    <3>1. so[fl[i]] = objs[CHOOSE j \in 1 .. n : fl[j] = fl[i]]
      BY <1>4, <1>5, <1>7, <1>8
    <3> QED BY <1>7, <3>1
  <2> QED BY <2>1, <1>5, <1>8
<1>10. so \in [FCBs -> Objects \cup {NULL}]
  <2>1. \A c \in FCBs : so[c] \in Objects \cup {NULL}
    <3>1. ASSUME NEW c \in FCBs PROVE so[c] \in Objects \cup {NULL}
      <4>1. CASE c \in taken
        <5>1. PICK i \in 1 .. n : c = fl[i]
          BY <4>1
        <5> QED BY <5>1, <1>6, <1>9
      <4>2. CASE c \notin taken
        BY <4>2, <1>3, <1>9
      <4> QED BY <4>1, <4>2
    <3> QED BY <3>1
  <2>2. so = [c \in FCBs |-> so[c]]
    BY <1>5, <1>8
  <2> QED BY <2>1, <2>2
<1>11. PICK m : m.refcount = refcount' /\ m.freelist = FCB_freelist' /\ m.live = live'
  <2> WITNESS [refcount |-> refcount', freelist |-> FCB_freelist', live |-> live']
  <2> QED OBVIOUS
<1>12. Accounts(m, r, so)
  <2>1. Reservation(n, objs, m, so)
    <3>1. taken = First(n)
      BY <1>1 DEF First
    <3>2. m.refcount = [c \in FCBs |-> IF c \in First(n) THEN 1 ELSE refcount[c]]
      BY <1>5, <1>11, <3>1
    <3>3. m.freelist = SubSeq(FCB_freelist, n + 1, Len(FCB_freelist)) /\ m.live = live \cup Range(objs)
      BY <1>1, <1>5, <1>11
    <3>4. /\ \A i \in 1 .. n : so[FCB_freelist[i]] = objs[i]
          /\ \A c \in FCBs : c \notin First(n) => so[c] = streamobj[c]
      BY <1>1, <1>9, <3>1
    <3>5. n <= Len(FCB_freelist)
      BY <1>1, <1>4
    <3> QED BY <1>6, <1>10, <3>2, <3>3, <3>4, <3>5 DEF Reservation
  <2>2. \A c \in FCBs : r[c] = IF c \in First(n) THEN 1 ELSE refs[c]
    BY <1>0, <1>2
  <2> QED BY <1>2, <2>1, <2>2, ReserveAccounts
<1>13. Accounts(FT, Refs(FIDT, io), streamobj)'
  BY <1>0, <1>8, <1>11, <1>12, Accounted
<1>14. TypeOK'
  BY <1>13, InvFacts DEF TypeOK, Accounts, FT, Tables, Rows, Pending
<1>15. IOKept'
  <2> SUFFICES ASSUME NEW u \in Tids, io[u] # NULL PROVE so[io[u].fcb] = io[u].obj
    BY <1>8 DEF IOKept
  <2>1. io[u].fcb \in FCBs /\ refs[io[u].fcb] # 0 /\ streamobj[io[u].fcb] = io[u].obj
    BY <1>2, InUse, InvFacts DEF IOKept
  <2>2. io[u].fcb \notin taken
    <3>1. io[u].fcb \notin ToSet(fl)
      BY <1>3, <2>1
    <3>2. \A i \in 1 .. n : fl[i] \in ToSet(fl)
      BY <1>4 DEF ToSet
    <3> QED BY <3>1, <3>2
  <2> QED BY <1>9, <2>1, <2>2
<1>16. EmptyTables'
  BY InvFacts DEF EmptyTables, SameButFor
<1> QED BY <1>13, <1>14, <1>15, <1>16 DEF IInv

(* OpenNull, OpenTerminal, OpenInfo, Socket and Accept.                    *)
LEMMA OpenStreamStep ==
  ASSUME IInv, NEW t \in Tids, OpenStream(t)
  PROVE  IInv'
<1>1. PICK p \in Pids : p = proc[t]
  BY InvFacts DEF OpenStream, Running
<1>2. PICK f \in Fids, o \in Unused : FCB_reserve(p, <<f>>, <<o>>)
  BY <1>1 DEF OpenStream
<1>3. proc' = proc /\ io' = io
  BY DEF OpenStream
<1>4. PICK fl \in Seq(FCBs) : fl = FCB_freelist
  BY InvFacts
<1>5. /\ FIDT[p][f] = NULL /\ Len(fl) >= 1
      /\ FIDT' = [FIDT EXCEPT ![p] = [g \in Fids |-> IF g \in Range(<<f>>)
                                        THEN fl[CHOOSE i \in 1 .. 1 : <<f>>[i] = g] ELSE FIDT[p][g]]]
  <2>1. Len(<<f>>) = 1 /\ <<f>>[1] = f
    OBVIOUS
  <2> DEFINE fids == <<f>>
  <2>2. FCB_reserve(p, fids, <<o>>) /\ Len(fids) = 1 /\ fids[1] = f
    BY <1>2, <2>1
  <2> HIDE DEF fids
  <2>3. /\ \A i \in 1 .. 1 : fids[i] \in FreeFids(p)
        /\ Len(fl) >= 1
        /\ FIDT' = [FIDT EXCEPT ![p] = [g \in Fids |-> IF g \in Range(fids)
                                        THEN fl[CHOOSE i \in 1 .. 1 : fids[i] = g] ELSE FIDT[p][g]]]
    BY <1>4, <2>2 DEF FCB_reserve
  <2> QED BY <2>2, <2>3 DEF fids, FreeFids
<1>6. PICK c \in FCBs : c = fl[1] /\ Refs(FIDT, io)[c] = 0
  <2>1. 1 \in DOMAIN fl /\ fl[1] \in FCBs
    BY <1>5, LenProperties
  <2>2. fl[1] \in ToSet(fl)
    BY <2>1 DEF ToSet
  <2> QED BY <1>4, <2>1, <2>2, InvFacts DEF Accounts, FT
<1>7. FIDT \in Tables /\ FIDT[p] \in Rows
  BY InvFacts
<1>8. FIDT' = Put(FIDT, p, f, c)
  <2>1. \A g \in Fids : (IF g \in Range(<<f>>) THEN fl[CHOOSE i \in 1 .. 1 : <<f>>[i] = g] ELSE FIDT[p][g])
                        = IF g = f THEN c ELSE FIDT[p][g]
    <3>1. \A g : g \in Range(<<f>>) <=> g = f
      BY DEF Range
    <3>2. (CHOOSE i \in 1 .. 1 : <<f>>[i] = f) = 1
      OBVIOUS
    <3> QED BY <1>6, <3>1, <3>2
  <2>2. FIDT' = [FIDT EXCEPT ![p] = [g \in Fids |-> IF g = f THEN c ELSE FIDT[p][g]]]
    BY <1>5, <2>1
  <2>3. [g \in Fids |-> IF g = f THEN c ELSE FIDT[p][g]] = [FIDT[p] EXCEPT ![f] = c]
    BY <1>7 DEF Rows
  <2> QED BY <2>2, <2>3 DEF Put
<1>9. PICK r \in [FCBs -> Nat] : r = Refs(FIDT', io')
  BY RefsAre
<1>10. \A d \in FCBs : r[d] = IF d \in First(1) THEN 1 ELSE Refs(FIDT, io)[d]
  <2>0. c # FIDT[p][f] /\ c \in FCBs \cup {NULL}
    BY <1>5, NullAssumption
  <2>4. PICK refs \in [FCBs -> Nat] : refs = Refs(FIDT, io)
    BY RefsAre
  <2>1. Refs(Put(FIDT, p, f, c), io) =
          [d \in FCBs |-> refs[d] + (IF d = c THEN 1 ELSE IF d = FIDT[p][f] THEN -1 ELSE 0)]
    BY <1>7, <2>0, <2>4, RefsAfterPut
  <2>2. \A d \in FCBs : d # FIDT[p][f]
    BY <1>5, NullAssumption
  <2>3. First(1) = {c}
    BY <1>4, <1>6 DEF First
  <2>5. r = [d \in FCBs |-> refs[d] + (IF d = c THEN 1 ELSE IF d = FIDT[p][f] THEN -1 ELSE 0)]
    BY <1>3, <1>8, <1>9, <2>1
  <2> QED BY <1>6, <2>2, <2>3, <2>4, <2>5
<1>11. FIDT' \in Tables /\ \A q \in Pids : q # p => FIDT'[q] = FIDT[q]
  BY <1>7, <1>8 DEF Put, Tables, Rows
<1>12. <<o>> \in [1 .. 1 -> Unused] /\ IsInjective(<<o>>)
  BY DEF IsInjective
<1>13. 1 \in Nat /\ 1 = Len(<<f>>)
  OBVIOUS
<1> DEFINE fids == <<f>>
           objs == <<o>>
<1>14. /\ FCB_reserve(p, fids, objs) /\ 1 = Len(fids)
       /\ objs \in [1 .. 1 -> Unused] /\ IsInjective(objs)
  BY <1>2, <1>12, <1>13
<1> HIDE DEF fids, objs
<1>15. OneEach(1, Refs(FIDT, io), Refs(FIDT', io')) /\ SameButFor(p, FIDT', FIDT)
  BY <1>9, <1>10, <1>11 DEF OneEach, SameButFor
<1> QED BY <1>1, <1>3, <1>11, <1>13, <1>14, <1>15, Reserved

(* Pipe: both ends at once.                                                *)
LEMMA PipeStep ==
  ASSUME IInv, NEW t \in Tids, sys_Pipe(t)
  PROVE  IInv'
<1>1. PICK p \in Pids : p = proc[t]
  BY InvFacts DEF sys_Pipe, Running
<1>2. PICK f \in Fids, g \in Fids, o1 \in Unused, o2 \in Unused :
        o1 # o2 /\ FCB_reserve(p, <<f, g>>, <<o1, o2>>)
  BY <1>1 DEF sys_Pipe
<1>3. proc' = proc /\ io' = io
  BY DEF sys_Pipe
<1>4. PICK fl \in Seq(FCBs) : fl = FCB_freelist
  BY InvFacts
<1>5. PICK fids \in [1 .. 2 -> Fids] : fids = <<f, g>> /\ Len(fids) = 2 /\ fids[1] = f /\ fids[2] = g
  <2>1. <<f, g>> \in [1 .. 2 -> Fids] /\ Len(<<f, g>>) = 2 /\ <<f, g>>[1] = f /\ <<f, g>>[2] = g
    OBVIOUS
  <2> QED BY <2>1
<1>6. PICK objs \in [1 .. 2 -> Unused] : objs = <<o1, o2>> /\ IsInjective(objs)
  <2>1. <<o1, o2>> \in [1 .. 2 -> Unused] /\ IsInjective(<<o1, o2>>)
    BY <1>2 DEF IsInjective
  <2> QED BY <2>1
<1>7. /\ FCB_reserve(p, fids, objs) /\ 2 \in Nat /\ 2 = Len(fids)
  BY <1>2, <1>5, <1>6
<1>8. /\ FIDT[p][f] = NULL /\ FIDT[p][g] = NULL /\ f < g /\ Len(fl) >= 2
      /\ FIDT' = [FIDT EXCEPT ![p] = [h \in Fids |-> IF h \in Range(fids)
                                        THEN fl[CHOOSE i \in 1 .. 2 : fids[i] = h] ELSE FIDT[p][h]]]
  <2>1. /\ \A i \in 1 .. 2 : fids[i] \in FreeFids(p)
        /\ \A i \in 1 .. 2 - 1 : fids[i] < fids[i + 1]
        /\ Len(fl) >= 2
        /\ FIDT' = [FIDT EXCEPT ![p] = [h \in Fids |-> IF h \in Range(fids)
                                        THEN fl[CHOOSE i \in 1 .. 2 : fids[i] = h] ELSE FIDT[p][h]]]
    <3>1. PICK n : n = Len(fids)
      OBVIOUS
    <3>2. /\ \A i \in 1 .. n : fids[i] \in FreeFids(p)
          /\ \A i \in 1 .. n - 1 : fids[i] < fids[i + 1]
          /\ Len(fl) >= n
          /\ FIDT' = [FIDT EXCEPT ![p] = [h \in Fids |-> IF h \in Range(fids)
                                          THEN fl[CHOOSE i \in 1 .. n : fids[i] = h] ELSE FIDT[p][h]]]
      BY <1>4, <1>7, <3>1 DEF FCB_reserve
    <3>3. n = 2
      BY <1>7, <3>1
    <3> QED BY <3>2, <3>3
  <2>2. f \in FreeFids(p) /\ g \in FreeFids(p) /\ f < g
    BY <1>5, <2>1
  <2> QED BY <2>1, <2>2 DEF FreeFids
<1>9. f # g
  BY <1>8 DEF Fids
<1>10. PICK c \in FCBs, d \in FCBs :
         c = fl[1] /\ d = fl[2] /\ c # d /\ Refs(FIDT, io)[c] = 0 /\ Refs(FIDT, io)[d] = 0
  <2>1. 1 \in DOMAIN fl /\ fl[1] \in FCBs /\ 2 \in DOMAIN fl /\ fl[2] \in FCBs
    BY <1>8, LenProperties
  <2>2. fl[1] \in ToSet(fl) /\ fl[2] \in ToSet(fl)
    BY <2>1 DEF ToSet
  <2>3. IsInjective(fl) /\ \A b \in FCBs : b \in ToSet(fl) <=> Refs(FIDT, io)[b] = 0
    BY <1>4, InvFacts DEF Accounts, FT
  <2>4. fl[1] # fl[2]
    BY <2>1, <2>3 DEF IsInjective
  <2> QED BY <2>1, <2>2, <2>3, <2>4
<1>11. FIDT \in Tables /\ FIDT[p] \in Rows
  BY InvFacts
<1>12. PICK mid \in Tables : mid = Put(FIDT, p, f, c) /\ mid[p][g] = NULL
  <2>1. Put(FIDT, p, f, c) \in Tables
    BY <1>11 DEF Put, Tables, Rows
  <2>2. Put(FIDT, p, f, c)[p][g] = FIDT[p][g]
    BY <1>9, <1>11 DEF Put, Tables, Rows
  <2> QED BY <1>8, <2>1, <2>2
<1>13. FIDT' = Put(mid, p, g, d)
  <2>1. \A h \in Fids : (IF h \in Range(fids) THEN fl[CHOOSE i \in 1 .. 2 : fids[i] = h] ELSE FIDT[p][h])
                        = IF h = f THEN c ELSE IF h = g THEN d ELSE FIDT[p][h]
    <3>1. \A h : h \in Range(fids) <=> h = f \/ h = g
      BY <1>5 DEF Range
    <3>2. (CHOOSE i \in 1 .. 2 : fids[i] = f) = 1
      BY <1>5, <1>9
    <3>3. (CHOOSE i \in 1 .. 2 : fids[i] = g) = 2
      BY <1>5, <1>9
    <3>4. ASSUME NEW h \in Fids
          PROVE  (IF h \in Range(fids) THEN fl[CHOOSE i \in 1 .. 2 : fids[i] = h] ELSE FIDT[p][h])
                   = IF h = f THEN c ELSE IF h = g THEN d ELSE FIDT[p][h]
      <4>1. CASE h = f
        <5>1. h \in Range(fids) /\ fl[CHOOSE i \in 1 .. 2 : fids[i] = h] = c
          BY <4>1, <1>10, <3>1, <3>2
        <5> QED BY <4>1, <5>1
      <4>2. CASE h = g
        <5>1. h \in Range(fids) /\ h # f /\ fl[CHOOSE i \in 1 .. 2 : fids[i] = h] = d
          BY <4>2, <1>9, <1>10, <3>1, <3>3
        <5> QED BY <4>2, <5>1
      <4>3. CASE h # f /\ h # g
        <5>1. h \notin Range(fids)
          BY <4>3, <3>1
        <5> QED BY <4>3, <5>1
      <4> QED BY <4>1, <4>2, <4>3
    <3> QED BY <3>4
  <2>2. FIDT' = [FIDT EXCEPT ![p] = [h \in Fids |-> IF h = f THEN c ELSE IF h = g THEN d ELSE FIDT[p][h]]]
    BY <1>8, <2>1
  <2>3. [h \in Fids |-> IF h = f THEN c ELSE IF h = g THEN d ELSE FIDT[p][h]] =
           [[FIDT[p] EXCEPT ![f] = c] EXCEPT ![g] = d]
    BY <1>9, <1>11 DEF Rows
  <2>4. mid = [FIDT EXCEPT ![p] = [FIDT[p] EXCEPT ![f] = c]]
    BY <1>12 DEF Put
  <2>5. Put(mid, p, g, d) = [FIDT EXCEPT ![p] = [[FIDT[p] EXCEPT ![f] = c] EXCEPT ![g] = d]]
    BY <1>11, <2>4 DEF Put, Tables
  <2> QED BY <2>2, <2>3, <2>5
<1>14. PICK r \in [FCBs -> Nat] : r = Refs(FIDT', io')
  BY RefsAre
<1>15. \A b \in FCBs : r[b] = IF b \in First(2) THEN 1 ELSE Refs(FIDT, io)[b]
  <2>0. /\ c # FIDT[p][f] /\ c \in FCBs \cup {NULL} /\ d # mid[p][g] /\ d \in FCBs \cup {NULL}
        /\ \A b \in FCBs : b # FIDT[p][f] /\ b # mid[p][g]
    BY <1>8, <1>12, NullAssumption
  <2>1. PICK refs \in [FCBs -> Nat] : refs = Refs(FIDT, io)
    BY RefsAre
  <2>2. PICK rm \in [FCBs -> Nat] : rm = Refs(mid, io)
    BY RefsAre
  <2>3. rm = [b \in FCBs |-> refs[b] + (IF b = c THEN 1 ELSE IF b = FIDT[p][f] THEN -1 ELSE 0)]
    BY <1>11, <1>12, <2>0, <2>1, <2>2, RefsAfterPut
  <2>4. Refs(FIDT', io) =
          [b \in FCBs |-> rm[b] + (IF b = d THEN 1 ELSE IF b = mid[p][g] THEN -1 ELSE 0)]
    BY <1>13, <2>0, <2>2, RefsAfterPut
  <2>5. r = [b \in FCBs |-> rm[b] + (IF b = d THEN 1 ELSE IF b = mid[p][g] THEN -1 ELSE 0)]
    BY <1>3, <1>14, <2>4
  <2>6. First(2) = {c, d}
    <3>1. First(2) = {fl[i] : i \in {1, 2}}
      BY <1>4 DEF First
    <3> QED BY <1>10, <3>1
  <2>7. \A b \in FCBs : rm[b] = IF b = c THEN refs[b] + 1 ELSE refs[b]
    BY <2>0, <2>1, <2>3
  <2>8. \A b \in FCBs : r[b] = IF b = d THEN rm[b] + 1 ELSE rm[b]
    BY <2>0, <2>2, <2>5
  <2> QED BY <1>10, <2>1, <2>6, <2>7, <2>8
<1>16. FIDT' \in Tables /\ \A q \in Pids : q # p => FIDT'[q] = FIDT[q]
  BY <1>11, <1>12, <1>13 DEF Put, Tables, Rows
<1>17. OneEach(2, Refs(FIDT, io), Refs(FIDT', io')) /\ SameButFor(p, FIDT', FIDT)
  BY <1>14, <1>15, <1>16 DEF OneEach, SameButFor
<1> QED BY <1>1, <1>3, <1>6, <1>7, <1>16, <1>17, Reserved

-----------------------------------------------------------------------------
(* The theorems.                                                           *)

(* At boot every FCB is free and every file id closed.                     *)
LEMMA InvInit ==
  ASSUME Init
  PROVE  IInv
<1>1. TypeOK
  <2>1. FCB_freelist \in Seq(FCBs)
    <3>1. MAX_FILES \in Nat /\ FCB_freelist \in [1 .. MAX_FILES -> FCBs]
      BY StreamsAssumption DEF Init, FCBs
    <3> QED BY <3>1
  <2>2. FIDT \in [Pids -> [Fids -> FCBs \cup {NULL}]]
    BY DEF Init, Closed
  <2>3. proc \in [Tids -> Pids \cup {NULL}]
    BY StreamsAssumption DEF Init
  <2> QED BY <2>1, <2>2, <2>3 DEF Init, TypeOK
<1>2. \A c \in FCBs : Refs(FIDT, io)[c] = 0
  <2>1. ASSUME NEW c \in FCBs PROVE Places(FIDT, c) = {} /\ Uses(io, c) = {}
    <3>1. \A p \in Pids, f \in Fids : FIDT[p][f] # c
      BY NullAssumption DEF Init, Closed
    <3>2. \A t \in Tids : io[t] = NULL
      BY DEF Init
    <3> QED BY <3>1, <3>2 DEF Places, Uses
  <2> QED BY <2>1, FS_EmptySet DEF Refs
<1>3. Accounts(FT, Refs(FIDT, io), streamobj)
  <2>1. PICK refs \in [FCBs -> Nat] : refs = Refs(FIDT, io)
    BY RefsAre
  <2>2. \A c \in FCBs : refs[c] = 0
    BY <1>2, <2>1
  <2>3. DOMAIN FCB_freelist = FCBs /\ \A c \in FCBs : FCB_freelist[c] = c
    BY DEF Init
  <2>4. IsInjective(FCB_freelist) /\ ToSet(FCB_freelist) = FCBs
    BY <2>3 DEF IsInjective, ToSet
  <2>5. live = {streamobj[c] : c \in {d \in FCBs : refs[d] # 0}}
    BY <2>2 DEF Init
  <2>6. Accounts(FT, refs, streamobj)
    BY <1>1, <2>2, <2>4, <2>5 DEF Accounts, FT, TypeOK
  <2> QED BY <2>1, <2>6
<1>4. IOKept
  BY DEF Init, IOKept
<1>5. EmptyTables
  BY DEF Init, EmptyTables
<1> QED BY <1>1, <1>3, <1>4, <1>5 DEF IInv

(* Every step keeps the invariant.                                         *)
LEMMA InvStep ==
  ASSUME IInv, [Next]_vars
  PROVE  IInv'
<1>1. CASE UNCHANGED vars
  <2>1. /\ FIDT' = FIDT /\ refcount' = refcount /\ FCB_freelist' = FCB_freelist /\ live' = live
        /\ streamobj' = streamobj /\ io' = io /\ proc' = proc
    BY <1>1 DEF vars
  <2>2. Accounts(FT, Refs(FIDT, io), streamobj)'
    BY <2>1, InvFacts DEF FT
  <2>3. TypeOK'
    BY <2>1 DEF IInv, TypeOK
  <2>4. IOKept' /\ EmptyTables'
    BY <2>1, InvFacts DEF IOKept, EmptyTables
  <2> QED BY <2>2, <2>3, <2>4 DEF IInv
<1>2. ASSUME NEW t \in Tids,
             \/ OpenStream(t) \/ sys_Pipe(t) \/ PipeFails(t) \/ OpenFails(t)
             \/ \E f \in Fids : sys_Close(t, f) \/ BeginIO(t, f)
             \/ \E f, g \in Fids : sys_Dup2(t, f, g)
             \/ EndIO(t)
             \/ \E u \in Tids : CreateThread(t, u)
             \/ \E u \in Tids, p \in Pids : Exec(t, p, u)
             \/ ThreadExit(t)
      PROVE  IInv'
  BY <1>2, OpenStreamStep, PipeStep, FailStep, CloseStep, BeginIOStep, Dup2Step, EndIOStep,
     CreateThreadStep, ExecStep, ThreadExitStep
<1> QED BY <1>1, <1>2 DEF Next

(* The invariant implies what the run checks.                              *)
LEMMA InvImplies ==
  ASSUME IInv
  PROVE  StreamInvariant
<1>1. PICK refs \in [FCBs -> Nat] : refs = Refs(FIDT, io) /\ \A c \in FCBs : refs[c] = References(c)
  <2>1. \A c \in FCBs : Refs(FIDT, io)[c] = References(c)
    BY DEF Refs, References, Places, Uses
  <2> QED BY <2>1, RefsAre
<1>2. Accounts(FT, refs, streamobj)
  BY <1>1, InvFacts
<1>3. Free = ToSet(FCB_freelist)
  BY DEF Free, Range, ToSet
<1>4. \A c \in FCBs : c \in Free <=> refs[c] = 0
  BY <1>2, <1>3 DEF Accounts, FT
<1>5. FCBsAccounted
  <2>1. \A c \in FCBs : refs[c] # 0 => refcount[c] = refs[c]
    BY <1>2 DEF Accounts, FT
  <2>2. IsInjective(FCB_freelist)
    BY <1>2 DEF Accounts, FT
  <2> QED BY <1>1, <1>4, <2>1, <2>2 DEF FCBsAccounted, RefcountExact, FreeListExact
<1> DEFINE used == FCBs \ Free
<1>6. live = {streamobj[c] : c \in used}
  <2>1. used = {d \in FCBs : refs[d] # 0}
    BY <1>4
  <2>2. live = {streamobj[c] : c \in {d \in FCBs : refs[d] # 0}}
    BY <1>2 DEF Accounts, FT
  <2> QED BY <2>1, <2>2
<1>7. Cardinality(live) = MAX_FILES - Len(FCB_freelist)
  <2>1. FCB_freelist \in Seq(FCBs) /\ IsInjective(FCB_freelist)
    BY <1>2 DEF Accounts, FT
  <2>2. IsFiniteSet(Free) /\ Cardinality(Free) = Len(FCB_freelist)
    BY <1>3, <2>1, LengthCounts
  <2>3. FCBs \cap Free = Free
    BY <2>1, <1>3, LenProperties DEF ToSet
  <2>4. IsFiniteSet(used) /\ Cardinality(used) = MAX_FILES - Len(FCB_freelist)
    <3>1. IsFiniteSet(FCBs) /\ Cardinality(FCBs) = MAX_FILES
      BY FinitePlaces
    <3>2. IsFiniteSet(FCBs \ Free) /\ Cardinality(FCBs \ Free) = Cardinality(FCBs) - Cardinality(FCBs \cap Free)
      BY <3>1, FS_Difference
    <3> QED BY <2>2, <2>3, <3>1, <3>2
  <2>5. [c \in used |-> streamobj[c]] \in Bijection(used, live)
    <3>1. \A c, d \in used : streamobj[c] = streamobj[d] => c = d
      BY <1>2, <1>4 DEF Accounts
    <3> DEFINE bij == [c \in used |-> streamobj[c]]
    <3>2. bij \in [used -> live] /\ DOMAIN bij = used /\ \A c \in used : bij[c] = streamobj[c]
      BY <1>6
    <3>3. \A o \in live : \E c \in used : bij[c] = o
      BY <1>6
    <3> HIDE DEF bij, used
    <3>4. IsInjective(bij)
      BY <3>1, <3>2 DEF IsInjective
    <3>5. bij \in Bijection(used, live)
      BY <3>2, <3>3, <3>4 DEF Bijection, Injection, Surjection
    <3> QED BY <3>5 DEF bij
  <2>6. ExistsBijection(used, live)
    BY <2>5 DEF ExistsBijection
  <2> HIDE DEF used
  <2> QED BY <2>4, <2>6, FS_Bijection
<1>8. IOOnLiveStream
  <2>1. ASSUME NEW t \in Tids, io[t] # NULL
        PROVE  io[t].obj \in live /\ streamobj[io[t].fcb] = io[t].obj
    <3>1. io[t].fcb \in FCBs /\ refs[io[t].fcb] # 0 /\ streamobj[io[t].fcb] = io[t].obj
      BY <1>1, <2>1, InUse, InvFacts DEF IOKept
    <3> QED BY <1>4, <1>6, <3>1
  <2> QED BY <2>1 DEF IOOnLiveStream
<1> QED BY <1>5, <1>6, <1>7, <1>8 DEF IInv, StreamInvariant, LiveExactlyInUse

(* Whatever Close, Dup2, Exec, exit and failing opens do while Reads and   *)
(* Writes sleep, with any number of processes, threads and FCBs: every FCB *)
(* is counted or free, a stream object lives exactly as long as something  *)
(* refers to it, and no device function works on a closed one.             *)
THEOREM StreamsSafe == Spec => []StreamInvariant
<1>1. Init => IInv
  BY InvInit
<1>2. IInv /\ [Next]_vars => IInv'
  BY InvStep
<1>3. IInv => StreamInvariant
  BY InvImplies
<1> QED BY <1>1, <1>2, <1>3, PTL DEF Spec

=============================================================================
