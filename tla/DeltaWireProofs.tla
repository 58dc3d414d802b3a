-------------------------- MODULE DeltaWireProofs --------------------------
(***************************************************************************)
(* Proofs about the loops of apply_delta on wire vectors of any length, in *)
(* any order and with any repetition, and about the tree they edit, of any *)
(* depth and shape.                                                        *)
(*                                                                         *)
(* The loops decide and compute what the set form of OrgMembers does, and  *)
(* an accepted trie is one that genesis builds.  The tree then holds the   *)
(* members, its hash tells them, and diff_tries finds what changed.        *)
(*                                                                         *)
(* What holds after k entries of a loop, or k levels above the leaves, is  *)
(* proved with the least-number principle (LeastNumber, Induction); that   *)
(* the recursive functions of the model do what their equations say is     *)
(* proved once for all of them (LoopExists).                               *)
(***************************************************************************)
EXTENDS DeltaTree, OrgMembersProofs, WellFoundedInduction, SequenceTheorems

\* Every nonempty set of natural numbers has a least element.
LEMMA LeastNumber ==
  ASSUME NEW T \in SUBSET Nat, T # {}
  PROVE  \E n \in T : \A m \in T : n <= m
<1>. DEFINE R == OpToRel(<, Nat)
<1>1. IsWellFoundedOn(R, Nat)
  BY NatLessThanWellFounded
<1>2. PICK x \in T : \A y \in T : ~(<<y, x>> \in R)
  <2>. HIDE DEF R
  <2>. QED  BY <1>1, WFMin
<1>3. \A y \in T : ~(y < x)
  BY <1>2 DEF OpToRel
<1>. QED  BY <1>3

\* Induction over the numbers up to n, for a set of numbers.
LEMMA Induction ==
  ASSUME NEW n \in Nat, NEW T, 0 \in T, \A k \in 0 .. n - 1 : k \in T => k + 1 \in T
  PROVE  \A k \in 0 .. n : k \in T
<1>. DEFINE U == {k \in 0 .. n : k \notin T}
<1>. SUFFICES ASSUME U # {}  PROVE FALSE
  OBVIOUS
<1>1. PICK k \in U : \A m \in U : k <= m
  <2>1. U \in SUBSET Nat
    OBVIOUS
  <2>. HIDE DEF U
  <2>. QED  BY <2>1, LeastNumber
<1>2. k \in 0 .. n /\ k \notin T /\ k # 0
  BY <1>1
<1>3. k - 1 \in 0 .. n - 1 /\ k - 1 \in 0 .. n /\ ~(k <= k - 1) /\ (k - 1) + 1 = k
  BY <1>2
<1>4. k - 1 \notin U
  <2>. HIDE DEF U
  <2>. QED  BY <1>1, <1>3
<1>. QED  BY <1>2, <1>3, <1>4

-----------------------------------------------------------------------------
(* The vectors of a delta.                                                 *)

Wire == [base_root : Roots, removed : Seq(MemberIds), upserted : Seq(Upsert)]

\* The comparison of neighbours in validate_canonical_delta orders all entries.
LEMMA Rising ==
  ASSUME NEW s \in Seq(Nat), StrictlyIncreasing(s)
  PROVE  \A m, n \in 1 .. Len(s) : m < n => s[m] < s[n]
<1>. DEFINE T == {n \in 1 .. Len(s) : \E m \in 1 .. n - 1 : ~(s[m] < s[n])}
<1>1. Len(s) \in Nat /\ \A n \in 1 .. Len(s) : s[n] \in Nat
  BY LenProperties
<1>2. CASE T = {}
  BY <1>1, <1>2
<1>3. CASE T # {}
  <2>1. T \in SUBSET Nat
    BY <1>1
  <2>2. PICK n \in T : \A k \in T : n <= k
    <3>. HIDE DEF T
    <3>. QED  BY <1>3, <2>1, LeastNumber
  <2>3. PICK m \in 1 .. n - 1 : ~(s[m] < s[n])
    BY <2>2
  <2>4. /\ n \in 2 .. Len(s) /\ n - 1 \in 1 .. Len(s) /\ n - 1 \in 1 .. Len(s) - 1
        /\ (n - 1) + 1 = n /\ m \in 1 .. Len(s)
    BY <1>1, <2>2, <2>3
  <2>5. s[n - 1] < s[n]
    BY <2>4 DEF StrictlyIncreasing
  <2>6. m # n - 1
    BY <2>3, <2>5
  <2>7. n - 1 \notin T
    <3>. HIDE DEF T
    <3>1. n \in Nat /\ ~(n <= n - 1)
      BY <1>1, <2>4
    <3>. QED  BY <2>2, <3>1
  <2>8. s[m] < s[n - 1]
    BY <2>3, <2>4, <2>6, <2>7
  <2>9. s[m] \in Nat /\ s[n - 1] \in Nat /\ s[n] \in Nat
    BY <1>1, <2>4
  <2>10. FALSE
    <3>. HIDE DEF T
    <3>. QED  BY <2>3, <2>5, <2>8, <2>9
  <2>. QED  BY <2>10
<1>. QED  BY <1>2, <1>3

\* A wire delta, entry by entry.
LEMMA WireFields ==
  ASSUME NEW w \in Wire
  PROVE  /\ w.base_root \in Roots
         /\ Len(w.removed) \in Nat /\ DOMAIN w.removed = 1 .. Len(w.removed)
         /\ \A n \in 1 .. Len(w.removed) : w.removed[n] \in MemberIds /\ w.removed[n] \in Nat
         /\ Len(w.upserted) \in Nat /\ DOMAIN w.upserted = 1 .. Len(w.upserted)
         /\ \A n \in 1 .. Len(w.upserted) :
              /\ w.upserted[n] \in Upsert
              /\ w.upserted[n].id \in MemberIds /\ w.upserted[n].id \in Nat
              /\ w.upserted[n].leaf \in MemberLeaf
         /\ w.removed \in Seq(Nat)
         /\ Ids(w.upserted) \in Seq(Nat) /\ Len(Ids(w.upserted)) = Len(w.upserted)
         /\ \A n \in 1 .. Len(w.upserted) : Ids(w.upserted)[n] = w.upserted[n].id
<1>1. w.base_root \in Roots /\ w.removed \in Seq(MemberIds) /\ w.upserted \in Seq(Upsert)
  BY DEF Wire
<1>2. /\ Len(w.removed) \in Nat /\ DOMAIN w.removed = 1 .. Len(w.removed)
      /\ w.removed \in [1 .. Len(w.removed) -> MemberIds]
  BY <1>1, LenProperties
<1>3. /\ Len(w.upserted) \in Nat /\ DOMAIN w.upserted = 1 .. Len(w.upserted)
      /\ w.upserted \in [1 .. Len(w.upserted) -> Upsert]
  BY <1>1, LenProperties
<1>4. \A u \in Upsert : u.id \in MemberIds /\ u.leaf \in MemberLeaf
  BY DEF Upsert
<1>5. MemberIds \subseteq Nat
  BY MemberIdsAssumption
<1>6. w.removed \in Seq(Nat)
  <2>1. PICK n, r : n = Len(w.removed) /\ r = w.removed
    BY Zenon
  <2>2. n \in Nat /\ r \in [1 .. n -> Nat]
    BY <1>2, <1>5, <2>1
  <2>. QED  BY <2>1, <2>2
<1>. DEFINE N == Len(w.upserted)
            ids == Ids(w.upserted)
<1>7. ids = [n \in 1 .. N |-> w.upserted[n].id]
  BY <1>3 DEF Ids
<1>8. ids \in [1 .. N -> Nat]
  BY <1>3, <1>4, <1>5, <1>7
<1>9. ids \in Seq(Nat) /\ Len(ids) = N
  <2>. HIDE DEF ids, N
  <2>1. N \in Nat
    BY <1>3 DEF N
  <2>. QED  BY <1>8, <2>1
<1>. HIDE DEF ids
<1>. QED  BY <1>1, <1>2, <1>3, <1>4, <1>5, <1>6, <1>7, <1>9 DEF ids

\* Both vectors are strictly increasing by id.
Ordered(w) == StrictlyIncreasing(w.removed) /\ StrictlyIncreasing(Ids(w.upserted))

\* In an ordered delta no id is repeated.
LEMMA OrderedRises ==
  ASSUME NEW w \in Wire, Ordered(w)
  PROVE  /\ \A m, n \in 1 .. Len(w.removed) : m < n => w.removed[m] < w.removed[n]
         /\ \A m, n \in 1 .. Len(w.removed) : w.removed[m] = w.removed[n] => m = n
         /\ \A m, n \in 1 .. Len(w.upserted) : m < n => w.upserted[m].id < w.upserted[n].id
         /\ \A m, n \in 1 .. Len(w.upserted) : w.upserted[m].id = w.upserted[n].id => m = n
<1>1. \A m, n \in 1 .. Len(w.removed) : m < n => w.removed[m] < w.removed[n]
  BY WireFields, Rising DEF Ordered
<1>2. \A m, n \in 1 .. Len(w.upserted) : m < n => w.upserted[m].id < w.upserted[n].id
  <2>. DEFINE ids == Ids(w.upserted)
  <2>1. ids \in Seq(Nat) /\ StrictlyIncreasing(ids) /\ Len(ids) = Len(w.upserted)
    BY WireFields DEF Ordered
  <2>2. \A n \in 1 .. Len(w.upserted) : ids[n] = w.upserted[n].id
    BY WireFields
  <2>. HIDE DEF ids
  <2>3. \A m, n \in 1 .. Len(w.upserted) : m < n => ids[m] < ids[n]
    BY <2>1, Rising
  <2>. QED  BY <2>2, <2>3
<1>3. /\ Len(w.removed) \in Nat /\ Len(w.upserted) \in Nat
      /\ \A n \in 1 .. Len(w.removed) : w.removed[n] \in Nat
      /\ \A n \in 1 .. Len(w.upserted) : w.upserted[n].id \in Nat
  BY WireFields
<1>4. ASSUME NEW m \in 1 .. Len(w.removed), NEW n \in 1 .. Len(w.removed),
             w.removed[m] = w.removed[n]
      PROVE  m = n
  <2>1. ~(m < n) /\ ~(n < m)
    BY <1>1, <1>3, <1>4
  <2>. QED  BY <1>3, <2>1
<1>5. ASSUME NEW m \in 1 .. Len(w.upserted), NEW n \in 1 .. Len(w.upserted),
             w.upserted[m].id = w.upserted[n].id
      PROVE  m = n
  <2>1. ~(m < n) /\ ~(n < m)
    BY <1>2, <1>3, <1>5
  <2>. QED  BY <1>3, <2>1
<1>. QED  BY <1>1, <1>2, <1>4, <1>5

\* The set form of an ordered delta.
LEMMA SetFormIs ==
  ASSUME NEW w \in Wire, Ordered(w)
  PROVE  LET d == SetForm(w) IN
         /\ d \in Delta
         /\ d.base_root = w.base_root
         /\ d.removed = {w.removed[n] : n \in 1 .. Len(w.removed)}
         /\ DOMAIN d.upserted = {w.upserted[n].id : n \in 1 .. Len(w.upserted)}
         /\ \A n \in 1 .. Len(w.upserted) : d.upserted[w.upserted[n].id] = w.upserted[n].leaf
<1>. DEFINE N == Len(w.upserted)
            ups == SetForm(w).upserted
            D == {w.upserted[n].id : n \in 1 .. N}
<1>0. /\ DOMAIN w.removed = 1 .. Len(w.removed) /\ DOMAIN w.upserted = 1 .. N
      /\ \A n \in 1 .. Len(w.removed) : w.removed[n] \in MemberIds
      /\ \A n \in 1 .. N : w.upserted[n].id \in MemberIds /\ w.upserted[n].leaf \in MemberLeaf
  BY WireFields
<1>1. /\ SetForm(w).base_root = w.base_root
      /\ SetForm(w).removed = {w.removed[n] : n \in 1 .. Len(w.removed)}
  BY <1>0 DEF SetForm, Range
<1>2. Range(Ids(w.upserted)) = D
  BY <1>0 DEF Range, Ids
<1>3. ups = [i \in D |-> (CHOOSE u \in Range(w.upserted) : u.id = i).leaf]
  BY <1>2 DEF SetForm
<1>4. ASSUME NEW n \in 1 .. N
      PROVE  ups[w.upserted[n].id] = w.upserted[n].leaf
  <2>. DEFINE i == w.upserted[n].id
              v == CHOOSE u \in Range(w.upserted) : u.id = i
  <2>1. w.upserted[n] \in Range(w.upserted) /\ w.upserted[n].id = i
    BY <1>0 DEF Range
  <2>2. v \in Range(w.upserted) /\ v.id = i
    BY <2>1
  <2>3. PICK m \in 1 .. N : v = w.upserted[m]
    BY <2>2, <1>0 DEF Range
  <2>4. m = n
    <3>. HIDE DEF v
    <3>1. w.upserted[m].id = w.upserted[n].id
      BY <2>2, <2>3
    <3>. QED  BY <3>1, OrderedRises
  <2>5. i \in D
    OBVIOUS
  <2>6. ups[i] = v.leaf
    BY <1>3, <2>5
  <2>. QED  BY <2>3, <2>4, <2>6
<1>5. DOMAIN ups = D
  BY <1>3
<1>. HIDE DEF ups
<1>6. ups \in Roots
  <2>1. D \subseteq MemberIds
    BY <1>0
  <2>2. \A i \in D : ups[i] \in MemberLeaf
    BY <1>0, <1>4
  <2>3. ups \in [D -> MemberLeaf]
    <3>1. ups = [i \in D |-> ups[i]]
      BY <1>3
    <3>. QED  BY <2>2, <3>1
  <2>4. DOMAIN ups \subseteq MemberIds /\ ups \in [DOMAIN ups -> MemberLeaf]
    BY <1>5, <2>1, <2>3
  <2>. QED  BY <2>4, PartialFunction DEF Roots
<1>7. SetForm(w) \in Delta
  <2>1. /\ SetForm(w) = [base_root |-> SetForm(w).base_root,
                         removed   |-> SetForm(w).removed,
                         upserted  |-> ups]
    BY DEF SetForm, ups
  <2>2. w.base_root \in Roots /\ SetForm(w).removed \subseteq MemberIds
    BY <1>0, <1>1, WireFields
  <2>. QED  BY <1>1, <1>6, <2>1, <2>2 DEF Delta
<1>. QED  BY <1>1, <1>4, <1>5, <1>7 DEF ups

-----------------------------------------------------------------------------
(* The trees that hold given members.                                      *)

\* An internal node with the cached hash hash, and a leaf with its hash.
Inner(hash, left, right) ==
  [kind |-> "Internal", hash |-> hash, left |-> left, right |-> right]

LeafHash(id, leaf) == HashMemberLeaf(CanonicalBytes(id, leaf))

HashedLeaf(id, leaf) ==
  [kind |-> "Leaf", hash |-> {LeafHash(id, leaf)}, id |-> id, leaf |-> leaf]

\* No member has the position p at level k, the leaves being at level 0.
Vacant(root, k, p) == \A i \in DOMAIN root : Prefix(i)[k] # p

\* The subtrees that may stand at a position when the members are root: the
\* hash they all have, those with every hash cached, and those that an insert
\* or a removal has left without some.
LeafForm(root, p) ==
  IF p \in DOMAIN root
  THEN [hash   |-> LeafHash(p, root[p]),
        hashed |-> {HashedLeaf(p, root[p])},
        any    |-> {HashedLeaf(p, root[p]), Leaf(p, root[p])}]
  ELSE [hash |-> DefaultHash[0], hashed |-> {Empty(0)}, any |-> {Empty(0)}]

Inners(hash, L, R) == {Inner(hash, pair[1], pair[2]) : pair \in L \X R}

Spare(root, k, p) == IF Vacant(root, k, p) THEN {Empty(k)} ELSE {}

NodeForm(root, k, p, l, r) ==
  LET hash == HashMemberNode(l.hash, r.hash)
      hashed == Inners({hash}, l.hashed, r.hashed) \cup Spare(root, k, p)
  IN [hash |-> hash, hashed |-> hashed, any |-> hashed \cup Inners({}, l.any, r.any)]

Forms(root) ==
  LET at[k \in 0 .. SmtDepth] ==
        IF k = 0 THEN [p \in Nat |-> LeafForm(root, p)]
        ELSE [p \in Nat |-> NodeForm(root, k, p, at[k - 1][2 * p], at[k - 1][2 * p + 1])]
  IN at

-----------------------------------------------------------------------------
(* The recursive functions of the model.                                   *)

\* The local variables of apply_delta before its first loop.
Start(t) ==
  [root |-> t.root, count |-> t.member_count, verdict |-> "Ok",
   skeleton_index |-> t.skeleton_index, handle_index |-> t.handle_index]

\* Every recursive function of the model steps from k - 1 to k.  A loop names
\* one of them and its parameters; LoopBase is its first value, LoopStep its step.
LoopBase(loop) ==
  CASE loop[1] = "Removals" -> Start(loop[2])
    [] loop[1] = "Upserts" -> loop[2]
    [] loop[1] = "Prefix" -> loop[2]
    [] loop[1] = "IdsOfBits" -> {0}
    [] loop[1] = "DefaultHash" -> HashMemberLeaf(Sentinel)
    [] loop[1] = "InsertPath" -> loop[2]
    [] loop[1] = "Inserted" -> loop[4]
    [] loop[1] = "Reached" -> {loop[2]}
    [] loop[1] = "NodesAt" -> {loop[2]}
    [] loop[1] = "Recalculated" -> [node \in NodesAt(loop[2])[SmtDepth] |-> HashLeaf(node)]
    [] loop[1] = "Collected" -> [node \in NodesAt(loop[2])[SmtDepth] |-> CollectLeaf(node)]
    [] loop[1] = "Diffs" -> [pair \in NodesAt(loop[2])[SmtDepth] \X NodesAt(loop[3])[SmtDepth] |->
                DiffLeaf(pair[1], pair[2])]
    [] loop[1] = "InsertAll" -> loop[2]
    [] loop[1] = "RemoveAll" -> loop[2]
    [] loop[1] = "Forms" -> [p \in Nat |-> LeafForm(loop[2], p)]

LoopStep(loop, k, prev) ==
  CASE loop[1] = "Removals" ->
           RemoveEntry(prev, loop[3].removed[k])
    [] loop[1] = "Upserts" ->
           UpsertEntry(prev, loop[3].upserted[k])
    [] loop[1] = "Prefix" ->
           prev \div 2
    [] loop[1] = "IdsOfBits" ->
           UNION {{2 * i, 2 * i + 1} : i \in prev}
    [] loop[1] = "DefaultHash" ->
           HashMemberNode(prev, prev)
    [] loop[1] = "InsertPath" ->
           ChildOn(loop[3], k - 1, InsertStep(prev, k - 1))
    [] loop[1] = "Inserted" ->
           ParentOn(loop[3], SmtDepth - k, InsertStep(InsertPath(loop[2], loop[3])[SmtDepth - k], SmtDepth - k), prev)
    [] loop[1] = "Reached" ->
           {ChildOn(loop[3], k - 1, node) : node \in {n \in prev : n.kind = "Internal"}}
    [] loop[1] = "NodesAt" ->
           UNION {{Left(node), Right(node)} : node \in prev}
    [] loop[1] = "Recalculated" ->
           [node \in NodesAt(loop[2])[SmtDepth - k] |-> HashNode(node, prev)]
    [] loop[1] = "Collected" ->
           [node \in NodesAt(loop[2])[SmtDepth - k] |-> CollectNode(node, prev)]
    [] loop[1] = "Diffs" ->
           [pair \in NodesAt(loop[2])[SmtDepth - k] \X NodesAt(loop[3])[SmtDepth - k] |-> DiffNode(pair[1], pair[2], prev)]
    [] loop[1] = "InsertAll" ->
           SmtInsert(prev, loop[3][k].id, loop[3][k].leaf)
    [] loop[1] = "RemoveAll" ->
           SmtRemove(prev, loop[3][k])
    [] loop[1] = "Forms" ->
           [p \in Nat |-> NodeForm(loop[2], k, p, prev[2 * p], prev[2 * p + 1])]

IsLoop(f, loop, n) ==
  f = [k \in 0 .. n |-> IF k = 0 THEN LoopBase(loop) ELSE LoopStep(loop, k, f[k - 1])]

Extend(f, n, v) == [k \in 0 .. n + 1 |-> IF k = n + 1 THEN v ELSE f[k]]

LEMMA LoopExtends ==
  ASSUME NEW loop, NEW n \in Nat, NEW f, IsLoop(f, loop, n)
  PROVE  IsLoop(Extend(f, n, LoopStep(loop, n + 1, f[n])), loop, n + 1)
<1>1. \A k \in 0 .. n : f[k] = IF k = 0 THEN LoopBase(loop) ELSE LoopStep(loop, k, f[k - 1])
  BY Zenon DEF IsLoop
<1>2. PICK v : v = LoopStep(loop, n + 1, f[n])
  BY Zenon
<1>. DEFINE g == Extend(f, n, v)
<1>3. /\ g = [k \in 0 .. n + 1 |-> g[k]]
      /\ \A k \in 0 .. n : g[k] = f[k]
      /\ g[n + 1] = v
  BY DEF Extend
<1>. HIDE DEF g
<1>4. ASSUME NEW k \in 0 .. n + 1
      PROVE  g[k] = IF k = 0 THEN LoopBase(loop) ELSE LoopStep(loop, k, g[k - 1])
  <2>1. CASE k = n + 1
    <3>1. k # 0 /\ k - 1 = n /\ n \in 0 .. n
      BY <2>1
    <3>. QED  BY <1>2, <1>3, <2>1, <3>1
  <2>2. CASE k # n + 1
    <3>1. k \in 0 .. n /\ (k # 0 => k - 1 \in 0 .. n)
      BY <2>2
    <3>. QED  BY <1>1, <1>3, <3>1
  <2>. QED  BY <2>1, <2>2
<1>5. g = [k \in 0 .. n + 1 |-> IF k = 0 THEN LoopBase(loop) ELSE LoopStep(loop, k, g[k - 1])]
  BY <1>3, <1>4
<1>. QED  BY <1>2, <1>5 DEF IsLoop, g

LEMMA LoopExists ==
  ASSUME NEW loop, NEW n \in Nat
  PROVE  \E f : IsLoop(f, loop, n)
<1>. DEFINE T == {k \in Nat : \E f : IsLoop(f, loop, k)}
<1>1. 0 \in T
  <2>. DEFINE g == [k \in 0 .. 0 |-> LoopBase(loop)]
  <2>1. g = [k \in 0 .. 0 |-> IF k = 0 THEN LoopBase(loop) ELSE LoopStep(loop, k, g[k - 1])]
    BY SMT
  <2>. HIDE DEF g
  <2>2. IsLoop(g, loop, 0)
    BY <2>1 DEF IsLoop
  <2>. QED  BY <2>2
<1>2. ASSUME NEW k \in 0 .. n - 1, k \in T  PROVE k + 1 \in T
  <2>1. k \in Nat /\ k + 1 \in Nat
    OBVIOUS
  <2>2. PICK f : IsLoop(f, loop, k)
    BY <1>2
  <2>3. IsLoop(Extend(f, k, LoopStep(loop, k + 1, f[k])), loop, k + 1)
    BY <2>1, <2>2, LoopExtends
  <2>. QED  BY <2>1, <2>3
<1>3. n \in 0 .. n
  OBVIOUS
<1>4. n \in T
  <2>. HIDE DEF T
  <2>. QED  BY <1>1, <1>2, <1>3, Induction
<1>. QED  BY <1>4

\* The first loop of apply_delta, one removal at a time.
LEMMA RemovalsIs ==
  ASSUME NEW t, NEW w, Len(w.removed) \in Nat
  PROVE  /\ Removals(t, w)[0] = Start(t)
         /\ \A k \in 1 .. Len(w.removed) :
              Removals(t, w)[k] = RemoveEntry(Removals(t, w)[k - 1], w.removed[k])
<1>. DEFINE loop == <<"Removals", t, w>>
            first == Start(t)
            Then(k, prev) == RemoveEntry(prev, w.removed[k])
            Is(f) == f = [k \in 0 .. Len(w.removed) |-> IF k = 0 THEN first ELSE Then(k, f[k - 1])]
<1>1. /\ LoopBase(loop) = first
      /\ \A k, prev : LoopStep(loop, k, prev) = Then(k, prev)
  BY DEF LoopBase, LoopStep
<1>2. Removals(t, w) = CHOOSE f : Is(f)
  BY Zenon DEF Removals, Start
<1>. HIDE DEF loop, first, Then
<1>3. PICK f : IsLoop(f, loop, Len(w.removed))
  BY LoopExists, Zenon
<1>4. Is(f)
  BY <1>1, <1>3 DEF IsLoop
<1>5. Is(Removals(t, w))
  BY <1>2, <1>4, Zenon
<1>6. PICK n, g : n \in Nat /\ n = Len(w.removed) /\ g = Removals(t, w)
  OBVIOUS
<1>. n \in Nat
  BY <1>6
<1>7. g = [k \in 0 .. n |-> IF k = 0 THEN first ELSE Then(k, g[k - 1])]
  BY <1>5, <1>6, Zenon
<1>8. g[0] = first /\ \A k \in 1 .. n : g[k] = Then(k, g[k - 1])
  BY <1>7
<1>. QED  BY <1>6, <1>8, Zenon DEF first, Then

\* Its second loop, one upsert at a time.
LEMMA UpsertsIs ==
  ASSUME NEW start, NEW w, Len(w.upserted) \in Nat
  PROVE  /\ Upserts(start, w)[0] = start
         /\ \A k \in 1 .. Len(w.upserted) :
              Upserts(start, w)[k] = UpsertEntry(Upserts(start, w)[k - 1], w.upserted[k])
<1>. DEFINE loop == <<"Upserts", start, w>>
            first == start
            Then(k, prev) == UpsertEntry(prev, w.upserted[k])
            Is(f) == f = [k \in 0 .. Len(w.upserted) |-> IF k = 0 THEN first ELSE Then(k, f[k - 1])]
<1>1. /\ LoopBase(loop) = first
      /\ \A k, prev : LoopStep(loop, k, prev) = Then(k, prev)
  BY DEF LoopBase, LoopStep
<1>2. Upserts(start, w) = CHOOSE f : Is(f)
  BY Zenon DEF Upserts
<1>. HIDE DEF loop, first, Then
<1>3. PICK f : IsLoop(f, loop, Len(w.upserted))
  BY LoopExists, Zenon
<1>4. Is(f)
  BY <1>1, <1>3 DEF IsLoop
<1>5. Is(Upserts(start, w))
  BY <1>2, <1>4, Zenon
<1>6. PICK n, g : n \in Nat /\ n = Len(w.upserted) /\ g = Upserts(start, w)
  OBVIOUS
<1>. n \in Nat
  BY <1>6
<1>7. g = [k \in 0 .. n |-> IF k = 0 THEN first ELSE Then(k, g[k - 1])]
  BY <1>5, <1>6, Zenon
<1>8. g[0] = first /\ \A k \in 1 .. n : g[k] = Then(k, g[k - 1])
  BY <1>7
<1>. QED  BY <1>6, <1>8, Zenon DEF first, Then

\* The bits of an id.
LEMMA PrefixIs ==
  ASSUME NEW id
  PROVE  /\ Prefix(id)[0] = id
         /\ \A k \in 1 .. SmtDepth :
              Prefix(id)[k] = Prefix(id)[k - 1] \div 2
<1>. DEFINE loop == <<"Prefix", id>>
            first == id
            Then(k, prev) == prev \div 2
            Is(f) == f = [k \in 0 .. SmtDepth |-> IF k = 0 THEN first ELSE Then(k, f[k - 1])]
<1>1. /\ LoopBase(loop) = first
      /\ \A k, prev : LoopStep(loop, k, prev) = Then(k, prev)
  BY DEF LoopBase, LoopStep
<1>2. Prefix(id) = CHOOSE f : Is(f)
  BY Zenon DEF Prefix
<1>. HIDE DEF loop, first, Then
<1>3. PICK f : IsLoop(f, loop, SmtDepth)
  BY LoopExists, SmtDepthAssumption, Zenon
<1>4. Is(f)
  BY <1>1, <1>3 DEF IsLoop
<1>5. Is(Prefix(id))
  BY <1>2, <1>4, Zenon
<1>6. /\ Prefix(id)[0] = first
      /\ \A k \in 1 .. SmtDepth : Prefix(id)[k] = Then(k, Prefix(id)[k - 1])
  BY <1>5, SmtDepthAssumption
<1>. QED  BY <1>6, Zenon DEF first, Then

\* The ids of so many bits.
LEMMA IdsOfBitsIs ==
  /\ IdsOfBits[0] = {0}
  /\ \A k \in 1 .. SmtDepth :
       IdsOfBits[k] = UNION {{2 * i, 2 * i + 1} : i \in IdsOfBits[k - 1]}
<1>. DEFINE loop == <<"IdsOfBits">>
            first == {0}
            Then(k, prev) == UNION {{2 * i, 2 * i + 1} : i \in prev}
            Is(f) == f = [k \in 0 .. SmtDepth |-> IF k = 0 THEN first ELSE Then(k, f[k - 1])]
<1>1. /\ LoopBase(loop) = first
      /\ \A k, prev : LoopStep(loop, k, prev) = Then(k, prev)
  BY DEF LoopBase, LoopStep
<1>2. IdsOfBits = CHOOSE f : Is(f)
  BY Zenon DEF IdsOfBits
<1>. HIDE DEF loop, first, Then
<1>3. PICK f : IsLoop(f, loop, SmtDepth)
  BY LoopExists, SmtDepthAssumption, Zenon
<1>4. Is(f)
  BY <1>1, <1>3 DEF IsLoop
<1>5. Is(IdsOfBits)
  BY <1>2, <1>4, Zenon
<1>6. /\ IdsOfBits[0] = first
      /\ \A k \in 1 .. SmtDepth : IdsOfBits[k] = Then(k, IdsOfBits[k - 1])
  BY <1>5, SmtDepthAssumption
<1>. QED  BY <1>6, Zenon DEF first, Then

\* The hashes of empty subtrees.
LEMMA DefaultHashIs ==
  /\ DefaultHash[0] = HashMemberLeaf(Sentinel)
  /\ \A k \in 1 .. SmtDepth :
       DefaultHash[k] = HashMemberNode(DefaultHash[k - 1], DefaultHash[k - 1])
<1>. DEFINE loop == <<"DefaultHash">>
            first == HashMemberLeaf(Sentinel)
            Then(k, prev) == HashMemberNode(prev, prev)
            Is(f) == f = [k \in 0 .. SmtDepth |-> IF k = 0 THEN first ELSE Then(k, f[k - 1])]
<1>1. /\ LoopBase(loop) = first
      /\ \A k, prev : LoopStep(loop, k, prev) = Then(k, prev)
  BY DEF LoopBase, LoopStep
<1>2. DefaultHash = CHOOSE f : Is(f)
  BY Zenon DEF DefaultHash
<1>. HIDE DEF loop, first, Then
<1>3. PICK f : IsLoop(f, loop, SmtDepth)
  BY LoopExists, SmtDepthAssumption, Zenon
<1>4. Is(f)
  BY <1>1, <1>3 DEF IsLoop
<1>5. Is(DefaultHash)
  BY <1>2, <1>4, Zenon
<1>6. /\ DefaultHash[0] = first
      /\ \A k \in 1 .. SmtDepth : DefaultHash[k] = Then(k, DefaultHash[k - 1])
  BY <1>5, SmtDepthAssumption
<1>. QED  BY <1>6, Zenon DEF first, Then

\* The way down of insert_at.
LEMMA InsertPathIs ==
  ASSUME NEW root, NEW id
  PROVE  /\ InsertPath(root, id)[0] = root
         /\ \A k \in 1 .. SmtDepth :
              InsertPath(root, id)[k] = ChildOn(id, k - 1, InsertStep(InsertPath(root, id)[k - 1], k - 1))
<1>. DEFINE loop == <<"InsertPath", root, id>>
            first == root
            Then(k, prev) == ChildOn(id, k - 1, InsertStep(prev, k - 1))
            Is(f) == f = [k \in 0 .. SmtDepth |-> IF k = 0 THEN first ELSE Then(k, f[k - 1])]
<1>1. /\ LoopBase(loop) = first
      /\ \A k, prev : LoopStep(loop, k, prev) = Then(k, prev)
  BY DEF LoopBase, LoopStep
<1>2. InsertPath(root, id) = CHOOSE f : Is(f)
  BY Zenon DEF InsertPath
<1>. HIDE DEF loop, first, Then
<1>3. PICK f : IsLoop(f, loop, SmtDepth)
  BY LoopExists, SmtDepthAssumption, Zenon
<1>4. Is(f)
  BY <1>1, <1>3 DEF IsLoop
<1>5. Is(InsertPath(root, id))
  BY <1>2, <1>4, Zenon
<1>6. /\ InsertPath(root, id)[0] = first
      /\ \A k \in 1 .. SmtDepth : InsertPath(root, id)[k] = Then(k, InsertPath(root, id)[k - 1])
  BY <1>5, SmtDepthAssumption
<1>. QED  BY <1>6, Zenon DEF first, Then

\* The way back up of insert_at.
LEMMA InsertedIs ==
  ASSUME NEW root, NEW id, NEW new
  PROVE  /\ Inserted(root, id, new)[0] = new
         /\ \A k \in 1 .. SmtDepth :
              Inserted(root, id, new)[k] = ParentOn(id, SmtDepth - k,
                      InsertStep(InsertPath(root, id)[SmtDepth - k], SmtDepth - k),
                      Inserted(root, id, new)[k - 1])
<1>. DEFINE loop == <<"Inserted", root, id, new>>
            first == new
            Then(k, prev) == ParentOn(id, SmtDepth - k,
                      InsertStep(InsertPath(root, id)[SmtDepth - k], SmtDepth - k),
                      prev)
            Is(f) == f = [k \in 0 .. SmtDepth |-> IF k = 0 THEN first ELSE Then(k, f[k - 1])]
<1>1. /\ LoopBase(loop) = first
      /\ \A k, prev : LoopStep(loop, k, prev) = Then(k, prev)
  BY DEF LoopBase, LoopStep
<1>2. Inserted(root, id, new) = CHOOSE f : Is(f)
  BY Zenon DEF Inserted
<1>. HIDE DEF loop, first, Then
<1>3. PICK f : IsLoop(f, loop, SmtDepth)
  BY LoopExists, SmtDepthAssumption, Zenon
<1>4. Is(f)
  BY <1>1, <1>3 DEF IsLoop
<1>5. Is(Inserted(root, id, new))
  BY <1>2, <1>4, Zenon
<1>6. /\ Inserted(root, id, new)[0] = first
      /\ \A k \in 1 .. SmtDepth : Inserted(root, id, new)[k] = Then(k, Inserted(root, id, new)[k - 1])
  BY <1>5, SmtDepthAssumption
<1>. QED  BY <1>6, Zenon DEF first, Then

\* The loop of get_member.
LEMMA ReachedIs ==
  ASSUME NEW root, NEW id
  PROVE  /\ Reached(root, id)[0] = {root}
         /\ \A k \in 1 .. SmtDepth :
              Reached(root, id)[k] = {ChildOn(id, k - 1, node) :
                node \in {n \in Reached(root, id)[k - 1] : n.kind = "Internal"}}
<1>. DEFINE loop == <<"Reached", root, id>>
            first == {root}
            Then(k, prev) == {ChildOn(id, k - 1, node) :
                node \in {n \in prev : n.kind = "Internal"}}
            Is(f) == f = [k \in 0 .. SmtDepth |-> IF k = 0 THEN first ELSE Then(k, f[k - 1])]
<1>1. /\ LoopBase(loop) = first
      /\ \A k, prev : LoopStep(loop, k, prev) = Then(k, prev)
  BY DEF LoopBase, LoopStep
<1>2. Reached(root, id) = CHOOSE f : Is(f)
  BY Zenon DEF Reached
<1>. HIDE DEF loop, first, Then
<1>3. PICK f : IsLoop(f, loop, SmtDepth)
  BY LoopExists, SmtDepthAssumption, Zenon
<1>4. Is(f)
  BY <1>1, <1>3 DEF IsLoop
<1>5. Is(Reached(root, id))
  BY <1>2, <1>4, Zenon
<1>6. /\ Reached(root, id)[0] = first
      /\ \A k \in 1 .. SmtDepth : Reached(root, id)[k] = Then(k, Reached(root, id)[k - 1])
  BY <1>5, SmtDepthAssumption
<1>. QED  BY <1>6, Zenon DEF first, Then

\* The nodes of a tree by depth.
LEMMA NodesAtIs ==
  ASSUME NEW root
  PROVE  /\ NodesAt(root)[0] = {root}
         /\ \A k \in 1 .. SmtDepth :
              NodesAt(root)[k] = UNION {{Left(node), Right(node)} : node \in NodesAt(root)[k - 1]}
<1>. DEFINE loop == <<"NodesAt", root>>
            first == {root}
            Then(k, prev) == UNION {{Left(node), Right(node)} : node \in prev}
            Is(f) == f = [k \in 0 .. SmtDepth |-> IF k = 0 THEN first ELSE Then(k, f[k - 1])]
<1>1. /\ LoopBase(loop) = first
      /\ \A k, prev : LoopStep(loop, k, prev) = Then(k, prev)
  BY DEF LoopBase, LoopStep
<1>2. NodesAt(root) = CHOOSE f : Is(f)
  BY Zenon DEF NodesAt
<1>. HIDE DEF loop, first, Then
<1>3. PICK f : IsLoop(f, loop, SmtDepth)
  BY LoopExists, SmtDepthAssumption, Zenon
<1>4. Is(f)
  BY <1>1, <1>3 DEF IsLoop
<1>5. Is(NodesAt(root))
  BY <1>2, <1>4, Zenon
<1>6. /\ NodesAt(root)[0] = first
      /\ \A k \in 1 .. SmtDepth : NodesAt(root)[k] = Then(k, NodesAt(root)[k - 1])
  BY <1>5, SmtDepthAssumption
<1>. QED  BY <1>6, Zenon DEF first, Then

\* The levels of recalculate_hashes.
LEMMA RecalculatedIs ==
  ASSUME NEW root
  PROVE  /\ Recalculated(root)[0] = [node \in NodesAt(root)[SmtDepth] |-> HashLeaf(node)]
         /\ \A k \in 1 .. SmtDepth :
              Recalculated(root)[k] = [node \in NodesAt(root)[SmtDepth - k] |-> HashNode(node, Recalculated(root)[k - 1])]
<1>. DEFINE loop == <<"Recalculated", root>>
            first == [node \in NodesAt(root)[SmtDepth] |-> HashLeaf(node)]
            Then(k, prev) == [node \in NodesAt(root)[SmtDepth - k] |-> HashNode(node, prev)]
            Is(f) == f = [k \in 0 .. SmtDepth |-> IF k = 0 THEN first ELSE Then(k, f[k - 1])]
<1>1. /\ LoopBase(loop) = first
      /\ \A k, prev : LoopStep(loop, k, prev) = Then(k, prev)
  BY DEF LoopBase, LoopStep
<1>2. Recalculated(root) = CHOOSE f : Is(f)
  BY Zenon DEF Recalculated
<1>. HIDE DEF loop, first, Then
<1>3. PICK f : IsLoop(f, loop, SmtDepth)
  BY LoopExists, SmtDepthAssumption, Zenon
<1>4. Is(f)
  BY <1>1, <1>3 DEF IsLoop
<1>5. Is(Recalculated(root))
  BY <1>2, <1>4, Zenon
<1>6. /\ Recalculated(root)[0] = first
      /\ \A k \in 1 .. SmtDepth : Recalculated(root)[k] = Then(k, Recalculated(root)[k - 1])
  BY <1>5, SmtDepthAssumption
<1>. QED  BY <1>6, Zenon DEF first, Then

\* The levels of collect_members.
LEMMA CollectedIs ==
  ASSUME NEW root
  PROVE  /\ Collected(root)[0] = [node \in NodesAt(root)[SmtDepth] |-> CollectLeaf(node)]
         /\ \A k \in 1 .. SmtDepth :
              Collected(root)[k] = [node \in NodesAt(root)[SmtDepth - k] |-> CollectNode(node, Collected(root)[k - 1])]
<1>. DEFINE loop == <<"Collected", root>>
            first == [node \in NodesAt(root)[SmtDepth] |-> CollectLeaf(node)]
            Then(k, prev) == [node \in NodesAt(root)[SmtDepth - k] |-> CollectNode(node, prev)]
            Is(f) == f = [k \in 0 .. SmtDepth |-> IF k = 0 THEN first ELSE Then(k, f[k - 1])]
<1>1. /\ LoopBase(loop) = first
      /\ \A k, prev : LoopStep(loop, k, prev) = Then(k, prev)
  BY DEF LoopBase, LoopStep
<1>2. Collected(root) = CHOOSE f : Is(f)
  BY Zenon DEF Collected
<1>. HIDE DEF loop, first, Then
<1>3. PICK f : IsLoop(f, loop, SmtDepth)
  BY LoopExists, SmtDepthAssumption, Zenon
<1>4. Is(f)
  BY <1>1, <1>3 DEF IsLoop
<1>5. Is(Collected(root))
  BY <1>2, <1>4, Zenon
<1>6. /\ Collected(root)[0] = first
      /\ \A k \in 1 .. SmtDepth : Collected(root)[k] = Then(k, Collected(root)[k - 1])
  BY <1>5, SmtDepthAssumption
<1>. QED  BY <1>6, Zenon DEF first, Then

\* The levels of diff_tries.
LEMMA DiffsIs ==
  ASSUME NEW old, NEW new
  PROVE  /\ \A a \in NodesAt(old)[SmtDepth], b \in NodesAt(new)[SmtDepth] :
              Diffs(old, new)[0][<<a, b>>] = DiffLeaf(a, b)
         /\ \A k \in 1 .. SmtDepth :
              \A a \in NodesAt(old)[SmtDepth - k], b \in NodesAt(new)[SmtDepth - k] :
                Diffs(old, new)[k][<<a, b>>] = DiffNode(a, b, Diffs(old, new)[k - 1])
<1>. DEFINE loop == <<"Diffs", old, new>>
            first == [pair \in NodesAt(old)[SmtDepth] \X NodesAt(new)[SmtDepth] |->
                DiffLeaf(pair[1], pair[2])]
            Then(k, prev) == [pair \in NodesAt(old)[SmtDepth - k] \X NodesAt(new)[SmtDepth - k] |->
                DiffNode(pair[1], pair[2], prev)]
            Is(f) == f = [k \in 0 .. SmtDepth |-> IF k = 0 THEN first ELSE Then(k, f[k - 1])]
<1>1. /\ LoopBase(loop) = first
      /\ \A k, prev : LoopStep(loop, k, prev) = Then(k, prev)
  BY DEF LoopBase, LoopStep
<1>2. Diffs(old, new) = CHOOSE f : Is(f)
  BY Zenon DEF Diffs
<1>. HIDE DEF loop, first, Then
<1>3. PICK f : IsLoop(f, loop, SmtDepth)
  BY LoopExists, SmtDepthAssumption, Zenon
<1>4. Is(f)
  BY <1>1, <1>3 DEF IsLoop
<1>5. Is(Diffs(old, new))
  BY <1>2, <1>4, Zenon
<1>6. /\ Diffs(old, new)[0] = first
      /\ \A k \in 1 .. SmtDepth : Diffs(old, new)[k] = Then(k, Diffs(old, new)[k - 1])
  BY <1>5, SmtDepthAssumption
<1>7. \A a \in NodesAt(old)[SmtDepth], b \in NodesAt(new)[SmtDepth] :
        first[<<a, b>>] = DiffLeaf(a, b)
  BY DEF first
<1>8. \A k, prev : \A a \in NodesAt(old)[SmtDepth - k], b \in NodesAt(new)[SmtDepth - k] :
        Then(k, prev)[<<a, b>>] = DiffNode(a, b, prev)
  BY DEF Then
<1>9. ASSUME NEW k \in 1 .. SmtDepth, NEW a \in NodesAt(old)[SmtDepth - k],
             NEW b \in NodesAt(new)[SmtDepth - k]
      PROVE  Diffs(old, new)[k][<<a, b>>] = DiffNode(a, b, Diffs(old, new)[k - 1])
  <2>1. PICK prev : prev = Diffs(old, new)[k - 1]
    OBVIOUS
  <2>2. Diffs(old, new)[k] = Then(k, prev)
    BY <1>6, <2>1
  <2>3. Then(k, prev)[<<a, b>>] = DiffNode(a, b, prev)
    BY <1>8
  <2>. QED  BY <2>1, <2>2, <2>3
<1>. QED  BY <1>6, <1>7, <1>9

\* The inserts of a loop.
LEMMA InsertAllIs ==
  ASSUME NEW start, NEW entries, Len(entries) \in Nat
  PROVE  /\ InsertAll(start, entries)[0] = start
         /\ \A k \in 1 .. Len(entries) :
              InsertAll(start, entries)[k] = SmtInsert(InsertAll(start, entries)[k - 1], entries[k].id, entries[k].leaf)
<1>. DEFINE loop == <<"InsertAll", start, entries>>
            first == start
            Then(k, prev) == SmtInsert(prev, entries[k].id, entries[k].leaf)
            Is(f) == f = [k \in 0 .. Len(entries) |-> IF k = 0 THEN first ELSE Then(k, f[k - 1])]
<1>1. /\ LoopBase(loop) = first
      /\ \A k, prev : LoopStep(loop, k, prev) = Then(k, prev)
  BY DEF LoopBase, LoopStep
<1>2. InsertAll(start, entries) = CHOOSE f : Is(f)
  BY Zenon DEF InsertAll
<1>. HIDE DEF loop, first, Then
<1>3. PICK f : IsLoop(f, loop, Len(entries))
  BY LoopExists, Zenon
<1>4. Is(f)
  BY <1>1, <1>3 DEF IsLoop
<1>5. Is(InsertAll(start, entries))
  BY <1>2, <1>4, Zenon
<1>6. /\ InsertAll(start, entries)[0] = first
      /\ \A k \in 1 .. Len(entries) : InsertAll(start, entries)[k] = Then(k, InsertAll(start, entries)[k - 1])
  BY <1>5
<1>. QED  BY <1>6, Zenon DEF first, Then

\* The removals of a loop.
LEMMA RemoveAllIs ==
  ASSUME NEW start, NEW ids, Len(ids) \in Nat
  PROVE  /\ RemoveAll(start, ids)[0] = start
         /\ \A k \in 1 .. Len(ids) :
              RemoveAll(start, ids)[k] = SmtRemove(RemoveAll(start, ids)[k - 1], ids[k])
<1>. DEFINE loop == <<"RemoveAll", start, ids>>
            first == start
            Then(k, prev) == SmtRemove(prev, ids[k])
            Is(f) == f = [k \in 0 .. Len(ids) |-> IF k = 0 THEN first ELSE Then(k, f[k - 1])]
<1>1. /\ LoopBase(loop) = first
      /\ \A k, prev : LoopStep(loop, k, prev) = Then(k, prev)
  BY DEF LoopBase, LoopStep
<1>2. RemoveAll(start, ids) = CHOOSE f : Is(f)
  BY Zenon DEF RemoveAll
<1>. HIDE DEF loop, first, Then
<1>3. PICK f : IsLoop(f, loop, Len(ids))
  BY LoopExists, Zenon
<1>4. Is(f)
  BY <1>1, <1>3 DEF IsLoop
<1>5. Is(RemoveAll(start, ids))
  BY <1>2, <1>4, Zenon
<1>6. /\ RemoveAll(start, ids)[0] = first
      /\ \A k \in 1 .. Len(ids) : RemoveAll(start, ids)[k] = Then(k, RemoveAll(start, ids)[k - 1])
  BY <1>5
<1>. QED  BY <1>6, Zenon DEF first, Then

\* The forms of a tree, by level.
LEMMA FormsIs ==
  ASSUME NEW root
  PROVE  /\ Forms(root)[0] = [p \in Nat |-> LeafForm(root, p)]
         /\ \A k \in 1 .. SmtDepth :
              Forms(root)[k] = [p \in Nat |-> NodeForm(root, k, p, Forms(root)[k - 1][2 * p], Forms(root)[k - 1][2 * p + 1])]
<1>. DEFINE loop == <<"Forms", root>>
            first == [p \in Nat |-> LeafForm(root, p)]
            Then(k, prev) == [p \in Nat |-> NodeForm(root, k, p, prev[2 * p], prev[2 * p + 1])]
            Is(f) == f = [k \in 0 .. SmtDepth |-> IF k = 0 THEN first ELSE Then(k, f[k - 1])]
<1>1. /\ LoopBase(loop) = first
      /\ \A k, prev : LoopStep(loop, k, prev) = Then(k, prev)
  BY DEF LoopBase, LoopStep
<1>2. Forms(root) = CHOOSE f : Is(f)
  BY Zenon DEF Forms
<1>. HIDE DEF loop, first, Then
<1>3. PICK f : IsLoop(f, loop, SmtDepth)
  BY LoopExists, SmtDepthAssumption, Zenon
<1>4. Is(f)
  BY <1>1, <1>3 DEF IsLoop
<1>5. Is(Forms(root))
  BY <1>2, <1>4, Zenon
<1>6. /\ Forms(root)[0] = first
      /\ \A k \in 1 .. SmtDepth : Forms(root)[k] = Then(k, Forms(root)[k - 1])
  BY <1>5, SmtDepthAssumption
<1>. QED  BY <1>6, Zenon DEF first, Then

-----------------------------------------------------------------------------
(* One entry.                                                              *)

Collisions == {"ConfusableHandle", "DuplicateHandle"}

Work == [root           : Roots,
         count          : Nat,
         verdict        : {"Ok"} \cup Collisions,
         skeleton_index : PartialFunctions(Skeletons, Handles),
         handle_index   : PartialFunctions(Handles, MemberIds)]

\* The indexes and the count agree with the tree built so far.
WorkOK(x) ==
  /\ x \in Work
  /\ Agree(x.root, x.handle_index, x.skeleton_index)
  /\ x.count = Cardinality(DOMAIN x.root)

\* The fields of a work.
LEMMA WorkFields ==
  ASSUME NEW x \in Work
  PROVE  /\ x.root \in Roots /\ x.count \in Nat /\ x.verdict \in {"Ok"} \cup Collisions
         /\ x.skeleton_index \in PartialFunctions(Skeletons, Handles)
         /\ x.handle_index \in PartialFunctions(Handles, MemberIds)
BY DEF Work

\* A work whose tree, count and indexes are replaced.
Edited(x, root, count, hindex, sindex) ==
  [x EXCEPT !.root = root, !.count = count,
            !.skeleton_index = sindex, !.handle_index = hindex]

\* A work assembled from fields that agree with each other.
LEMMA WorkFrom ==
  ASSUME NEW x \in Work, NEW root \in Roots, NEW count,
         NEW hindex \in PartialFunctions(Handles, MemberIds),
         NEW sindex \in PartialFunctions(Skeletons, Handles),
         Agree(root, hindex, sindex), count = Cardinality(DOMAIN root),
         NEW y, y = Edited(x, root, count, hindex, sindex)
  PROVE  WorkOK(y) /\ y.root = root /\ y.verdict = x.verdict
<1>1. count \in Nat
  BY RootIs, FS_CardinalityType
<1>2. /\ y.root = root /\ y.count = count /\ y.verdict = x.verdict
      /\ y.skeleton_index = sindex /\ y.handle_index = hindex
  BY DEF Work, Edited
<1>3. y \in Work
  BY <1>1 DEF Work, Edited
<1>. QED  BY <1>2, <1>3 DEF WorkOK

\* A removal of a member that is there keeps the indexes and the count right.
LEMMA RemoveKeeps ==
  ASSUME NEW x, WorkOK(x), NEW id \in DOMAIN x.root
  PROVE  LET y == RemoveEntry(x, id) IN
         WorkOK(y) /\ y.root = Drop(x.root, id) /\ y.verdict = x.verdict
<1>. DEFINE root   == Drop(x.root, id)
            old    == x.root[id].handle
            hindex == Drop(x.handle_index, old)
            sindex == Drop(x.skeleton_index, Skeleton[old])
            y      == RemoveEntry(x, id)
<1>1. x \in Work /\ Agree(x.root, x.handle_index, x.skeleton_index)
      /\ x.count = Cardinality(DOMAIN x.root)
  BY DEF WorkOK
<1>2. root \in Roots
  BY <1>1, WorkFields, DropType DEF Roots
<1>3. /\ hindex \in PartialFunctions(Handles, MemberIds)
      /\ sindex \in PartialFunctions(Skeletons, Handles)
  BY <1>1, WorkFields, DropType
<1>4. Agree(root, hindex, sindex)
  BY <1>1, DropAgrees
<1>5. x.count - 1 = Cardinality(DOMAIN root)
  <2>1. DOMAIN root = DOMAIN x.root \ {id}
    BY DropIs
  <2>2. IsFiniteSet(DOMAIN x.root)
    BY <1>1, WorkFields, RootIs
  <2>. HIDE DEF root
  <2>3. Cardinality(DOMAIN x.root \ {id}) = Cardinality(DOMAIN x.root) - 1
    BY <2>2, FS_RemoveElement
  <2>. QED  BY <1>1, <2>1, <2>3
<1>6. y = Edited(x, root, x.count - 1, hindex, sindex)
  BY <1>1 DEF RemoveEntry, Work, Edited
<1>. HIDE DEF root, hindex, sindex, y
<1>7. WorkOK(y) /\ y.root = root /\ y.verdict = x.verdict
  BY <1>1, <1>2, <1>3, <1>4, <1>5, <1>6, WorkFrom
<1>. QED  BY <1>7 DEF root, y

\* The code looks the new handle up: the member is new or changes its handle.
NeedsCheck(x, u) == u.id \in DOMAIN x.root => x.root[u.id].handle # u.leaf.handle

\* No other member has the handle or a confusable one.
Fits(x, u) ==
  NeedsCheck(x, u) =>
    Skeleton[u.leaf.handle] \notin SkeletonsOf(x.root, DOMAIN x.root \ {u.id})

\* The skeletons an index has once the own old handle was released.
LEMMA ReleasedIndex ==
  ASSUME NEW x, WorkOK(x), NEW id \in DOMAIN x.root
  PROVE  DOMAIN Drop(x.skeleton_index, Skeleton[x.root[id].handle])
           = SkeletonsOf(x.root, DOMAIN x.root \ {id})
<1>1. /\ DOMAIN x.skeleton_index = SkeletonsOf(x.root, DOMAIN x.root)
      /\ GenesisOk(x.root)
  BY AgreeDistinct DEF WorkOK, Agree
<1>2. SkeletonsOf(x.root, DOMAIN x.root) \ {Skeleton[x.root[id].handle]}
        = SkeletonsOf(x.root, DOMAIN x.root \ {id})
  BY <1>1 DEF SkeletonsOf, GenesisOk
<1>3. DOMAIN Drop(x.skeleton_index, Skeleton[x.root[id].handle])
        = DOMAIN x.skeleton_index \ {Skeleton[x.root[id].handle]}
  BY DEF Drop, Restrict
<1>. QED  BY <1>1, <1>2, <1>3

\* The verdict of the look-up.
LEMMA LookUpVerdict ==
  ASSUME NEW sindex, NEW handle
  PROVE  LET v == HandleVerdict(sindex, handle) IN
         /\ v = "Ok" <=> Skeleton[handle] \notin DOMAIN sindex
         /\ v # "Ok" => v \in Collisions
BY DEF HandleVerdict, Collisions

\* An upsert of a new member.
LEMMA UpsertNew ==
  ASSUME NEW x, WorkOK(x), x.verdict = "Ok", NEW u \in Upsert, u.id \notin DOMAIN x.root
  PROVE  LET y == UpsertEntry(x, u) IN
         /\ Fits(x, u) => WorkOK(y) /\ y.verdict = "Ok" /\ y.root = Put(x.root, u.id, u.leaf)
         /\ ~Fits(x, u) => y \in Work /\ y.verdict \in Collisions
<1>. DEFINE y == UpsertEntry(x, u)
            v == HandleVerdict(x.skeleton_index, u.leaf.handle)
            root == Put(x.root, u.id, u.leaf)
            hindex == Put(x.handle_index, u.leaf.handle, u.id)
            sindex == Put(x.skeleton_index, Skeleton[u.leaf.handle], u.leaf.handle)
<1>0. /\ u.id \in MemberIds /\ u.leaf \in MemberLeaf /\ u.leaf.handle \in Handles
      /\ Skeleton[u.leaf.handle] \in Skeletons
  BY SkeletonAssumption DEF Upsert, MemberLeaf
<1>1. x \in Work /\ Agree(x.root, x.handle_index, x.skeleton_index)
      /\ x.count = Cardinality(DOMAIN x.root)
  BY DEF WorkOK
<1>2. (v = "Ok") <=> Fits(x, u)
  <2>1. DOMAIN x.root \ {u.id} = DOMAIN x.root
    OBVIOUS
  <2>2. DOMAIN x.skeleton_index = SkeletonsOf(x.root, DOMAIN x.root)
    BY <1>1 DEF Agree
  <2>3. Fits(x, u) <=> Skeleton[u.leaf.handle] \notin DOMAIN x.skeleton_index
    BY <2>1, <2>2 DEF Fits, NeedsCheck
  <2>. HIDE DEF v
  <2>. QED  BY <2>3, LookUpVerdict DEF v
<1>3. v # "Ok" => v \in Collisions
  BY LookUpVerdict
<1>4. v # "Ok" => y = [x EXCEPT !.verdict = v]
  BY DEF UpsertEntry
<1>5. v = "Ok" => y = Edited(x, root, x.count + 1, hindex, sindex)
  BY <1>1 DEF UpsertEntry, Work, Edited
<1>6. ASSUME v = "Ok"
      PROVE  WorkOK(y) /\ y.verdict = "Ok" /\ y.root = root
  <2>1. root \in Roots
    BY <1>0, <1>1, WorkFields, PutType DEF Roots
  <2>2. /\ hindex \in PartialFunctions(Handles, MemberIds)
        /\ sindex \in PartialFunctions(Skeletons, Handles)
    BY <1>0, <1>1, WorkFields, PutType
  <2>3. Skeleton[u.leaf.handle] \notin DOMAIN x.skeleton_index
    BY <1>6, VerdictOk
  <2>4. Agree(root, hindex, sindex)
    BY <1>1, <2>3, PutAgrees
  <2>5. x.count + 1 = Cardinality(DOMAIN root)
    <3>1. DOMAIN root = DOMAIN x.root \cup {u.id}
      BY DEF Put
    <3>2. IsFiniteSet(DOMAIN x.root)
      BY <1>1, WorkFields, RootIs
    <3>. HIDE DEF root
    <3>3. Cardinality(DOMAIN x.root \cup {u.id}) = Cardinality(DOMAIN x.root) + 1
      BY <3>2, FS_AddElement
    <3>. QED  BY <1>1, <3>1, <3>3
  <2>6. y = Edited(x, root, x.count + 1, hindex, sindex)
    BY <1>5, <1>6
  <2>. HIDE DEF root, hindex, sindex, y, v
  <2>7. WorkOK(y) /\ y.root = root /\ y.verdict = x.verdict
    BY <1>1, <2>1, <2>2, <2>4, <2>5, <2>6, WorkFrom
  <2>. QED  BY <2>7
<1>7. ASSUME v # "Ok"  PROVE y \in Work /\ y.verdict \in Collisions
  <2>. HIDE DEF v, y
  <2>. QED  BY <1>1, <1>3, <1>4, <1>7 DEF Work
<1>. HIDE DEF v, y, root
<1>. QED  BY <1>2, <1>6, <1>7 DEF y, root

\* An upsert of a member that keeps its handle.
LEMMA UpsertKept ==
  ASSUME NEW x, WorkOK(x), x.verdict = "Ok", NEW u \in Upsert, u.id \in DOMAIN x.root,
         x.root[u.id].handle = u.leaf.handle
  PROVE  LET y == UpsertEntry(x, u) IN
         WorkOK(y) /\ y.verdict = "Ok" /\ y.root = Put(x.root, u.id, u.leaf)
<1>. DEFINE y == UpsertEntry(x, u)
            root == Put(x.root, u.id, u.leaf)
<1>0. u.id \in MemberIds /\ u.leaf \in MemberLeaf
  BY DEF Upsert
<1>1. x \in Work /\ Agree(x.root, x.handle_index, x.skeleton_index)
      /\ x.count = Cardinality(DOMAIN x.root)
  BY DEF WorkOK
<1>2. y = Edited(x, root, x.count, x.handle_index, x.skeleton_index)
  BY <1>1 DEF UpsertEntry, Work, Edited
<1>3. root \in Roots
  BY <1>0, <1>1, WorkFields, PutType DEF Roots
<1>4. /\ DOMAIN root = DOMAIN x.root
      /\ \A i \in DOMAIN x.root : root[i].handle = x.root[i].handle
  BY DEF Put
<1>. HIDE DEF root, y
<1>5. Agree(root, x.handle_index, x.skeleton_index)
  BY <1>1, <1>4, SameHandlesAgree
<1>6. WorkOK(y) /\ y.root = root /\ y.verdict = x.verdict
  BY <1>1, <1>2, <1>3, <1>4, <1>5, WorkFields, WorkFrom
<1>. QED  BY <1>6 DEF root, y

\* An upsert that changes a member's handle.
LEMMA UpsertMoved ==
  ASSUME NEW x, WorkOK(x), x.verdict = "Ok", NEW u \in Upsert, u.id \in DOMAIN x.root,
         x.root[u.id].handle # u.leaf.handle
  PROVE  LET y == UpsertEntry(x, u) IN
         /\ Fits(x, u) => WorkOK(y) /\ y.verdict = "Ok" /\ y.root = Put(x.root, u.id, u.leaf)
         /\ ~Fits(x, u) => y \in Work /\ y.verdict \in Collisions
<1>. DEFINE y == UpsertEntry(x, u)
            old == x.root[u.id].handle
            less == Drop(x.root, u.id)
            hless == Drop(x.handle_index, old)
            sless == Drop(x.skeleton_index, Skeleton[old])
            v == HandleVerdict(sless, u.leaf.handle)
            root == Put(x.root, u.id, u.leaf)
            hindex == Put(hless, u.leaf.handle, u.id)
            sindex == Put(sless, Skeleton[u.leaf.handle], u.leaf.handle)
<1>0. /\ u.id \in MemberIds /\ u.leaf \in MemberLeaf /\ u.leaf.handle \in Handles
      /\ Skeleton[u.leaf.handle] \in Skeletons
  BY SkeletonAssumption DEF Upsert, MemberLeaf
<1>1. x \in Work /\ Agree(x.root, x.handle_index, x.skeleton_index)
      /\ x.count = Cardinality(DOMAIN x.root)
  BY DEF WorkOK
<1>2. (v = "Ok") <=> Fits(x, u)
  <2>1. DOMAIN sless = SkeletonsOf(x.root, DOMAIN x.root \ {u.id})
    BY ReleasedIndex
  <2>2. (v = "Ok") <=> Skeleton[u.leaf.handle] \notin DOMAIN sless
    <3>. HIDE DEF sless
    <3>. QED  BY LookUpVerdict
  <2>. HIDE DEF v, sless
  <2>. QED  BY <2>1, <2>2 DEF Fits, NeedsCheck
<1>3. v # "Ok" => v \in Collisions
  BY LookUpVerdict
<1>4. /\ v # "Ok" => y = [x EXCEPT !.verdict = v]
      /\ v = "Ok" => y = Edited(x, root, x.count, hindex, sindex)
  <2>. DEFINE rel == [x EXCEPT !.skeleton_index = sless, !.handle_index = hless]
              ind == [rel EXCEPT !.skeleton_index = sindex, !.handle_index = hindex]
  <2>1. rel.skeleton_index = sless /\ rel.handle_index = hless
    BY <1>1 DEF Work
  <2>2. y = IF v # "Ok" THEN [x EXCEPT !.verdict = v]
            ELSE [ind EXCEPT !.root = root, !.count = x.count]
    BY <1>1 DEF UpsertEntry, Work
  <2>. HIDE DEF v, root, sindex, hindex, sless, hless, y
  <2>3. [ind EXCEPT !.root = root, !.count = x.count]
          = Edited(x, root, x.count, hindex, sindex)
    BY <1>1 DEF Edited, Work
  <2>. QED  BY <2>2, <2>3
<1>5. ASSUME v = "Ok"
      PROVE  WorkOK(y) /\ y.verdict = "Ok" /\ y.root = root
  <2>1. root \in Roots
    BY <1>0, <1>1, WorkFields, PutType DEF Roots
  <2>2. /\ hindex \in PartialFunctions(Handles, MemberIds)
        /\ sindex \in PartialFunctions(Skeletons, Handles)
    BY <1>0, <1>1, WorkFields, PutType, DropType
  <2>3. Agree(root, hindex, sindex)
    <3>1. Agree(less, hless, sless)
      BY <1>1, DropAgrees
    <3>2. u.id \notin DOMAIN less
      BY DEF Drop, Restrict
    <3>3. Skeleton[u.leaf.handle] \notin DOMAIN sless
      <4>. HIDE DEF sless
      <4>. QED  BY <1>5, VerdictOk
    <3>4. Agree(Put(less, u.id, u.leaf), hindex, sindex)
      <4>. HIDE DEF less, hless, sless
      <4>. QED  BY <3>1, <3>2, <3>3, PutAgrees
    <3>5. Put(less, u.id, u.leaf) = root
      BY DEF Put, Drop, Restrict
    <3>. HIDE DEF less, root, hindex, sindex
    <3>. QED  BY <3>4, <3>5
  <2>4. x.count = Cardinality(DOMAIN root)
    <3>1. DOMAIN root = DOMAIN x.root
      BY DEF Put
    <3>. QED  BY <1>1, <3>1
  <2>5. y = Edited(x, root, x.count, hindex, sindex)
    BY <1>4, <1>5
  <2>. HIDE DEF root, hindex, sindex, y, v
  <2>6. WorkOK(y) /\ y.root = root /\ y.verdict = x.verdict
    BY <1>1, <2>1, <2>2, <2>3, <2>4, <2>5, WorkFrom
  <2>. QED  BY <2>6
<1>6. ASSUME v # "Ok"  PROVE y \in Work /\ y.verdict \in Collisions
  <2>. HIDE DEF v, y
  <2>. QED  BY <1>1, <1>3, <1>4, <1>6 DEF Work
<1>. HIDE DEF v, y, root
<1>. QED  BY <1>2, <1>5, <1>6 DEF y, root

\* An upsert is accepted exactly when its handle fits, and keeps the indexes and
\* the count right; otherwise the loop stops with a collision.
LEMMA UpsertKeeps ==
  ASSUME NEW x, WorkOK(x), x.verdict = "Ok", NEW u \in Upsert
  PROVE  LET y == UpsertEntry(x, u) IN
         /\ Fits(x, u) => WorkOK(y) /\ y.verdict = "Ok" /\ y.root = Put(x.root, u.id, u.leaf)
         /\ ~Fits(x, u) => y \in Work /\ y.verdict \in Collisions
<1>1. CASE u.id \notin DOMAIN x.root
  BY <1>1, UpsertNew
<1>2. CASE u.id \in DOMAIN x.root /\ x.root[u.id].handle # u.leaf.handle
  BY <1>2, UpsertMoved
<1>3. CASE u.id \in DOMAIN x.root /\ x.root[u.id].handle = u.leaf.handle
  <2>1. Fits(x, u)
    BY <1>3 DEF Fits, NeedsCheck
  <2>. QED  BY <1>3, <2>1, UpsertKept
<1>. QED  BY <1>1, <1>2, <1>3

\* A loop that has stopped stays as it is.
LEMMA StoppedStays ==
  ASSUME NEW x, x.verdict # "Ok", NEW u
  PROVE  UpsertEntry(x, u) = x
BY DEF UpsertEntry

-----------------------------------------------------------------------------
(* The first loop.                                                         *)

\* The members left after k removals.
LeftAfter(t, w, k) == DOMAIN t.root \ {w.removed[n] : n \in 1 .. k}

RemovedOK(t, w, x, k) ==
  /\ WorkOK(x) /\ x.verdict = "Ok"
  /\ x.root = Restrict(t.root, LeftAfter(t, w, k))

\* Both loops start from a trie in order.
LEMMA StartOK ==
  ASSUME NEW t, TrieOK(t), NEW w
  PROVE  RemovedOK(t, w, Start(t), 0)
<1>1. /\ t.root \in Roots /\ t.member_count = Cardinality(DOMAIN t.root)
      /\ t.member_count \in Nat
      /\ t.handle_index \in PartialFunctions(Handles, MemberIds)
      /\ t.skeleton_index \in PartialFunctions(Skeletons, Handles)
      /\ Agree(t.root, t.handle_index, t.skeleton_index)
  BY TrieFields
<1>2. Start(t) \in Work
  BY <1>1 DEF Start, Work
<1>3. WorkOK(Start(t)) /\ Start(t).verdict = "Ok" /\ Start(t).root = t.root
  BY <1>1, <1>2 DEF Start, WorkOK
<1>4. LeftAfter(t, w, 0) = DOMAIN t.root
  <2>1. 1 .. 0 = {}
    OBVIOUS
  <2>. QED  BY <2>1 DEF LeftAfter
<1>5. Restrict(t.root, DOMAIN t.root) = t.root
  <2>1. t.root \in [DOMAIN t.root -> MemberLeaf]
    BY <1>1, PartialFunction DEF Roots
  <2>. QED  BY <2>1 DEF Restrict
<1>. QED  BY <1>3, <1>4, <1>5 DEF RemovedOK

\* After k removals of different members the work is in order.
LEMMA RemovalLoop ==
  ASSUME NEW t, TrieOK(t), NEW w \in Wire, Ordered(w),
         \A n \in 1 .. Len(w.removed) : w.removed[n] \in DOMAIN t.root
  PROVE  \A k \in 0 .. Len(w.removed) : RemovedOK(t, w, Removals(t, w)[k], k)
<1>. DEFINE N == Len(w.removed)
            f == Removals(t, w)
            T == {k \in 0 .. N : ~RemovedOK(t, w, f[k], k)}
<1>0. N \in Nat
  BY WireFields
<1>1. f[0] = Start(t) /\ \A k \in 1 .. N : f[k] = RemoveEntry(f[k - 1], w.removed[k])
  BY <1>0, RemovalsIs
<1>. HIDE DEF f, N
<1>. SUFFICES ASSUME T # {}  PROVE FALSE
  BY DEF f, N
<1>2. PICK k \in T : \A m \in T : k <= m
  <2>1. T \in SUBSET Nat
    BY <1>0
  <2>. HIDE DEF T
  <2>. QED  BY <2>1, LeastNumber
<1>3. k \in 0 .. N /\ ~RemovedOK(t, w, f[k], k)
  BY <1>2
<1>4. k # 0
  BY <1>1, <1>3, StartOK
<1>5. k - 1 \in 0 .. N /\ k \in 1 .. N /\ ~(k <= k - 1) /\ k \in Nat
  BY <1>0, <1>3, <1>4
<1>6. k - 1 \notin T
  <2>. HIDE DEF T
  <2>. QED  BY <1>2, <1>5
<1>7. RemovedOK(t, w, f[k - 1], k - 1)
  BY <1>5, <1>6
<1>. HIDE DEF T
<1>8. PICK x, id : x = f[k - 1] /\ id = w.removed[k]
  BY Zenon
<1>9. f[k] = RemoveEntry(x, id)
  BY <1>1, <1>5, <1>8
<1>10. WorkOK(x) /\ x.verdict = "Ok" /\ x.root = Restrict(t.root, LeftAfter(t, w, k - 1))
  BY <1>7, <1>8 DEF RemovedOK
<1>11. id \in LeftAfter(t, w, k - 1) /\ LeftAfter(t, w, k) = LeftAfter(t, w, k - 1) \ {id}
  <2>1. \A n \in 1 .. k - 1 : n \in 1 .. N /\ n # k
    BY <1>0, <1>5
  <2>2. \A n \in 1 .. k - 1 : w.removed[n] # id
    BY <1>5, <1>8, <2>1, OrderedRises DEF N
  <2>3. id \in DOMAIN t.root
    BY <1>5, <1>8 DEF N
  <2>4. 1 .. k = (1 .. k - 1) \cup {k}
    BY <1>5
  <2>. QED  BY <1>8, <2>2, <2>3, <2>4 DEF LeftAfter
<1>12. DOMAIN x.root = LeftAfter(t, w, k - 1)
  BY <1>10 DEF Restrict
<1>13. /\ WorkOK(f[k]) /\ f[k].verdict = "Ok" /\ f[k].root = Drop(x.root, id)
  BY <1>9, <1>10, <1>11, <1>12, RemoveKeeps
<1>14. Drop(x.root, id) = Restrict(t.root, LeftAfter(t, w, k))
  <2>1. PICK D, r : D = LeftAfter(t, w, k - 1) /\ r = t.root
    BY Zenon
  <2>2. Drop(Restrict(r, D), id) = Restrict(r, D \ {id})
    BY DEF Drop, Restrict
  <2>. QED  BY <1>10, <1>11, <2>1, <2>2
<1>. QED  BY <1>3, <1>13, <1>14 DEF RemovedOK

-----------------------------------------------------------------------------
(* The second loop.                                                        *)

\* The ids of the first k upserts.
Done(w, k) == {w.upserted[n].id : n \in 1 .. k}

\* The tree `root' is `base' with the first k upserts.
RootAfter(base, w, root, k) ==
  /\ DOMAIN root = DOMAIN base \cup Done(w, k)
  /\ \A n \in 1 .. k : root[w.upserted[n].id] = w.upserted[n].leaf
  /\ \A i \in DOMAIN base \ Done(w, k) : root[i] = base[i]

\* One more upsert.
LEMMA RootGrows ==
  ASSUME NEW base, NEW w \in Wire, Ordered(w), NEW k \in 1 .. Len(w.upserted),
         NEW root, RootAfter(base, w, root, k - 1)
  PROVE  RootAfter(base, w, Put(root, w.upserted[k].id, w.upserted[k].leaf), k)
<1>. DEFINE id == w.upserted[k].id
            new == Put(root, id, w.upserted[k].leaf)
<1>1. 1 .. k = (1 .. k - 1) \cup {k} /\ k \notin 1 .. k - 1
  BY WireFields
<1>2. Done(w, k) = Done(w, k - 1) \cup {id}
  BY <1>1 DEF Done
<1>3. \A n \in 1 .. k - 1 : w.upserted[n].id # id
  <2>1. \A n \in 1 .. k - 1 : n \in 1 .. Len(w.upserted) /\ n # k
    BY WireFields
  <2>. QED  BY <2>1, OrderedRises
<1>4. /\ DOMAIN new = DOMAIN root \cup {id} /\ new[id] = w.upserted[k].leaf
      /\ \A i \in DOMAIN root \ {id} : new[i] = root[i]
  BY DEF Put
<1>. HIDE DEF new
<1>5. \A n \in 1 .. k - 1 : w.upserted[n].id \in DOMAIN root
  BY DEF RootAfter, Done
<1>6. DOMAIN new = DOMAIN base \cup Done(w, k)
  BY <1>2, <1>4 DEF RootAfter
<1>7. \A n \in 1 .. k : new[w.upserted[n].id] = w.upserted[n].leaf
  <2>1. \A n \in 1 .. k - 1 : new[w.upserted[n].id] = w.upserted[n].leaf
    BY <1>3, <1>4, <1>5 DEF RootAfter
  <2>. QED  BY <1>1, <1>4, <2>1
<1>8. \A i \in DOMAIN base \ Done(w, k) : new[i] = base[i]
  BY <1>2, <1>4 DEF RootAfter
<1>. QED  BY <1>6, <1>7, <1>8 DEF RootAfter, new

\* The root the delta leaves before its first upsert.
Base(t, w) == Restrict(t.root, LeftAfter(t, w, Len(w.removed)))

\* With all upserts, the tree is the one of the set form.
LEMMA RootIsPatch ==
  ASSUME NEW t, NEW w \in Wire, Ordered(w), NEW root \in Roots,
         RootAfter(Base(t, w), w, root, Len(w.upserted))
  PROVE  root = Patch(t.root, SetForm(w))
<1>. DEFINE d == SetForm(w)
            N == Len(w.upserted)
            base == Base(t, w)
<1>1. /\ d.removed = {w.removed[n] : n \in 1 .. Len(w.removed)}
      /\ DOMAIN d.upserted = {w.upserted[n].id : n \in 1 .. N}
      /\ \A n \in 1 .. N : d.upserted[w.upserted[n].id] = w.upserted[n].leaf
  BY SetFormIs
<1>. HIDE DEF d
<1>2. base = Restrict(t.root, DOMAIN t.root \ d.removed)
  BY <1>1 DEF Base, LeftAfter
<1>. HIDE DEF base
<1>3. Patch(t.root, d) = Overlay(base, d.upserted)
  BY <1>2 DEF Patch
<1>4. DOMAIN root = DOMAIN base \cup DOMAIN d.upserted
  BY <1>1 DEF RootAfter, Done, base
<1>5. \A i \in DOMAIN d.upserted : root[i] = d.upserted[i]
  BY <1>1 DEF RootAfter
<1>6. \A i \in DOMAIN base \ DOMAIN d.upserted : root[i] = base[i]
  BY <1>1 DEF RootAfter, Done, base
<1>7. root \in [DOMAIN root -> MemberLeaf]
  BY PartialFunction DEF Roots
<1>8. root = [i \in DOMAIN root |-> root[i]]
  BY <1>7
<1>9. root = Overlay(base, d.upserted)
  <2>1. \A i \in DOMAIN root :
          root[i] = IF i \in DOMAIN d.upserted THEN d.upserted[i] ELSE base[i]
    BY <1>4, <1>5, <1>6
  <2>. QED  BY <1>4, <1>8, <2>1 DEF Overlay
<1>. QED  BY <1>3, <1>9 DEF d

\* The upserts before entry k are those with smaller ids.
LEMMA DoneIsEarlier ==
  ASSUME NEW w \in Wire, Ordered(w), NEW k \in 1 .. Len(w.upserted)
  PROVE  Done(w, k - 1) = {i \in DOMAIN SetForm(w).upserted : i < w.upserted[k].id}
<1>. DEFINE N == Len(w.upserted)
            D == DOMAIN SetForm(w).upserted
<1>1. D = {w.upserted[n].id : n \in 1 .. N}
  BY SetFormIs
<1>. HIDE DEF D
<1>2. N \in Nat /\ \A n \in 1 .. N : w.upserted[n].id \in Nat
  BY WireFields
<1>3. \A n \in 1 .. k - 1 : n \in 1 .. N /\ n < k
  BY <1>2
<1>4. \A n \in 1 .. k - 1 : w.upserted[n].id < w.upserted[k].id
  BY <1>3, OrderedRises
<1>5. ASSUME NEW n \in 1 .. N, w.upserted[n].id < w.upserted[k].id
      PROVE  n \in 1 .. k - 1
  <2>1. n # k
    BY <1>2, <1>5
  <2>2. ~(k < n)
    <3>1. k < n => w.upserted[k].id < w.upserted[n].id
      BY OrderedRises
    <3>. QED  BY <1>2, <1>5, <3>1
  <2>. QED  BY <1>2, <2>1, <2>2
<1>. QED  BY <1>1, <1>3, <1>4, <1>5 DEF Done, D

\* The upsert u of d comes next: the upserts of the ids in `done' have made
\* `root' of the members that the removals left.
Entry(t, d, root, done, u) ==
  /\ d.removed \subseteq DOMAIN t.root
  /\ u.id \in DOMAIN d.upserted /\ u.id \notin d.removed
  /\ d.upserted[u.id] = u.leaf
  /\ done = {i \in DOMAIN d.upserted : i < u.id} /\ u.id \notin done
  /\ done \cap d.removed = {}
  /\ DOMAIN root = (DOMAIN t.root \ d.removed) \cup done
  /\ \A i \in done : root[i] = d.upserted[i]
  /\ \A i \in (DOMAIN t.root \ d.removed) \ done : root[i] = t.root[i]

\* The skeletons that the set form compares the new handle of id with.
Others(t, d, id) ==
  LET earlier == {j \in Rehandled(t, d) : j < id}
  IN (DOMAIN t.skeleton_index
        \ SkeletonsOf(t.root, Released(t, d, earlier \cup {id})))
     \cup SkeletonsOf(d.upserted, earlier)

\* The entry as the set form sees it.
LEMMA EntryIs ==
  ASSUME NEW t, TrieOK(t), NEW w \in Wire, Ordered(w), CanonicalDelta(t, SetForm(w)),
         NEW k \in 1 .. Len(w.upserted),
         NEW root, RootAfter(Base(t, w), w, root, k - 1)
  PROVE  Entry(t, SetForm(w), root, Done(w, k - 1), w.upserted[k])
<1>. DEFINE d == SetForm(w)
            N == Len(w.upserted)
            id == w.upserted[k].id
            done == Done(w, k - 1)
<1>1. /\ d.removed = {w.removed[n] : n \in 1 .. Len(w.removed)}
      /\ DOMAIN d.upserted = {w.upserted[n].id : n \in 1 .. N}
      /\ \A n \in 1 .. N : d.upserted[w.upserted[n].id] = w.upserted[n].leaf
  BY SetFormIs
<1>2. d.removed \subseteq DOMAIN t.root /\ d.removed \cap DOMAIN d.upserted = {}
  BY DEF CanonicalDelta
<1>. HIDE DEF d
<1>3. /\ DOMAIN Base(t, w) = DOMAIN t.root \ d.removed
      /\ \A i \in DOMAIN t.root \ d.removed : Base(t, w)[i] = t.root[i]
  BY <1>1 DEF Base, LeftAfter, Restrict
<1>4. \A n \in 1 .. k - 1 : n \in 1 .. N
  BY WireFields
<1>5. done \subseteq DOMAIN d.upserted /\ id \in DOMAIN d.upserted
  BY <1>1, <1>4 DEF Done
<1>12. done = {i \in DOMAIN d.upserted : i < id}
  BY DoneIsEarlier DEF d
<1>6. id \notin done
  <2>1. id \in Nat
    BY WireFields
  <2>. HIDE DEF done, id
  <2>. QED  BY <1>12, <2>1
<1>7. \A i \in done : root[i] = d.upserted[i]
  BY <1>1, <1>4 DEF RootAfter, Done
<1>8. DOMAIN root = (DOMAIN t.root \ d.removed) \cup done
  BY <1>3 DEF RootAfter
<1>9. \A i \in (DOMAIN t.root \ d.removed) \ done : root[i] = t.root[i]
  BY <1>3 DEF RootAfter
<1>10. d.upserted[id] = w.upserted[k].leaf
  BY <1>1
<1>. HIDE DEF done, id
<1>11. done \cap d.removed = {} /\ id \notin d.removed
  BY <1>2, <1>5
<1>. QED  BY <1>2, <1>5, <1>6, <1>7, <1>8, <1>9, <1>10, <1>11, <1>12, Zenon
          DEF Entry, d, id, done

\* The skeletons that the index holds, but for the entry's own old one, are the
\* ones the set form compares with.
LEMMA OthersSkeletons ==
  ASSUME NEW t, TrieOK(t), NEW d, NEW u, NEW done, NEW root,
         Entry(t, d, root, done, u), u.id \in Rehandled(t, d)
  PROVE  SkeletonsOf(root, DOMAIN root \ {u.id}) = Others(t, d, u.id)
<1>. DEFINE id == u.id
<1>0. /\ d.removed \subseteq DOMAIN t.root
      /\ id \notin d.removed /\ id \notin done /\ id \in Rehandled(t, d)
      /\ done = {i \in DOMAIN d.upserted : i < id}
      /\ done \cap d.removed = {}
      /\ DOMAIN root = (DOMAIN t.root \ d.removed) \cup done
      /\ \A i \in done : root[i] = d.upserted[i]
      /\ \A i \in (DOMAIN t.root \ d.removed) \ done : root[i] = t.root[i]
  BY DEF Entry
<1>. HIDE DEF id
<1>. USE <1>0
<1>. DEFINE earlier == {j \in Rehandled(t, d) : j < id}
            R == Released(t, d, earlier \cup {id})
            S == SkeletonsOf(t.root, DOMAIN t.root \ R)
            old == DOMAIN t.skeleton_index \ SkeletonsOf(t.root, R)
            new == SkeletonsOf(d.upserted, earlier)
            mine == SkeletonsOf(root, DOMAIN root \ {id})
<1>1. /\ DOMAIN t.skeleton_index = SkeletonsOf(t.root, DOMAIN t.root)
      /\ GenesisOk(t.root)
  BY TrieFields, AgreeDistinct DEF Agree
<1>2. Rehandled(t, d) \subseteq DOMAIN d.upserted
  BY DEF Rehandled
<1>3. earlier = Rehandled(t, d) \cap done
  BY <1>2
<1>4. R = d.removed \cup (Rehandled(t, d) \cap (done \cup {id}) \cap DOMAIN t.root)
  BY <1>3 DEF Released
<1>5. \A i \in DOMAIN d.upserted \ Rehandled(t, d) :
        i \in DOMAIN t.root /\ t.root[i].handle = d.upserted[i].handle
  BY DEF Rehandled
<1>6. done \subseteq DOMAIN d.upserted
  OBVIOUS
<1>. HIDE DEF R
<1>7. old = S
  <2>1. R \subseteq DOMAIN t.root
    BY <1>4
  <2>. QED  BY <1>1, <2>1 DEF SkeletonsOf, GenesisOk
<1>. HIDE DEF earlier, old
<1>8. ASSUME NEW i \in DOMAIN root \ {id}
      PROVE  Skeleton[root[i].handle] \in S \cup new
  <2>1. CASE i \in done /\ i \in Rehandled(t, d)
    BY <1>3, <2>1 DEF SkeletonsOf
  <2>2. CASE i \in done /\ i \notin Rehandled(t, d)
    <3>1. i \in DOMAIN t.root /\ t.root[i].handle = root[i].handle
      BY <1>5, <1>6, <2>2
    <3>2. i \notin R
      BY <1>4, <2>2
    <3>. QED  BY <3>1, <3>2 DEF SkeletonsOf
  <2>3. CASE i \notin done
    <3>1. i \in DOMAIN t.root /\ i \notin d.removed /\ root[i] = t.root[i]
      BY <2>3
    <3>2. i \notin R
      BY <1>4, <1>8, <2>3, <3>1
    <3>. QED  BY <3>1, <3>2 DEF SkeletonsOf
  <2>. QED  BY <2>1, <2>2, <2>3
<1>9. ASSUME NEW i \in DOMAIN t.root \ R
      PROVE  Skeleton[t.root[i].handle] \in mine
  <2>1. i # id /\ i \notin d.removed
    BY <1>4
  <2>2. i \in DOMAIN root
    BY <2>1
  <2>3. root[i].handle = t.root[i].handle
    <3>1. CASE i \in done
      <4>1. i \notin Rehandled(t, d)
        BY <1>4, <3>1
      <4>. QED  BY <1>5, <1>6, <3>1, <4>1
    <3>2. CASE i \notin done
      BY <2>1, <3>2
    <3>. QED  BY <3>1, <3>2
  <2>. QED  BY <2>1, <2>2, <2>3 DEF SkeletonsOf
<1>10. ASSUME NEW i \in earlier
       PROVE  Skeleton[d.upserted[i].handle] \in mine
  <2>1. i \in done /\ i # id
    BY <1>3
  <2>2. i \in DOMAIN root /\ root[i] = d.upserted[i]
    BY <2>1
  <2>. QED  BY <2>1, <2>2 DEF SkeletonsOf
<1>11. mine = S \cup new
  <2>1. mine \subseteq S \cup new
    <3>. HIDE DEF S, new
    <3>. QED  BY <1>8 DEF SkeletonsOf
  <2>2. S \subseteq mine
    <3>. HIDE DEF mine
    <3>. QED  BY <1>9 DEF SkeletonsOf
  <2>3. new \subseteq mine
    <3>. HIDE DEF mine
    <3>. QED  BY <1>10 DEF SkeletonsOf
  <2>. QED  BY <2>1, <2>2, <2>3
<1>. HIDE DEF mine, S, new
<1>12. mine = old \cup new
  BY <1>7, <1>11
<1>. QED  BY <1>12, Zenon DEF Others, mine, new, old, R, earlier, id

\* The look-up of an entry in the loop decides what the set form decides.
LEMMA EntryFits ==
  ASSUME NEW t, TrieOK(t), NEW d, NEW u, NEW done, NEW x, Entry(t, d, x.root, done, u)
  PROVE  Fits(x, u) <=> (u.id \in Rehandled(t, d) => UpsertAccepted(t, d, u.id))
<1>1. /\ u.id \in DOMAIN d.upserted /\ d.upserted[u.id] = u.leaf
      /\ u.id \in DOMAIN x.root <=> u.id \in DOMAIN t.root
      /\ u.id \in DOMAIN t.root => x.root[u.id] = t.root[u.id]
  BY DEF Entry
<1>2. NeedsCheck(x, u) <=> u.id \in Rehandled(t, d)
  BY <1>1 DEF NeedsCheck, Rehandled
<1>3. ASSUME u.id \in Rehandled(t, d)
      PROVE  Skeleton[u.leaf.handle] \notin SkeletonsOf(x.root, DOMAIN x.root \ {u.id})
               <=> UpsertAccepted(t, d, u.id)
  <2>1. SkeletonsOf(x.root, DOMAIN x.root \ {u.id}) = Others(t, d, u.id)
    BY <1>3, OthersSkeletons, Zenon
  <2>2. UpsertAccepted(t, d, u.id) <=> Skeleton[d.upserted[u.id].handle] \notin Others(t, d, u.id)
    BY DEF UpsertAccepted, Others
  <2>. QED  BY <1>1, <2>1, <2>2
<1>. QED  BY <1>2, <1>3 DEF Fits

\* The same for entry k of the vector.
LEMMA FitsIsAccepted ==
  ASSUME NEW t, TrieOK(t), NEW w \in Wire, Ordered(w), CanonicalDelta(t, SetForm(w)),
         NEW k \in 1 .. Len(w.upserted),
         NEW x, RootAfter(Base(t, w), w, x.root, k - 1)
  PROVE  Fits(x, w.upserted[k]) <=>
           (w.upserted[k].id \in Rehandled(t, SetForm(w)) =>
              UpsertAccepted(t, SetForm(w), w.upserted[k].id))
<1>1. Entry(t, SetForm(w), x.root, Done(w, k - 1), w.upserted[k])
  BY EntryIs, Zenon
<1>. QED  BY <1>1, EntryFits, Zenon

\* What the set form says of entry n.
Accepts(t, w, n) ==
  w.upserted[n].id \in Rehandled(t, SetForm(w)) =>
    UpsertAccepted(t, SetForm(w), w.upserted[n].id)

\* After k upserts the loop runs exactly if the set form accepts all of them, and
\* then its work is in order.
UpsertOK(t, w, x, k) ==
  /\ x \in Work
  /\ x.verdict = "Ok" <=> \A n \in 1 .. k : Accepts(t, w, n)
  /\ x.verdict = "Ok" => WorkOK(x) /\ RootAfter(Base(t, w), w, x.root, k)

\* The second loop starts where the first one ends.
LEMMA UpsertStart ==
  ASSUME NEW t, TrieOK(t), NEW w \in Wire, Ordered(w), CanonicalDelta(t, SetForm(w))
  PROVE  UpsertOK(t, w, Removals(t, w)[Len(w.removed)], 0)
<1>. DEFINE N == Len(w.removed)
            x == Removals(t, w)[N]
<1>1. N \in Nat /\ N \in 0 .. N
  BY WireFields
<1>2. \A n \in 1 .. N : w.removed[n] \in DOMAIN t.root
  BY SetFormIs DEF CanonicalDelta
<1>3. RemovedOK(t, w, x, N)
  BY <1>1, <1>2, RemovalLoop
<1>. HIDE DEF x
<1>4. WorkOK(x) /\ x \in Work /\ x.verdict = "Ok" /\ x.root = Base(t, w)
  BY <1>3 DEF RemovedOK, Base, WorkOK
<1>5. 1 .. 0 = {}
  OBVIOUS
<1>6. Done(w, 0) = {}
  BY <1>5 DEF Done
<1>7. RootAfter(Base(t, w), w, x.root, 0)
  BY <1>4, <1>5, <1>6 DEF RootAfter
<1>. QED  BY <1>4, <1>5, <1>7 DEF UpsertOK, x

\* One entry of the second loop.
LEMMA UpsertStep ==
  ASSUME NEW t, TrieOK(t), NEW w \in Wire, Ordered(w), CanonicalDelta(t, SetForm(w)),
         NEW k \in 1 .. Len(w.upserted),
         NEW x, UpsertOK(t, w, x, k - 1)
  PROVE  UpsertOK(t, w, UpsertEntry(x, w.upserted[k]), k)
<1>. DEFINE u == w.upserted[k]
            y == UpsertEntry(x, u)
<1>1. 1 .. k = (1 .. k - 1) \cup {k}
  BY WireFields
<1>2. (\A n \in 1 .. k : Accepts(t, w, n))
        <=> (\A n \in 1 .. k - 1 : Accepts(t, w, n)) /\ Accepts(t, w, k)
  BY <1>1
<1>3. CASE x.verdict # "Ok"
  <2>1. y = x
    BY <1>3, StoppedStays
  <2>2. x \in Work /\ ~\A n \in 1 .. k : Accepts(t, w, n)
    BY <1>2, <1>3 DEF UpsertOK
  <2>. HIDE DEF y
  <2>3. UpsertOK(t, w, y, k)
    BY <1>3, <2>1, <2>2 DEF UpsertOK
  <2>. QED  BY <2>3 DEF y
<1>4. CASE x.verdict = "Ok"
  <2>1. /\ WorkOK(x) /\ RootAfter(Base(t, w), w, x.root, k - 1)
        /\ \A n \in 1 .. k - 1 : Accepts(t, w, n)
    BY <1>4 DEF UpsertOK
  <2>2. u \in Upsert
    BY WireFields
  <2>3. /\ Fits(x, u) => WorkOK(y) /\ y.verdict = "Ok" /\ y.root = Put(x.root, u.id, u.leaf)
        /\ ~Fits(x, u) => y \in Work /\ y.verdict \in Collisions
    BY <1>4, <2>1, <2>2, UpsertKeeps
  <2>4. Fits(x, u) <=> Accepts(t, w, k)
    BY <2>1, FitsIsAccepted DEF Accepts
  <2>5. RootAfter(Base(t, w), w, Put(x.root, u.id, u.leaf), k)
    BY <2>1, RootGrows
  <2>. HIDE DEF y, u
  <2>6. UpsertOK(t, w, y, k)
    <3>1. CASE Fits(x, u)
      <4>1. WorkOK(y) /\ y \in Work /\ y.verdict = "Ok" /\ y.root = Put(x.root, u.id, u.leaf)
        BY <2>3, <3>1 DEF WorkOK
      <4>. QED  BY <1>2, <2>1, <2>4, <2>5, <3>1, <4>1 DEF UpsertOK
    <3>2. CASE ~Fits(x, u)
      <4>1. y \in Work /\ y.verdict # "Ok"
        BY <2>3, <3>2 DEF Collisions
      <4>. QED  BY <1>2, <2>4, <3>2, <4>1 DEF UpsertOK
    <3>. QED  BY <3>1, <3>2
  <2>. QED  BY <2>6 DEF y, u
<1>. QED  BY <1>3, <1>4

\* After any number of entries.
LEMMA UpsertLoop ==
  ASSUME NEW t, TrieOK(t), NEW w \in Wire, Ordered(w), CanonicalDelta(t, SetForm(w))
  PROVE  UpsertOK(t, w, RunLoops(t, w), Len(w.upserted))
<1>. DEFINE N == Len(w.upserted)
            start == Removals(t, w)[Len(w.removed)]
            f == Upserts(start, w)
            T == {k \in 0 .. N : ~UpsertOK(t, w, f[k], k)}
<1>0. N \in Nat
  BY WireFields
<1>1. f[0] = start /\ \A k \in 1 .. N : f[k] = UpsertEntry(f[k - 1], w.upserted[k])
  <2>. HIDE DEF start
  <2>. QED  BY <1>0, UpsertsIs
<1>2. RunLoops(t, w) = f[N]
  BY DEF RunLoops
<1>3. UpsertOK(t, w, start, 0)
  BY UpsertStart
<1>. HIDE DEF f, start
<1>4. T = {}
  <2>. SUFFICES ASSUME T # {}  PROVE FALSE
    OBVIOUS
  <2>1. PICK k \in T : \A m \in T : k <= m
    <3>1. T \in SUBSET Nat
      BY <1>0
    <3>. HIDE DEF T
    <3>. QED  BY <3>1, LeastNumber
  <2>2. k \in 0 .. N /\ ~UpsertOK(t, w, f[k], k)
    BY <2>1
  <2>3. k # 0
    BY <1>1, <1>3, <2>2
  <2>4. k - 1 \in 0 .. N /\ k \in 1 .. N /\ ~(k <= k - 1)
    BY <1>0, <2>2, <2>3
  <2>5. k - 1 \notin T
    <3>. HIDE DEF T
    <3>. QED  BY <2>1, <2>4
  <2>6. UpsertOK(t, w, f[k - 1], k - 1)
    BY <2>4, <2>5
  <2>. HIDE DEF T
  <2>7. UpsertOK(t, w, UpsertEntry(f[k - 1], w.upserted[k]), k)
    BY <2>4, <2>6, UpsertStep
  <2>. QED  BY <1>1, <2>2, <2>4, <2>7
<1>5. N \in 0 .. N
  BY <1>0
<1>. QED  BY <1>2, <1>4, <1>5

-----------------------------------------------------------------------------
(* Verdict and candidate.                                                  *)

\* For ordered vectors the checks of validate_canonical_delta are those of the
\* set form.
LEMMA ValidateIs ==
  ASSUME NEW t, NEW w \in Wire
  PROVE  ValidateCanonicalDelta(t, w) <=> Ordered(w) /\ CanonicalDelta(t, SetForm(w))
<1>1. CASE ~Ordered(w)
  BY <1>1 DEF ValidateCanonicalDelta, Ordered
<1>2. CASE Ordered(w)
  <2>. DEFINE d == SetForm(w)
              N == Len(w.upserted)
  <2>1. /\ d.removed = {w.removed[n] : n \in 1 .. Len(w.removed)}
        /\ DOMAIN d.upserted = {w.upserted[n].id : n \in 1 .. N}
        /\ \A n \in 1 .. N : d.upserted[w.upserted[n].id] = w.upserted[n].leaf
    BY <1>2, SetFormIs
  <2>2. DOMAIN w.removed = 1 .. Len(w.removed) /\ DOMAIN w.upserted = 1 .. N
    BY WireFields
  <2>3. Range(w.removed) = d.removed
    BY <2>1, <2>2 DEF Range
  <2>4. Range(Ids(w.upserted)) = DOMAIN d.upserted
    BY <2>1, <2>2 DEF Range, Ids
  <2>5. Range(w.upserted) = {w.upserted[n] : n \in 1 .. N}
    BY <2>2 DEF Range
  <2>. HIDE DEF d
  <2>6. (\A u \in Range(w.upserted) : u.id \in DOMAIN t.root => t.root[u.id] # u.leaf)
          <=> (\A i \in DOMAIN d.upserted \cap DOMAIN t.root : d.upserted[i] # t.root[i])
    <3>1. (\A u \in Range(w.upserted) : u.id \in DOMAIN t.root => t.root[u.id] # u.leaf)
            <=> \A n \in 1 .. N : w.upserted[n].id \in DOMAIN t.root =>
                                    t.root[w.upserted[n].id] # w.upserted[n].leaf
      BY <2>5
    <3>. QED  BY <2>1, <3>1
  <2>7. ValidateCanonicalDelta(t, w) <=> CanonicalDelta(t, d)
    BY <1>2, <2>3, <2>4, <2>6, Zenon DEF ValidateCanonicalDelta, CanonicalDelta, Ordered
  <2>. QED  BY <1>2, <2>7 DEF d
<1>. QED  BY <1>1, <1>2

\* The loops stop exactly when the set form finds a collision.
LEMMA LoopVerdict ==
  ASSUME NEW t, TrieOK(t), NEW w \in Wire, Ordered(w), CanonicalDelta(t, SetForm(w))
  PROVE  LET d == SetForm(w)
             x == RunLoops(t, w) IN
         /\ x \in Work
         /\ x.verdict = "Ok" <=> \A i \in Rehandled(t, d) : UpsertAccepted(t, d, i)
<1>1. PICK d, x : d = SetForm(w) /\ x = RunLoops(t, w)
  BY Zenon
<1>2. /\ x \in Work
      /\ x.verdict = "Ok" <=> \A n \in 1 .. Len(w.upserted) : Accepts(t, w, n)
  BY <1>1, UpsertLoop DEF UpsertOK
<1>3. DOMAIN d.upserted = {w.upserted[n].id : n \in 1 .. Len(w.upserted)}
  BY <1>1, SetFormIs
<1>4. Rehandled(t, d) \subseteq DOMAIN d.upserted
  BY DEF Rehandled
<1>5. (\A n \in 1 .. Len(w.upserted) : Accepts(t, w, n))
        <=> \A i \in Rehandled(t, d) : UpsertAccepted(t, d, i)
  BY <1>1, <1>3, <1>4 DEF Accepts
<1>. QED  BY <1>1, <1>2, <1>5

\* The verdicts of the loops and of the set form.
LEMMA WireVerdicts ==
  ASSUME NEW t, TrieOK(t), NEW w \in Wire
  PROVE  LET verdict == ApplyDeltaVerdict(t, SetForm(w)) IN
         /\ (WireVerdict(t, w) = "Ok") <=> (Ordered(w) /\ verdict = "Ok")
         /\ Ordered(w) =>
              \/ WireVerdict(t, w) = verdict
              \/ /\ verdict = "HandleCollision"
                 /\ WireVerdict(t, w) \in {"ConfusableHandle", "DuplicateHandle"}
<1>1. CASE ~Ordered(w)
  <2>1. ~ValidateCanonicalDelta(t, w)
    BY <1>1, ValidateIs
  <2>2. WireVerdict(t, w) # "Ok"
    BY <2>1 DEF WireVerdict
  <2>. QED  BY <1>1, <2>2
<1>2. CASE Ordered(w)
  <2>1. PICK d, x : d = SetForm(w) /\ x = RunLoops(t, w)
    BY Zenon
  <2>2. d.base_root = w.base_root
    BY <1>2, <2>1, SetFormIs
  <2>3. ValidateCanonicalDelta(t, w) <=> CanonicalDelta(t, d)
    BY <1>2, <2>1, ValidateIs
  <2>4. CanonicalDelta(t, d) =>
          /\ x.verdict \in {"Ok", "ConfusableHandle", "DuplicateHandle"}
          /\ x.verdict = "Ok" <=> \A i \in Rehandled(t, d) : UpsertAccepted(t, d, i)
    <3>. SUFFICES ASSUME CanonicalDelta(t, d)
                  PROVE  /\ x.verdict \in {"Ok", "ConfusableHandle", "DuplicateHandle"}
                         /\ x.verdict = "Ok" <=> \A i \in Rehandled(t, d) : UpsertAccepted(t, d, i)
      OBVIOUS
    <3>1. /\ x \in Work
          /\ x.verdict = "Ok" <=> \A i \in Rehandled(t, d) : UpsertAccepted(t, d, i)
      BY <1>2, <2>1, LoopVerdict
    <3>2. x.verdict \in {"Ok"} \cup Collisions
      BY <3>1, WorkFields
    <3>. QED  BY <3>1, <3>2 DEF Collisions
  <2>5. WireVerdict(t, w) =
          IF t.cached_root_hash = NoHash THEN "HashesNotCalculated"
          ELSE IF t.cached_root_hash # {d.base_root} THEN "DeltaBaseMismatch"
          ELSE IF ~CanonicalDelta(t, d) THEN "MalformedDelta"
          ELSE x.verdict
    BY <2>1, <2>2, <2>3 DEF WireVerdict
  <2>6. ApplyDeltaVerdict(t, d) =
          IF t.cached_root_hash = NoHash THEN "HashesNotCalculated"
          ELSE IF t.cached_root_hash # {d.base_root} THEN "DeltaBaseMismatch"
          ELSE IF ~CanonicalDelta(t, d) THEN "MalformedDelta"
          ELSE IF \A i \in Rehandled(t, d) : UpsertAccepted(t, d, i) THEN "Ok"
          ELSE "HandleCollision"
    BY DEF ApplyDeltaVerdict
  <2>. QED  BY <1>2, <2>1, <2>4, <2>5, <2>6
<1>. QED  BY <1>1, <1>2

\* An accepted delta makes the trie that genesis builds of the patched members,
\* in the loops and in the set form.
LEMMA WireCandidates ==
  ASSUME NEW t, TrieOK(t), NEW w \in Wire, WireVerdict(t, w) = "Ok"
  PROVE  LET root == Patch(t.root, SetForm(w)) IN
         /\ root \in Roots /\ GenesisOk(root)
         /\ WireCandidate(t, w) = Genesis(root)
         /\ ApplyDelta(t, SetForm(w)) = Genesis(root)
<1>1. PICK d, x : d = SetForm(w) /\ x = RunLoops(t, w)
  BY Zenon
<1>2. Ordered(w) /\ ApplyDeltaVerdict(t, d) = "Ok"
  BY <1>1, WireVerdicts
<1>3. CanonicalDelta(t, d) /\ \A i \in Rehandled(t, d) : UpsertAccepted(t, d, i)
  BY <1>2, ApplyAccepted
<1>4. UpsertOK(t, w, x, Len(w.upserted)) /\ x.verdict = "Ok"
  <2>1. x.verdict = "Ok"
    BY <1>1, <1>2, <1>3, LoopVerdict
  <2>. QED  BY <1>1, <1>2, <1>3, <2>1, UpsertLoop
<1>5. WorkOK(x) /\ RootAfter(Base(t, w), w, x.root, Len(w.upserted))
  BY <1>4 DEF UpsertOK
<1>6. /\ x \in Work /\ x.root \in Roots
      /\ Agree(x.root, x.handle_index, x.skeleton_index)
      /\ x.count = Cardinality(DOMAIN x.root)
  BY <1>5, WorkFields DEF WorkOK
<1>7. x.root = Patch(t.root, d)
  BY <1>1, <1>2, <1>5, <1>6, RootIsPatch
<1>8. GenesisOk(x.root)
  BY <1>6, AgreeDistinct
<1>9. x.handle_index = HandleIndexOf(x.root) /\ x.skeleton_index = SkeletonIndexOf(x.root)
  BY <1>6, WorkFields, AgreeUnique
<1>10. WireCandidate(t, w) = Genesis(x.root)
  BY <1>1, <1>6, <1>9 DEF WireCandidate, Genesis
<1>11. ApplyDelta(t, d) = Genesis(x.root)
  <2>1. PICK c : c = ApplyDelta(t, d)
    BY Zenon
  <2>2. d \in Delta
    BY <1>1, <1>2, SetFormIs
  <2>3. /\ c.root \in Roots
        /\ c.handle_index \in PartialFunctions(Handles, MemberIds)
        /\ c.skeleton_index \in PartialFunctions(Skeletons, Handles)
        /\ Agree(c.root, c.handle_index, c.skeleton_index)
    BY <1>3, <2>1, <2>2, ApplyAgrees
  <2>4. c.handle_index = HandleIndexOf(c.root) /\ c.skeleton_index = SkeletonIndexOf(c.root)
    BY <2>3, AgreeUnique
  <2>5. c = [root                 |-> Patch(t.root, d),
             member_count         |-> t.member_count - Cardinality(d.removed)
                                        + Cardinality(DOMAIN d.upserted \ DOMAIN t.root),
             cached_root_hash     |-> {RootHash(Patch(t.root, d))},
             last_calculated_root |-> Patch(t.root, d),
             skeleton_index       |-> c.skeleton_index,
             handle_index         |-> c.handle_index]
    BY <2>1 DEF ApplyDelta
  <2>6. c.root = x.root
    BY <1>7, <2>5
  <2>7. t.member_count - Cardinality(d.removed)
          + Cardinality(DOMAIN d.upserted \ DOMAIN t.root) = Cardinality(DOMAIN x.root)
    BY <1>3, <1>7, <2>2, ApplyCount
  <2>8. c = Genesis(x.root)
    BY <1>7, <2>4, <2>5, <2>6, <2>7, Zenon DEF Genesis
  <2>. QED  BY <2>1, <2>8
<1>. QED  BY <1>1, <1>6, <1>7, <1>8, <1>10, <1>11

-----------------------------------------------------------------------------
(* The receiver.                                                           *)

\* The receiver holds a trie with a cached hash, and at most one delta.
WireInv ==
  /\ local.root \in Roots /\ AcceptedTrieIsGenesis
  /\ wire = <<>> \/ \E w \in Wire : wire = <<w>>

\* Its trie is one whose indexes, count and hash can be trusted.
LEMMA LocalTrie ==
  ASSUME WireInv
  PROVE  TrieOK(local)
<1>1. PICK t, root : t = local /\ root = local.root
  BY Zenon
<1>2. TrieOK(Genesis(root))
  BY <1>1, GenesisTrie DEF WireInv, AcceptedTrieIsGenesis
<1>. QED  BY <1>1, <1>2 DEF WireInv, AcceptedTrieIsGenesis

\* What Arrive puts on the wire.
LEMMA Arrived ==
  ASSUME NEW base \in Roots,
         NEW removed \in BoundedSeq(MemberIds, MaxEntries),
         NEW upserted \in BoundedSeq(Upsert, MaxEntries)
  PROVE  [base_root |-> base, removed |-> removed, upserted |-> upserted] \in Wire
<1>1. PICK m \in 0 .. MaxEntries : removed \in [1 .. m -> MemberIds]
  BY DEF BoundedSeq, SeqOf
<1>2. PICK n \in 0 .. MaxEntries : upserted \in [1 .. n -> Upsert]
  BY DEF BoundedSeq, SeqOf
<1>3. m \in Nat /\ n \in Nat
  BY MaxEntriesAssumption
<1>4. removed \in Seq(MemberIds)
  BY <1>1, <1>3
<1>5. upserted \in Seq(Upsert)
  BY <1>2, <1>3
<1>. QED  BY <1>4, <1>5 DEF Wire

\* Every step of the receiver keeps the invariant.
LEMMA WireInvStep ==
  ASSUME WireInv, [Next]_wireVars
  PROVE  WireInv'
<1>1. CASE Arrive
  <2>1. PICK own \in BOOLEAN, removed \in BoundedSeq(MemberIds, MaxEntries),
             upserted \in BoundedSeq(Upsert, MaxEntries) :
          wire' = <<[base_root |-> IF own THEN local.root ELSE <<>>,
                     removed |-> removed, upserted |-> upserted]>>
    BY <1>1 DEF Arrive
  <2>2. PICK base : base = IF own THEN local.root ELSE <<>>
    BY Zenon
  <2>3. <<>> \in Roots
    <3>1. DOMAIN <<>> = {} /\ <<>> \in [{} -> MemberLeaf]
      OBVIOUS
    <3>. QED  BY <3>1, PartialFunction DEF Roots
  <2>4. base \in Roots
    BY <2>2, <2>3 DEF WireInv
  <2>5. PICK w : w = [base_root |-> base, removed |-> removed, upserted |-> upserted]
    BY Zenon
  <2>6. w \in Wire
    BY <2>4, <2>5, Arrived
  <2>7. wire' = <<w>>
    BY <2>1, <2>2, <2>5
  <2>8. local' = local
    BY <1>1 DEF Arrive
  <2>. QED  BY <2>6, <2>7, <2>8 DEF WireInv, AcceptedTrieIsGenesis
<1>2. CASE Accept
  <2>1. wire # <<>> /\ WireVerdict(local, wire[1]) = "Ok"
        /\ local' = WireCandidate(local, wire[1]) /\ wire' = <<>>
    BY <1>2 DEF Accept
  <2>2. PICK w \in Wire : wire = <<w>>
    BY <2>1 DEF WireInv
  <2>3. PICK t, new, root : t = local /\ new = local' /\ root = Patch(local.root, SetForm(w))
    BY Zenon
  <2>4. TrieOK(t) /\ WireVerdict(t, w) = "Ok" /\ new = WireCandidate(t, w)
    BY <2>1, <2>2, <2>3, LocalTrie
  <2>5. root \in Roots /\ GenesisOk(root) /\ new = Genesis(root)
    BY <2>3, <2>4, WireCandidates
  <2>6. new.root = root
    BY <2>5 DEF Genesis
  <2>. QED  BY <2>1, <2>3, <2>5, <2>6 DEF WireInv, AcceptedTrieIsGenesis
<1>3. CASE Reject
  <2>1. local' = local /\ wire' = <<>>
    BY <1>3 DEF Reject
  <2>. QED  BY <2>1 DEF WireInv, AcceptedTrieIsGenesis
<1>4. CASE UNCHANGED wireVars
  BY <1>4 DEF wireVars, WireInv, AcceptedTrieIsGenesis
<1>. QED  BY <1>1, <1>2, <1>3, <1>4 DEF Next

LEMMA WireInvInit ==
  ASSUME Init
  PROVE  WireInv
<1>1. PICK root \in Roots : GenesisOk(root) /\ local = Genesis(root)
  BY DEF Init
<1>2. local.root = root
  BY <1>1 DEF Genesis
<1>3. wire = <<>>
  BY DEF Init
<1>. QED  BY <1>1, <1>2, <1>3 DEF WireInv, AcceptedTrieIsGenesis

\* The invariant of the receiver, whatever arrives.
LEMMA WireInvHolds == Spec => []WireInv
<1>1. Init => WireInv
  BY WireInvInit
<1>2. WireInv /\ [Next]_wireVars => WireInv'
  BY WireInvStep
<1>. QED  BY <1>1, <1>2, PTL DEF Spec

\* Whatever a sender puts in the vectors of a delta, the trie that apply_delta
\* and verify_against hand over is the one genesis builds of its members, so its
\* handles are unique and its indexes, count and cached hash are exact.
THEOREM AcceptedTriesAreGenesis == Spec => []AcceptedTrieIsGenesis
<1>1. WireInv => AcceptedTrieIsGenesis
  BY DEF WireInv
<1>. QED  BY <1>1, WireInvHolds, PTL

\* On vectors of any length, order and content the loops of apply_delta reach the
\* verdict of the set form and, when they accept, its candidate.
THEOREM LoopsAreSetForm == Spec => []LoopsMatchSetForm
<1>1. WireInv => LoopsMatchSetForm
  <2>. SUFFICES ASSUME WireInv, NEW w \in Range(wire)
                PROVE  LET ordered == StrictlyIncreasing(w.removed)
                                        /\ StrictlyIncreasing(Ids(w.upserted))
                           verdict == ApplyDeltaVerdict(local, SetForm(w))
                       IN /\ (WireVerdict(local, w) = "Ok") <=> (ordered /\ verdict = "Ok")
                          /\ ordered =>
                               \/ WireVerdict(local, w) = verdict
                               \/ /\ verdict = "HandleCollision"
                                  /\ WireVerdict(local, w)
                                       \in {"ConfusableHandle", "DuplicateHandle"}
                          /\ WireVerdict(local, w) = "Ok" =>
                               WireCandidate(local, w) = ApplyDelta(local, SetForm(w))
    BY Zenon DEF LoopsMatchSetForm
  <2>1. w \in Wire
    BY DEF WireInv, Range
  <2>2. PICK t : t = local
    BY Zenon
  <2>3. TrieOK(t)
    BY <2>2, LocalTrie
  <2>4. /\ (WireVerdict(t, w) = "Ok")
             <=> (Ordered(w) /\ ApplyDeltaVerdict(t, SetForm(w)) = "Ok")
        /\ Ordered(w) =>
             \/ WireVerdict(t, w) = ApplyDeltaVerdict(t, SetForm(w))
             \/ /\ ApplyDeltaVerdict(t, SetForm(w)) = "HandleCollision"
                /\ WireVerdict(t, w) \in {"ConfusableHandle", "DuplicateHandle"}
    BY <2>1, <2>3, WireVerdicts
  <2>5. WireVerdict(t, w) = "Ok" => WireCandidate(t, w) = ApplyDelta(t, SetForm(w))
    BY <2>1, <2>3, WireCandidates
  <2>. QED  BY <2>2, <2>4, <2>5 DEF Ordered
<1>. QED  BY <1>1, WireInvHolds, PTL

-----------------------------------------------------------------------------
(* Positions.  The leaves below position p of level k are those whose      *)
(* prefix of level k is p.                                                 *)

\* A prefix halves from level to level, and the bit read on the way down says
\* which half it is.
LEMMA PrefixHalves ==
  ASSUME NEW i \in Nat
  PROVE  /\ \A k \in 0 .. SmtDepth : Prefix(i)[k] \in Nat
         /\ \A k \in 1 .. SmtDepth :
              /\ Prefix(i)[k] = Prefix(i)[k - 1] \div 2
              /\ Prefix(i)[k - 1] = IF Bit(i, SmtDepth - k) THEN 2 * Prefix(i)[k] + 1
                                                           ELSE 2 * Prefix(i)[k]
<1>. DEFINE T == {k \in 0 .. SmtDepth : Prefix(i)[k] \in Nat}
<1>1. PICK f : f = Prefix(i)
  OBVIOUS
<1>2. f[0] = i /\ \A k \in 1 .. SmtDepth : f[k] = f[k - 1] \div 2
  BY <1>1, PrefixIs
<1>3. \A k \in 0 .. SmtDepth : k \in T
  <2>1. 0 \in T
    BY <1>1, <1>2, SmtDepthAssumption
  <2>2. ASSUME NEW k \in 0 .. SmtDepth - 1, k \in T  PROVE k + 1 \in T
    <3>1. f[k] \in Nat /\ k + 1 \in 1 .. SmtDepth /\ (k + 1) - 1 = k
      BY <1>1, <2>2, SmtDepthAssumption
    <3>2. f[k + 1] \in Nat
      BY <1>2, <3>1
    <3>. QED  BY <1>1, <3>1, <3>2
  <2>. HIDE DEF T
  <2>. QED  BY <2>1, <2>2, Induction, SmtDepthAssumption
<1>4. ASSUME NEW k \in 1 .. SmtDepth
      PROVE  f[k - 1] = IF Bit(i, SmtDepth - k) THEN 2 * f[k] + 1 ELSE 2 * f[k]
  <2>1. SmtDepth - (SmtDepth - k) - 1 = k - 1 /\ k - 1 \in 0 .. SmtDepth
    BY SmtDepthAssumption
  <2>2. Bit(i, SmtDepth - k) <=> f[k - 1] % 2 = 1
    BY <1>1, <2>1 DEF Bit
  <2>3. f[k - 1] \in Nat /\ f[k] = f[k - 1] \div 2
    BY <1>1, <1>2, <1>3, <2>1
  <2>. QED  BY <2>2, <2>3
<1>. QED  BY <1>1, <1>2, <1>3, <1>4

\* The position above another.
LEMMA PrefixAbove ==
  ASSUME NEW i \in Nat, NEW k \in 1 .. SmtDepth, NEW p \in Nat
  PROVE  (Prefix(i)[k] = p) <=> (Prefix(i)[k - 1] = 2 * p \/ Prefix(i)[k - 1] = 2 * p + 1)
<1>1. PICK a, b : a = Prefix(i)[k] /\ b = Prefix(i)[k - 1]
  OBVIOUS
<1>2. k \in 0 .. SmtDepth /\ k - 1 \in 0 .. SmtDepth
  BY SmtDepthAssumption
<1>3. b \in Nat /\ a = b \div 2
  BY <1>1, <1>2, PrefixHalves, Zenon
<1>. QED  BY <1>1, <1>3

\* The order of the prefixes is the order of the ids.
LEMMA PrefixOrder ==
  ASSUME NEW i \in Nat, NEW j \in Nat, NEW k \in 0 .. SmtDepth,
         Prefix(i)[k] < Prefix(j)[k]
  PROVE  i < j
<1>. DEFINE T == {n \in 0 .. SmtDepth : Prefix(i)[n] < Prefix(j)[n] => i < j}
<1>1. 0 \in T
  BY PrefixIs, SmtDepthAssumption
<1>2. ASSUME NEW n \in 0 .. SmtDepth - 1, n \in T  PROVE n + 1 \in T
  <2>1. PICK a, b, c, d : /\ a = Prefix(i)[n] /\ b = Prefix(j)[n]
                          /\ c = Prefix(i)[n + 1] /\ d = Prefix(j)[n + 1]
    OBVIOUS
  <2>2. n + 1 \in 1 .. SmtDepth /\ (n + 1) - 1 = n /\ n \in 0 .. SmtDepth /\ n + 1 \in 0 .. SmtDepth
    BY SmtDepthAssumption
  <2>3. a \in Nat /\ b \in Nat /\ c = a \div 2 /\ d = b \div 2
    BY <2>1, <2>2, PrefixHalves, ZenonT(30)
  <2>4. c < d => a < b
    BY <2>3
  <2>5. a < b => i < j
    BY <2>1, <1>2
  <2>. QED  BY <2>1, <2>2, <2>4, <2>5
<1>3. k \in T
  <2>. HIDE DEF T
  <2>. QED  BY <1>1, <1>2, Induction, SmtDepthAssumption
<1>. QED  BY <1>3

\* An id of the right length stands below the root.
LEMMA AllIdsPrefix == \A i \in AllIds : i \in Nat /\ Prefix(i)[SmtDepth] = 0
<1>1. ASSUME NEW i \in Nat, NEW n \in 0 .. SmtDepth - 1, NEW b \in {2 * i, 2 * i + 1}
      PROVE  Prefix(b)[n + 1] = Prefix(i)[n]
  <2>. DEFINE T == {k \in Nat : k + 1 \in 0 .. SmtDepth => Prefix(b)[k + 1] = Prefix(i)[k]}
  <2>1. b \in Nat /\ b \div 2 = i
    OBVIOUS
  <2>2. 0 \in T
    <3>1. Prefix(b)[0] = b /\ Prefix(i)[0] = i
          /\ (1 \in 1 .. SmtDepth => Prefix(b)[1] = Prefix(b)[1 - 1] \div 2)
      BY PrefixIs
    <3>2. 0 + 1 = 1 /\ 1 - 1 = 0 /\ (1 \in 0 .. SmtDepth => 1 \in 1 .. SmtDepth)
      OBVIOUS
    <3>3. 0 + 1 \in 0 .. SmtDepth => Prefix(b)[0 + 1] = Prefix(i)[0]
      BY <2>1, <3>1, <3>2
    <3>. QED  BY <3>3
  <2>3. ASSUME NEW k \in 0 .. n - 1, k \in T  PROVE k + 1 \in T
    <3>1. k + 1 \in Nat /\ (k + 1) + 1 \in 1 .. SmtDepth /\ k + 1 \in 1 .. SmtDepth
          /\ k + 1 \in 0 .. SmtDepth /\ ((k + 1) + 1) - 1 = k + 1 /\ (k + 1) - 1 = k
      BY SmtDepthAssumption
    <3>2. Prefix(b)[k + 1] = Prefix(i)[k]
      BY <2>3, <3>1
    <3>3. Prefix(b)[(k + 1) + 1] = Prefix(b)[k + 1] \div 2 /\ Prefix(i)[k + 1] = Prefix(i)[k] \div 2
      BY <3>1, PrefixIs
    <3>4. Prefix(b)[(k + 1) + 1] = Prefix(i)[k + 1]
      BY <3>2, <3>3, Zenon
    <3>. QED  BY <3>1, <3>4
  <2>4. n \in Nat /\ n \in 0 .. n
    OBVIOUS
  <2>5. n \in T
    <3>. HIDE DEF T
    <3>. QED  BY <2>2, <2>3, <2>4, Induction
  <2>. QED  BY <2>5, SmtDepthAssumption
<1>. DEFINE T == {n \in Nat : \A i \in IdsOfBits[n] : i \in Nat /\ Prefix(i)[n] = 0}
<1>2. 0 \in T
  BY IdsOfBitsIs, PrefixIs
<1>3. ASSUME NEW n \in 0 .. SmtDepth - 1, n \in T  PROVE n + 1 \in T
  <2>1. n + 1 \in Nat /\ n + 1 \in 1 .. SmtDepth /\ (n + 1) - 1 = n
    BY SmtDepthAssumption
  <2>2. IdsOfBits[n + 1] = UNION {{2 * i, 2 * i + 1} : i \in IdsOfBits[n]}
    BY <2>1, IdsOfBitsIs
  <2>3. ASSUME NEW b \in IdsOfBits[n + 1]  PROVE b \in Nat /\ Prefix(b)[n + 1] = 0
    <3>1. PICK i \in IdsOfBits[n] : b \in {2 * i, 2 * i + 1}
      BY <2>2
    <3>2. i \in Nat /\ Prefix(i)[n] = 0
      BY <1>3
    <3>3. Prefix(b)[n + 1] = Prefix(i)[n]
      BY <1>1, <3>1, <3>2
    <3>. QED  BY <3>1, <3>2, <3>3
  <2>. QED  BY <2>1, <2>3
<1>4. SmtDepth \in 0 .. SmtDepth
  BY SmtDepthAssumption
<1>5. SmtDepth \in T
  <2>. HIDE DEF T
  <2>. QED  BY <1>2, <1>3, <1>4, Induction, SmtDepthAssumption
<1>. QED  BY <1>5 DEF AllIds

-----------------------------------------------------------------------------
(* What stands at a position.                                              *)

HashAt(root, k, p) == Forms(root)[k][p].hash
Hashed(root, k, p) == Forms(root)[k][p].hashed
AnyAt(root, k, p) == Forms(root)[k][p].any

LEMMA FormLeaf ==
  ASSUME NEW root, NEW p \in Nat
  PROVE  /\ p \in DOMAIN root =>
              /\ HashAt(root, 0, p) = LeafHash(p, root[p])
              /\ Hashed(root, 0, p) = {HashedLeaf(p, root[p])}
              /\ AnyAt(root, 0, p) = {HashedLeaf(p, root[p]), Leaf(p, root[p])}
         /\ p \notin DOMAIN root =>
              /\ HashAt(root, 0, p) = DefaultHash[0]
              /\ Hashed(root, 0, p) = {Empty(0)}
              /\ AnyAt(root, 0, p) = {Empty(0)}
<1>1. Forms(root)[0] = [q \in Nat |-> LeafForm(root, q)]
  BY FormsIs, Zenon
<1>2. Forms(root)[0][p] = LeafForm(root, p)
  BY <1>1, Zenon
<1>. QED  BY <1>2 DEF HashAt, Hashed, AnyAt, LeafForm

LEMMA FormStep ==
  ASSUME NEW root, NEW k \in 1 .. SmtDepth, NEW p \in Nat
  PROVE  Forms(root)[k][p]
           = NodeForm(root, k, p, Forms(root)[k - 1][2 * p], Forms(root)[k - 1][2 * p + 1])
<1>. DEFINE Below(q) == Forms(root)[k - 1][q]
<1>1. Forms(root)[k] = [q \in Nat |-> NodeForm(root, k, q, Below(2 * q), Below(2 * q + 1))]
  BY FormsIs, Zenon
<1>. QED  BY <1>1, Zenon

LEMMA FormNode ==
  ASSUME NEW root, NEW k \in 1 .. SmtDepth, NEW p \in Nat
  PROVE  /\ HashAt(root, k, p)
              = HashMemberNode(HashAt(root, k - 1, 2 * p), HashAt(root, k - 1, 2 * p + 1))
         /\ Hashed(root, k, p)
              = Inners({HashAt(root, k, p)},
                       Hashed(root, k - 1, 2 * p), Hashed(root, k - 1, 2 * p + 1))
                  \cup Spare(root, k, p)
         /\ AnyAt(root, k, p)
              = Hashed(root, k, p)
                  \cup Inners({}, AnyAt(root, k - 1, 2 * p), AnyAt(root, k - 1, 2 * p + 1))
<1>1. Forms(root)[k][p]
        = NodeForm(root, k, p, Forms(root)[k - 1][2 * p], Forms(root)[k - 1][2 * p + 1])
  BY FormStep, Zenon
<1>. QED  BY <1>1 DEF HashAt, Hashed, AnyAt, NodeForm

LEMMA FormMember ==
  ASSUME NEW root, NEW k \in 1 .. SmtDepth, NEW p \in Nat, NEW node
  PROVE  /\ (node \in Hashed(root, k, p))
              <=> \/ node \in Inners({HashAt(root, k, p)},
                       Hashed(root, k - 1, 2 * p), Hashed(root, k - 1, 2 * p + 1))
                  \/ node \in Spare(root, k, p)
         /\ (node \in AnyAt(root, k, p))
              <=> \/ node \in Hashed(root, k, p)
                  \/ node \in Inners({}, AnyAt(root, k - 1, 2 * p), AnyAt(root, k - 1, 2 * p + 1))
<1>1. PICK H, I, J, S : /\ H = Hashed(root, k, p) /\ S = Spare(root, k, p)
                        /\ I = Inners({HashAt(root, k, p)},
                             Hashed(root, k - 1, 2 * p), Hashed(root, k - 1, 2 * p + 1))
                        /\ J = Inners({}, AnyAt(root, k - 1, 2 * p), AnyAt(root, k - 1, 2 * p + 1))
  BY Zenon
<1>2. /\ Hashed(root, k, p)
           = Inners({HashAt(root, k, p)},
                    Hashed(root, k - 1, 2 * p), Hashed(root, k - 1, 2 * p + 1))
               \cup Spare(root, k, p)
      /\ AnyAt(root, k, p)
           = Hashed(root, k, p)
               \cup Inners({}, AnyAt(root, k - 1, 2 * p), AnyAt(root, k - 1, 2 * p + 1))
  BY FormNode, ZenonT(40)
<1>3. H = I \cup S /\ AnyAt(root, k, p) = H \cup J
  BY <1>1, <1>2, Zenon
<1>. QED  BY <1>1, <1>3, Zenon

\* The fields of an internal node, and the nodes of Inners.
LEMMA InnerIs ==
  ASSUME NEW hash, NEW l, NEW r
  PROVE  /\ Inner(hash, l, r).kind = "Internal" /\ Inner(hash, l, r).hash = hash
         /\ Inner(hash, l, r).left = l /\ Inner(hash, l, r).right = r
BY DEF Inner

LEMMA InnersIs ==
  ASSUME NEW hash, NEW L, NEW R, NEW node
  PROVE  (node \in Inners(hash, L, R)) <=> (\E a \in L, b \in R : node = Inner(hash, a, b))
<1>1. ASSUME node \in Inners(hash, L, R)  PROVE \E a \in L, b \in R : node = Inner(hash, a, b)
  BY <1>1 DEF Inners
<1>2. ASSUME NEW a \in L, NEW b \in R, node = Inner(hash, a, b)
      PROVE  node \in Inners(hash, L, R)
  <2>1. <<a, b>> \in L \X R /\ <<a, b>>[1] = a /\ <<a, b>>[2] = b
    OBVIOUS
  <2>. QED  BY <1>2, <2>1 DEF Inners
<1>. QED  BY <1>1, <1>2

LEMMA EmptyIs ==
  ASSUME NEW level
  PROVE  Empty(level).kind = "Empty" /\ Empty(level).hash = {DefaultHash[level]}
BY DEF Empty

\* The members below the two halves of a position are those below it.
LEMMA VacantBelow ==
  ASSUME NEW root, DOMAIN root \subseteq Nat, NEW k \in 1 .. SmtDepth, NEW p \in Nat
  PROVE  Vacant(root, k, p)
           <=> (Vacant(root, k - 1, 2 * p) /\ Vacant(root, k - 1, 2 * p + 1))
<1>1. \A i \in DOMAIN root :
        (Prefix(i)[k] = p) <=> (Prefix(i)[k - 1] = 2 * p \/ Prefix(i)[k - 1] = 2 * p + 1)
  BY PrefixAbove
<1>. QED  BY <1>1, Zenon DEF Vacant

LEMMA VacantLeaf ==
  ASSUME NEW root, DOMAIN root \subseteq Nat, NEW p \in Nat
  PROVE  Vacant(root, 0, p) <=> p \notin DOMAIN root
BY PrefixIs DEF Vacant

\* An empty subtree has its default hash.
LEMMA VacantHash ==
  ASSUME NEW root, DOMAIN root \subseteq Nat, NEW k \in 0 .. SmtDepth, NEW p \in Nat,
         Vacant(root, k, p)
  PROVE  HashAt(root, k, p) = DefaultHash[k]
<1>. DEFINE T == {n \in Nat : \A q \in Nat : Vacant(root, n, q) => HashAt(root, n, q) = DefaultHash[n]}
<1>1. 0 \in T
  BY VacantLeaf, FormLeaf
<1>2. ASSUME NEW n \in 0 .. SmtDepth - 1, n \in T  PROVE n + 1 \in T
  <2>1. PICK m : m = n + 1
    OBVIOUS
  <2>2. m \in Nat /\ m \in 1 .. SmtDepth /\ m - 1 = n
    BY <2>1, SmtDepthAssumption
  <2>3. ASSUME NEW q \in Nat, Vacant(root, m, q)  PROVE HashAt(root, m, q) = DefaultHash[m]
    <3>1. 2 * q \in Nat /\ 2 * q + 1 \in Nat
      OBVIOUS
    <3>2. Vacant(root, n, 2 * q) /\ Vacant(root, n, 2 * q + 1)
      BY <2>2, <2>3, VacantBelow
    <3>3. HashAt(root, n, 2 * q) = DefaultHash[n] /\ HashAt(root, n, 2 * q + 1) = DefaultHash[n]
      BY <1>2, <3>1, <3>2
    <3>4. HashAt(root, m, q) = HashMemberNode(HashAt(root, n, 2 * q), HashAt(root, n, 2 * q + 1))
      BY <2>2, FormNode
    <3>5. DefaultHash[m] = HashMemberNode(DefaultHash[n], DefaultHash[n])
      BY <2>2, DefaultHashIs
    <3>. QED  BY <3>3, <3>4, <3>5, Zenon
  <2>. QED  BY <2>1, <2>2, <2>3
<1>3. k \in T
  <2>. HIDE DEF T
  <2>. QED  BY <1>1, <1>2, Induction, SmtDepthAssumption
<1>. QED  BY <1>3

\* The hashed subtrees.
LEMMA HashedNode ==
  ASSUME NEW root, DOMAIN root \subseteq Nat, NEW k \in 1 .. SmtDepth, NEW p \in Nat,
         NEW node \in Hashed(root, k, p)
  PROVE  /\ node.hash = {HashAt(root, k, p)}
         /\ \/ /\ node.kind = "Internal"
               /\ node.left \in Hashed(root, k - 1, 2 * p)
               /\ node.right \in Hashed(root, k - 1, 2 * p + 1)
            \/ node.kind = "Empty" /\ node = Empty(k) /\ Vacant(root, k, p)
<1>1. CASE node \in Inners({HashAt(root, k, p)},
                       Hashed(root, k - 1, 2 * p), Hashed(root, k - 1, 2 * p + 1))
  <2>1. PICK a \in Hashed(root, k - 1, 2 * p), b \in Hashed(root, k - 1, 2 * p + 1) :
          node = Inner({HashAt(root, k, p)}, a, b)
    BY <1>1, InnersIs
  <2>. QED  BY <2>1, InnerIs
<1>2. CASE node \in Spare(root, k, p)
  <2>1. node = Empty(k) /\ Vacant(root, k, p) /\ k \in 0 .. SmtDepth
    BY <1>2, SmtDepthAssumption DEF Spare
  <2>2. HashAt(root, k, p) = DefaultHash[k]
    BY <2>1, VacantHash
  <2>. QED  BY <2>1, <2>2, EmptyIs, Zenon
<1>. QED  BY <1>1, <1>2, FormMember

\* The hashed leaves and the empty ones.
LEMMA HashedBottom ==
  ASSUME NEW root, NEW p \in Nat, NEW node \in Hashed(root, 0, p)
  PROVE  /\ node.hash = {HashAt(root, 0, p)}
         /\ p \in DOMAIN root => node.kind = "Leaf" /\ node.id = p /\ node.leaf = root[p]
         /\ p \notin DOMAIN root => node.kind = "Empty" /\ node = Empty(0)
<1>1. CASE p \in DOMAIN root
  <2>1. node = HashedLeaf(p, root[p]) /\ HashAt(root, 0, p) = LeafHash(p, root[p])
    BY <1>1, FormLeaf, Zenon
  <2>2. PICK h : h = LeafHash(p, root[p])
    OBVIOUS
  <2>3. node = [kind |-> "Leaf", hash |-> {h}, id |-> p, leaf |-> root[p]]
    BY <2>1, <2>2 DEF HashedLeaf
  <2>4. node.hash = {h} /\ node.kind = "Leaf" /\ node.id = p /\ node.leaf = root[p]
    BY <2>3
  <2>. QED  BY <1>1, <2>1, <2>2, <2>4
<1>2. CASE p \notin DOMAIN root
  BY <1>2, FormLeaf, EmptyIs, Zenon
<1>. QED  BY <1>1, <1>2

LEMMA HashedHash ==
  ASSUME NEW root, DOMAIN root \subseteq Nat, NEW k \in 0 .. SmtDepth, NEW p \in Nat,
         NEW node \in Hashed(root, k, p)
  PROVE  node.hash = {HashAt(root, k, p)}
<1>1. CASE k = 0
  BY <1>1, HashedBottom
<1>2. CASE k # 0
  <2>1. k \in 1 .. SmtDepth
    BY <1>2
  <2>. QED  BY <2>1, HashedNode
<1>. QED  BY <1>1, <1>2

LEMMA HashedIsAny ==
  ASSUME NEW root, NEW k \in 0 .. SmtDepth, NEW p \in Nat
  PROVE  Hashed(root, k, p) \subseteq AnyAt(root, k, p)
<1>1. CASE k = 0
  BY <1>1, FormLeaf
<1>2. CASE k # 0
  <2>1. k \in 1 .. SmtDepth
    BY <1>2
  <2>. QED  BY <2>1, FormMember
<1>. QED  BY <1>1, <1>2

\* The subtrees an insert may meet.
LEMMA AnyNode ==
  ASSUME NEW root, DOMAIN root \subseteq Nat, NEW k \in 1 .. SmtDepth, NEW p \in Nat,
         NEW node \in AnyAt(root, k, p)
  PROVE  \/ /\ node.kind = "Internal"
            /\ node.left \in AnyAt(root, k - 1, 2 * p)
            /\ node.right \in AnyAt(root, k - 1, 2 * p + 1)
            /\ \/ node = Inner({}, node.left, node.right)
               \/ node \in Hashed(root, k, p) /\ node.hash # {}
         \/ node = Empty(k) /\ node.kind = "Empty" /\ Vacant(root, k, p)
<1>1. CASE node \in Hashed(root, k, p)
  <2>1. k - 1 \in 0 .. SmtDepth /\ 2 * p \in Nat /\ 2 * p + 1 \in Nat
    BY SmtDepthAssumption
  <2>2. /\ Hashed(root, k - 1, 2 * p) \subseteq AnyAt(root, k - 1, 2 * p)
        /\ Hashed(root, k - 1, 2 * p + 1) \subseteq AnyAt(root, k - 1, 2 * p + 1)
    BY <2>1, HashedIsAny
  <2>. QED  BY <1>1, <2>2, HashedNode
<1>2. CASE node \in Inners({}, AnyAt(root, k - 1, 2 * p), AnyAt(root, k - 1, 2 * p + 1))
  <2>1. PICK a \in AnyAt(root, k - 1, 2 * p), b \in AnyAt(root, k - 1, 2 * p + 1) :
          node = Inner({}, a, b)
    BY <1>2, InnersIs
  <2>. QED  BY <2>1, InnerIs
<1>. QED  BY <1>1, <1>2, FormMember

\* How such subtrees are built.
LEMMA BuildHashed ==
  ASSUME NEW root, NEW k \in 1 .. SmtDepth, NEW p \in Nat
  PROVE  /\ \A a \in Hashed(root, k - 1, 2 * p), b \in Hashed(root, k - 1, 2 * p + 1) :
              Inner({HashAt(root, k, p)}, a, b) \in Hashed(root, k, p)
         /\ \A a \in AnyAt(root, k - 1, 2 * p), b \in AnyAt(root, k - 1, 2 * p + 1) :
              Inner({}, a, b) \in AnyAt(root, k, p)
<1>1. ASSUME NEW a \in Hashed(root, k - 1, 2 * p), NEW b \in Hashed(root, k - 1, 2 * p + 1)
      PROVE  Inner({HashAt(root, k, p)}, a, b) \in Hashed(root, k, p)
  <2>1. Inner({HashAt(root, k, p)}, a, b)
          \in Inners({HashAt(root, k, p)},
                     Hashed(root, k - 1, 2 * p), Hashed(root, k - 1, 2 * p + 1))
    BY InnersIs, Zenon
  <2>. QED  BY <2>1, FormMember
<1>2. ASSUME NEW a \in AnyAt(root, k - 1, 2 * p), NEW b \in AnyAt(root, k - 1, 2 * p + 1)
      PROVE  Inner({}, a, b) \in AnyAt(root, k, p)
  <2>1. Inner({}, a, b)
          \in Inners({}, AnyAt(root, k - 1, 2 * p), AnyAt(root, k - 1, 2 * p + 1))
    BY InnersIs, Zenon
  <2>. QED  BY <2>1, FormMember
<1>. QED  BY <1>1, <1>2, Zenon

LEMMA EmptyHashed ==
  ASSUME NEW root, DOMAIN root \subseteq Nat, NEW k \in 0 .. SmtDepth, NEW p \in Nat,
         Vacant(root, k, p)
  PROVE  Empty(k) \in Hashed(root, k, p) /\ Empty(k) \in AnyAt(root, k, p)
<1>1. CASE k = 0
  BY <1>1, VacantLeaf, FormLeaf
<1>2. CASE k # 0
  <2>1. k \in 1 .. SmtDepth
    BY <1>2
  <2>2. Empty(k) \in Spare(root, k, p)
    BY DEF Spare
  <2>. QED  BY <2>1, <2>2, FormMember
<1>. QED  BY <1>1, <1>2

-----------------------------------------------------------------------------
(* A subtree depends on the members below its position only, and its hash  *)
(* tells them.                                                             *)

\* Two sets of members agree on id, and below a position.
SameId(r1, r2, i) ==
  /\ i \in DOMAIN r1 <=> i \in DOMAIN r2
  /\ i \in DOMAIN r1 => r1[i] = r2[i]

SameIn(r1, r2, k, p) == \A i \in Nat : Prefix(i)[k] = p => SameId(r1, r2, i)

LEMMA SameBelow ==
  ASSUME NEW r1, NEW r2, NEW k \in 1 .. SmtDepth, NEW p \in Nat
  PROVE  SameIn(r1, r2, k, p)
           <=> (SameIn(r1, r2, k - 1, 2 * p) /\ SameIn(r1, r2, k - 1, 2 * p + 1))
<1>1. \A i \in Nat :
        (Prefix(i)[k] = p) <=> (Prefix(i)[k - 1] = 2 * p \/ Prefix(i)[k - 1] = 2 * p + 1)
  BY PrefixAbove
<1>. QED  BY <1>1, Zenon DEF SameIn

LEMMA SameLeaf ==
  ASSUME NEW r1, NEW r2, NEW p \in Nat
  PROVE  SameIn(r1, r2, 0, p) <=> SameId(r1, r2, p)
BY PrefixIs DEF SameIn

LEMMA SameVacant ==
  ASSUME NEW r1, NEW r2, DOMAIN r1 \subseteq Nat, DOMAIN r2 \subseteq Nat,
         NEW k, NEW p, SameIn(r1, r2, k, p)
  PROVE  Vacant(r1, k, p) <=> Vacant(r2, k, p)
BY DEF SameIn, SameId, Vacant

LEMMA Locality ==
  ASSUME NEW r1, NEW r2, DOMAIN r1 \subseteq Nat, DOMAIN r2 \subseteq Nat,
         NEW k \in 0 .. SmtDepth, NEW p \in Nat, SameIn(r1, r2, k, p)
  PROVE  Forms(r1)[k][p] = Forms(r2)[k][p]
<1>. DEFINE T == {n \in Nat : \A q \in Nat :
                    SameIn(r1, r2, n, q) => Forms(r1)[n][q] = Forms(r2)[n][q]}
<1>1. 0 \in T
  <2>1. ASSUME NEW q \in Nat, SameIn(r1, r2, 0, q)  PROVE Forms(r1)[0][q] = Forms(r2)[0][q]
    <3>1. SameId(r1, r2, q)
      BY <2>1, SameLeaf
    <3>2. LeafForm(r1, q) = LeafForm(r2, q)
      BY <3>1, Zenon DEF SameId, LeafForm
    <3>3. /\ Forms(r1)[0] = [x \in Nat |-> LeafForm(r1, x)]
          /\ Forms(r2)[0] = [x \in Nat |-> LeafForm(r2, x)]
      BY FormsIs, Zenon
    <3>4. Forms(r1)[0][q] = LeafForm(r1, q) /\ Forms(r2)[0][q] = LeafForm(r2, q)
      BY <3>3, Zenon
    <3>. QED  BY <3>2, <3>4, Zenon
  <2>. QED  BY <2>1
<1>2. ASSUME NEW n \in 0 .. SmtDepth - 1, n \in T  PROVE n + 1 \in T
  <2>1. PICK m : m = n + 1
    OBVIOUS
  <2>2. m \in Nat /\ m \in 1 .. SmtDepth /\ m - 1 = n
    BY <2>1, SmtDepthAssumption
  <2>3. ASSUME NEW q \in Nat, SameIn(r1, r2, m, q)  PROVE Forms(r1)[m][q] = Forms(r2)[m][q]
    <3>1. 2 * q \in Nat /\ 2 * q + 1 \in Nat
      OBVIOUS
    <3>2. SameIn(r1, r2, n, 2 * q) /\ SameIn(r1, r2, n, 2 * q + 1)
      BY <2>2, <2>3, SameBelow
    <3>3. /\ Forms(r1)[n][2 * q] = Forms(r2)[n][2 * q]
          /\ Forms(r1)[n][2 * q + 1] = Forms(r2)[n][2 * q + 1]
      BY <1>2, <3>1, <3>2
    <3>4. Spare(r1, m, q) = Spare(r2, m, q)
      <4>1. Vacant(r1, m, q) <=> Vacant(r2, m, q)
        BY <2>3, SameVacant
      <4>. QED  BY <4>1 DEF Spare
    <3>5. /\ Forms(r1)[m][q] = NodeForm(r1, m, q, Forms(r1)[n][2 * q], Forms(r1)[n][2 * q + 1])
          /\ Forms(r2)[m][q] = NodeForm(r2, m, q, Forms(r2)[n][2 * q], Forms(r2)[n][2 * q + 1])
      BY <2>2, FormStep
    <3>6. \A l, r : NodeForm(r1, m, q, l, r) = NodeForm(r2, m, q, l, r)
      BY <3>4 DEF NodeForm
    <3>. QED  BY <3>3, <3>5, <3>6, Zenon
  <2>. QED  BY <2>1, <2>2, <2>3
<1>3. k \in T
  <2>. HIDE DEF T
  <2>. QED  BY <1>1, <1>2, Induction, SmtDepthAssumption
<1>. QED  BY <1>3

LEMMA SameForms ==
  ASSUME NEW r1, NEW r2, DOMAIN r1 \subseteq Nat, DOMAIN r2 \subseteq Nat,
         NEW k \in 0 .. SmtDepth, NEW p \in Nat, SameIn(r1, r2, k, p)
  PROVE  /\ HashAt(r1, k, p) = HashAt(r2, k, p)
         /\ Hashed(r1, k, p) = Hashed(r2, k, p)
         /\ AnyAt(r1, k, p) = AnyAt(r2, k, p)
BY Locality, ZenonT(30) DEF HashAt, Hashed, AnyAt

-----------------------------------------------------------------------------
(* Hashes.                                                                 *)

\* SetToSeq lists a finite set, each element once.
LEMMA SetToSeqIs ==
  ASSUME NEW S, IsFiniteSet(S)
  PROVE  /\ SetToSeq(S) \in Seq(S) /\ Len(SetToSeq(S)) = Cardinality(S)
         /\ Cardinality(S) \in Nat /\ Range(SetToSeq(S)) = S
         /\ \A m, n \in 1 .. Len(SetToSeq(S)) : SetToSeq(S)[m] = SetToSeq(S)[n] => m = n
<1>1. PICK c \in Nat : c = Cardinality(S) /\ ExistsBijection(1 .. c, S)
  BY FS_CardinalityType
<1>2. PICK g \in [1 .. c -> S] : IsInjective(g)
  BY <1>1 DEF ExistsBijection, Bijection, Injection
<1>3. SetToSeq(S) = CHOOSE f \in [1 .. c -> S] : IsInjective(f)
  BY <1>1 DEF SetToSeq
<1>4. PICK s \in [1 .. c -> S] : s = SetToSeq(S) /\ IsInjective(s)
  BY <1>2, <1>3
<1>5. s \in Surjection(1 .. c, S)
  <2>1. IsFiniteSet(1 .. c) /\ Cardinality(1 .. c) = c
    BY FS_Interval
  <2>2. s \in Injection(1 .. c, S)
    BY <1>4 DEF Injection
  <2>. QED  BY <1>1, <2>1, <2>2, FS_Injection
<1>6. s \in Seq(S) /\ Len(s) = c /\ DOMAIN s = 1 .. c
  BY <1>4
<1>7. Range(s) = S
  BY <1>4, <1>5, <1>6 DEF Range, Surjection
<1>. QED  BY <1>1, <1>4, <1>6, <1>7 DEF IsInjective

\* Two device sets of at most four with the same device root are the same.
LEMMA DeviceRootTells ==
  ASSUME NEW A \in P2pDeviceSlots, NEW B \in P2pDeviceSlots, DeviceRoot(A) = DeviceRoot(B)
  PROVE  A = B
<1>1. ASSUME NEW S \in P2pDeviceSlots
      PROVE  \E s \in Seq(S) : s = SetToSeq(S) /\ Len(s) \in 0 .. 4 /\ Range(s) = S
  <2>1. IsFiniteSet(S) /\ Cardinality(S) \in Nat /\ Cardinality(S) <= 4
    <3>1. S \subseteq Devices /\ Cardinality(S) <= MaxDevices /\ MaxDevices \in Nat
      BY MaxDevicesAssumption DEF P2pDeviceSlots
    <3>2. IsFiniteSet(S)
      BY <3>1, FS_Subset, MaxDevicesAssumption
    <3>3. Cardinality(S) \in Nat
      BY <3>2, FS_CardinalityType
    <3>4. MaxDevices <= 4
      BY TreeAssumption
    <3>. QED  BY <3>1, <3>2, <3>3, <3>4
  <2>2. Cardinality(S) \in 0 .. 4
    BY <2>1
  <2>. QED  BY <2>1, <2>2, SetToSeqIs, Zenon
<1>2. PICK a \in Seq(A) : a = SetToSeq(A) /\ Len(a) \in 0 .. 4 /\ Range(a) = A
  BY <1>1
<1>3. PICK b \in Seq(B) : b = SetToSeq(B) /\ Len(b) \in 0 .. 4 /\ Range(b) = B
  BY <1>1
<1>. DEFINE Slot(s, n) == HashDeviceLeaf(IF n <= Len(s) THEN <<s[n]>> ELSE Sentinel)
<1>4. /\ DeviceRoot(A) = HashDeviceNode(HashDeviceNode(Slot(a, 1), Slot(a, 2)),
                                        HashDeviceNode(Slot(a, 3), Slot(a, 4)))
      /\ DeviceRoot(B) = HashDeviceNode(HashDeviceNode(Slot(b, 1), Slot(b, 2)),
                                        HashDeviceNode(Slot(b, 3), Slot(b, 4)))
  BY <1>2, <1>3, Zenon DEF DeviceRoot
<1>5. \A n \in 1 .. 4 : (n <= Len(a) <=> n <= Len(b)) /\ (n <= Len(a) => a[n] = b[n])
  <2>2. \A n \in 1 .. 4 : Slot(a, n) = Slot(b, n)
    <3>. HIDE DEF Slot
    <3>1. Slot(a, 1) = Slot(b, 1) /\ Slot(a, 2) = Slot(b, 2)
          /\ Slot(a, 3) = Slot(b, 3) /\ Slot(a, 4) = Slot(b, 4)
      <4>1. PICK s, t, u, v, w, x, y, z :
              /\ s = Slot(a, 1) /\ t = Slot(a, 2) /\ u = Slot(a, 3) /\ v = Slot(a, 4)
              /\ w = Slot(b, 1) /\ x = Slot(b, 2) /\ y = Slot(b, 3) /\ z = Slot(b, 4)
        BY Zenon
      <4>2. HashDeviceNode(HashDeviceNode(s, t), HashDeviceNode(u, v))
              = HashDeviceNode(HashDeviceNode(w, x), HashDeviceNode(y, z))
        BY <1>4, <4>1, Zenon
      <4>3. s = w /\ t = x /\ u = y /\ v = z
        BY <4>2 DEF HashDeviceNode
      <4>. QED  BY <4>1, <4>3, Zenon
    <3>. QED  BY <3>1
  <2>3. ASSUME NEW n \in 1 .. 4
        PROVE  (n <= Len(a) <=> n <= Len(b)) /\ (n <= Len(a) => a[n] = b[n])
    <3>1. \A x, y : HashDeviceLeaf(x) = HashDeviceLeaf(y) => x = y
      BY DEF HashDeviceLeaf
    <3>2. (IF n <= Len(a) THEN <<a[n]>> ELSE Sentinel) = (IF n <= Len(b) THEN <<b[n]>> ELSE Sentinel)
      BY <2>2, <3>1, Zenon
    <3>3. \A x, y : <<x>> # Sentinel /\ (<<x>> = <<y>> => x = y)
      BY DEF Sentinel
    <3>. QED  BY <3>2, <3>3, Zenon
  <2>. QED  BY <2>3
<1>6. Len(a) = Len(b)
  <2>1. PICK m \in 0 .. 4, n \in 0 .. 4 : m = Len(a) /\ n = Len(b)
    BY <1>2, <1>3, Zenon
  <2>2. \A x \in 1 .. 4 : x <= m <=> x <= n
    BY <1>5, <2>1, Zenon
  <2>3. m = n
    BY <2>2
  <2>. QED  BY <2>1, <2>3
<1>7. a = b
  <2>1. \A n \in 1 .. Len(a) : a[n] = b[n]
    <3>1. Len(a) \in 0 .. 4
      BY <1>2, Zenon
    <3>. QED  BY <1>5, <3>1
  <2>. QED  BY <1>2, <1>3, <1>6, <2>1
<1>. QED  BY <1>2, <1>3, <1>7

\* The hash of a leaf tells the leaf, and is not the default one.
LEMMA LeafHashTells ==
  ASSUME NEW i, NEW x \in MemberLeaf, NEW y \in MemberLeaf
  PROVE  /\ LeafHash(i, x) = LeafHash(i, y) => x = y
         /\ LeafHash(i, x) # DefaultHash[0]
<1>1. ASSUME LeafHash(i, x) = LeafHash(i, y)  PROVE x = y
  <2>1. PICK d, e : d = DeviceRoot(x.p2p_devices) /\ e = DeviceRoot(y.p2p_devices)
    OBVIOUS
  <2>2. <<i, x.handle, x.p2p_key, x.name, d>> = <<i, y.handle, y.p2p_key, y.name, e>>
    BY <1>1, <2>1 DEF LeafHash, HashMemberLeaf, CanonicalBytes
  <2>3. x.handle = y.handle /\ x.p2p_key = y.p2p_key /\ x.name = y.name /\ d = e
    BY <2>2
  <2>4. x.p2p_devices \in P2pDeviceSlots /\ y.p2p_devices \in P2pDeviceSlots
    BY DEF MemberLeaf
  <2>5. x.p2p_devices = y.p2p_devices
    BY <2>1, <2>3, <2>4, DeviceRootTells
  <2>. QED  BY <2>3, <2>5 DEF MemberLeaf
<1>2. LeafHash(i, x) # DefaultHash[0]
  <2>1. PICK d : d = DeviceRoot(x.p2p_devices)
    OBVIOUS
  <2>2. <<i, x.handle, x.p2p_key, x.name, d>> # Sentinel
    BY DEF Sentinel
  <2>3. \A u, v : HashMemberLeaf(u) = HashMemberLeaf(v) => u = v
    BY DEF HashMemberLeaf
  <2>. QED  BY <2>1, <2>2, <2>3, DefaultHashIs, Zenon DEF LeafHash, CanonicalBytes
<1>. QED  BY <1>1, <1>2

LEMMA NodeHashTells ==
  ASSUME NEW a, NEW b, NEW c, NEW d, HashMemberNode(a, b) = HashMemberNode(c, d)
  PROVE  a = c /\ b = d
BY DEF HashMemberNode

\* The hash at a position tells the members below it.
LEMMA HashTells ==
  ASSUME NEW r1 \in Roots, NEW r2 \in Roots, NEW k \in 0 .. SmtDepth, NEW p \in Nat,
         HashAt(r1, k, p) = HashAt(r2, k, p)
  PROVE  SameIn(r1, r2, k, p)
<1>. DEFINE T == {n \in Nat : \A q \in Nat :
                    HashAt(r1, n, q) = HashAt(r2, n, q) => SameIn(r1, r2, n, q)}
<1>1. 0 \in T
  <2>1. ASSUME NEW q \in Nat, HashAt(r1, 0, q) = HashAt(r2, 0, q)  PROVE SameIn(r1, r2, 0, q)
    <3>1. \A r \in {r1, r2} : q \in DOMAIN r => r[q] \in MemberLeaf
      BY RootIs
    <3>2. \A r \in {r1, r2} :
            HashAt(r, 0, q) = IF q \in DOMAIN r THEN LeafHash(q, r[q]) ELSE DefaultHash[0]
      BY FormLeaf
    <3>3. SameId(r1, r2, q)
      BY <2>1, <3>1, <3>2, LeafHashTells DEF SameId
    <3>. QED  BY <3>3, SameLeaf
  <2>. QED  BY <2>1
<1>2. ASSUME NEW n \in 0 .. SmtDepth - 1, n \in T  PROVE n + 1 \in T
  <2>1. PICK m : m = n + 1
    OBVIOUS
  <2>2. m \in Nat /\ m \in 1 .. SmtDepth /\ m - 1 = n
    BY <2>1, SmtDepthAssumption
  <2>3. ASSUME NEW q \in Nat, HashAt(r1, m, q) = HashAt(r2, m, q)  PROVE SameIn(r1, r2, m, q)
    <3>1. 2 * q \in Nat /\ 2 * q + 1 \in Nat
      OBVIOUS
    <3>2. /\ HashAt(r1, m, q) = HashMemberNode(HashAt(r1, n, 2 * q), HashAt(r1, n, 2 * q + 1))
          /\ HashAt(r2, m, q) = HashMemberNode(HashAt(r2, n, 2 * q), HashAt(r2, n, 2 * q + 1))
      BY <2>2, FormNode
    <3>3. /\ HashAt(r1, n, 2 * q) = HashAt(r2, n, 2 * q)
          /\ HashAt(r1, n, 2 * q + 1) = HashAt(r2, n, 2 * q + 1)
      <4>1. PICK a, b, c, d :
              /\ a = HashAt(r1, n, 2 * q) /\ b = HashAt(r1, n, 2 * q + 1)
              /\ c = HashAt(r2, n, 2 * q) /\ d = HashAt(r2, n, 2 * q + 1)
        BY Zenon
      <4>2. HashMemberNode(a, b) = HashMemberNode(c, d)
        BY <2>3, <3>2, <4>1, Zenon
      <4>3. a = c /\ b = d
        BY <4>2, NodeHashTells
      <4>. QED  BY <4>1, <4>3, Zenon
    <3>4. SameIn(r1, r2, n, 2 * q) /\ SameIn(r1, r2, n, 2 * q + 1)
      BY <1>2, <3>1, <3>3
    <3>. QED  BY <2>2, <3>4, SameBelow
  <2>. QED  BY <2>1, <2>2, <2>3
<1>3. k \in T
  <2>. HIDE DEF T
  <2>. QED  BY <1>1, <1>2, Induction, SmtDepthAssumption
<1>. QED  BY <1>3

-----------------------------------------------------------------------------
(* Inserts and removals.                                                   *)

\* The children that insert_at starts from hold the members of the halves.
LEMMA InsertStepForms ==
  ASSUME NEW root, DOMAIN root \subseteq Nat, NEW k \in 1 .. SmtDepth, NEW p \in Nat,
         NEW node \in AnyAt(root, k, p)
  PROVE  /\ InsertStep(node, SmtDepth - k).left \in AnyAt(root, k - 1, 2 * p)
         /\ InsertStep(node, SmtDepth - k).right \in AnyAt(root, k - 1, 2 * p + 1)
<1>1. CASE node.kind = "Internal"
  <2>1. /\ node.left \in AnyAt(root, k - 1, 2 * p)
        /\ node.right \in AnyAt(root, k - 1, 2 * p + 1)
    BY <1>1, AnyNode
  <2>2. InsertStep(node, SmtDepth - k) = [left |-> node.left, right |-> node.right]
    BY <1>1 DEF InsertStep
  <2>. QED  BY <2>1, <2>2
<1>2. CASE node.kind # "Internal"
  <2>1. Vacant(root, k, p)
    BY <1>2, AnyNode
  <2>2. Vacant(root, k - 1, 2 * p) /\ Vacant(root, k - 1, 2 * p + 1)
    BY <2>1, VacantBelow
  <2>3. k - 1 \in 0 .. SmtDepth /\ 2 * p \in Nat /\ 2 * p + 1 \in Nat
        /\ SmtDepth - (SmtDepth - k) - 1 = k - 1
    BY SmtDepthAssumption
  <2>4. /\ Empty(k - 1) \in AnyAt(root, k - 1, 2 * p)
        /\ Empty(k - 1) \in AnyAt(root, k - 1, 2 * p + 1)
    BY <2>2, <2>3, EmptyHashed
  <2>5. InsertStep(node, SmtDepth - k) = [left |-> Empty(k - 1), right |-> Empty(k - 1)]
    BY <1>2, <2>3 DEF InsertStep
  <2>. QED  BY <2>4, <2>5
<1>. QED  BY <1>1, <1>2

\* The nodes on the way to an id hold the members below its prefixes.
LEMMA PathForms ==
  ASSUME NEW root, DOMAIN root \subseteq Nat, NEW i \in AllIds,
         NEW tr \in AnyAt(root, SmtDepth, 0)
  PROVE  \A k \in 0 .. SmtDepth :
           InsertPath(tr, i)[SmtDepth - k] \in AnyAt(root, k, Prefix(i)[k])
<1>. DEFINE T == {d \in Nat : InsertPath(tr, i)[d] \in AnyAt(root, SmtDepth - d, Prefix(i)[SmtDepth - d])}
<1>0. i \in Nat /\ Prefix(i)[SmtDepth] = 0
  BY AllIdsPrefix
<1>1. 0 \in T
  <2>1. InsertPath(tr, i)[0] = tr /\ SmtDepth - 0 = SmtDepth
    BY InsertPathIs, SmtDepthAssumption
  <2>. QED  BY <1>0, <2>1
<1>2. ASSUME NEW d \in 0 .. SmtDepth - 1, d \in T  PROVE d + 1 \in T
  <2>1. PICK k, e : k = SmtDepth - d /\ e = d + 1
    OBVIOUS
  <2>2. /\ k \in 1 .. SmtDepth /\ k - 1 \in 0 .. SmtDepth /\ k \in 0 .. SmtDepth
        /\ d = SmtDepth - k /\ SmtDepth - e = k - 1 /\ e \in 1 .. SmtDepth /\ e - 1 = d /\ e \in Nat
    BY <2>1, SmtDepthAssumption
  <2>3. PICK p : p = Prefix(i)[k]
    OBVIOUS
  <2>4. p \in Nat /\ Prefix(i)[k - 1] = IF Bit(i, d) THEN 2 * p + 1 ELSE 2 * p
    BY <1>0, <2>2, <2>3, PrefixHalves
  <2>5. PICK node : node = InsertPath(tr, i)[d]
    OBVIOUS
  <2>6. node \in AnyAt(root, k, p)
    BY <1>2, <2>1, <2>3, <2>5
  <2>7. /\ InsertStep(node, d).left \in AnyAt(root, k - 1, 2 * p)
        /\ InsertStep(node, d).right \in AnyAt(root, k - 1, 2 * p + 1)
    BY <2>2, <2>4, <2>6, InsertStepForms
  <2>8. InsertPath(tr, i)[e] = ChildOn(i, d, InsertStep(node, d))
    BY <2>2, <2>5, InsertPathIs
  <2>9. InsertPath(tr, i)[e] \in AnyAt(root, k - 1, Prefix(i)[k - 1])
    BY <2>4, <2>7, <2>8, Zenon DEF ChildOn
  <2>. QED  BY <2>1, <2>2, <2>9
<1>3. ASSUME NEW k \in 0 .. SmtDepth  PROVE SmtDepth - k \in T
  <2>1. SmtDepth - k \in 0 .. SmtDepth
    BY SmtDepthAssumption
  <2>. HIDE DEF T
  <2>. QED  BY <1>1, <1>2, <2>1, Induction, SmtDepthAssumption
<1>4. \A k \in 0 .. SmtDepth : SmtDepth - (SmtDepth - k) = k
  BY SmtDepthAssumption
<1>. QED  BY <1>3, <1>4

\* insert_at with new below id gives a tree of the members that differ at id only.
LEMMA InsertedForms ==
  ASSUME NEW r1, DOMAIN r1 \subseteq Nat, NEW r2, DOMAIN r2 \subseteq Nat,
         NEW i \in AllIds, \A j \in Nat : j # i => SameId(r1, r2, j),
         NEW tr \in AnyAt(r1, SmtDepth, 0), NEW new \in AnyAt(r2, 0, i)
  PROVE  Inserted(tr, i, new)[SmtDepth] \in AnyAt(r2, SmtDepth, 0)
<1>. DEFINE T == {k \in Nat : Inserted(tr, i, new)[k] \in AnyAt(r2, k, Prefix(i)[k])}
<1>0. i \in Nat /\ Prefix(i)[SmtDepth] = 0
  BY AllIdsPrefix
<1>1. 0 \in T
  BY InsertedIs, PrefixIs
<1>2. ASSUME NEW n \in 0 .. SmtDepth - 1, n \in T  PROVE n + 1 \in T
  <2>1. PICK k, d : k = n + 1 /\ d = SmtDepth - k
    OBVIOUS
  <2>2. /\ k \in 1 .. SmtDepth /\ k \in 0 .. SmtDepth /\ n \in 0 .. SmtDepth
        /\ k - 1 = n /\ k \in Nat
    BY <2>1, SmtDepthAssumption
  <2>3. PICK p, built, child : /\ p = Prefix(i)[k] /\ built = Inserted(tr, i, new)[n]
                               /\ child = InsertStep(InsertPath(tr, i)[d], d)
    OBVIOUS
  <2>4. p \in Nat /\ Prefix(i)[n] = IF Bit(i, d) THEN 2 * p + 1 ELSE 2 * p
    BY <1>0, <2>1, <2>2, <2>3, PrefixHalves
  <2>5. 2 * p \in Nat /\ 2 * p + 1 \in Nat /\ 2 * p # 2 * p + 1
    BY <2>4
  <2>6. built \in AnyAt(r2, n, Prefix(i)[n])
    BY <1>2, <2>3
  <2>7. child.left \in AnyAt(r1, n, 2 * p) /\ child.right \in AnyAt(r1, n, 2 * p + 1)
    <3>1. InsertPath(tr, i)[d] \in AnyAt(r1, k, p)
      BY <2>1, <2>2, <2>3, PathForms
    <3>. QED  BY <2>1, <2>2, <2>3, <2>4, <3>1, InsertStepForms
  <2>8. ASSUME NEW q \in Nat, q # Prefix(i)[n]  PROVE AnyAt(r1, n, q) = AnyAt(r2, n, q)
    <3>1. SameIn(r1, r2, n, q)
      BY <2>8 DEF SameIn
    <3>. QED  BY <2>2, <3>1, SameForms
  <2>9. Inserted(tr, i, new)[k] = ParentOn(i, d, child, built)
    BY <2>1, <2>2, <2>3, InsertedIs
  <2>10. ParentOn(i, d, child, built) \in AnyAt(r2, k, p)
    <3>0. \A l, r : Internal(l, r) = Inner({}, l, r)
      BY DEF Internal, Inner
    <3>1. \A a \in AnyAt(r2, n, 2 * p), b \in AnyAt(r2, n, 2 * p + 1) :
            Inner({}, a, b) \in AnyAt(r2, k, p)
      BY <2>2, <2>4, BuildHashed
    <3>2. CASE Bit(i, d)
      <4>1. child.left \in AnyAt(r2, n, 2 * p) /\ built \in AnyAt(r2, n, 2 * p + 1)
        BY <2>4, <2>5, <2>6, <2>7, <2>8, <3>2
      <4>. QED  BY <3>0, <3>1, <3>2, <4>1, Zenon DEF ParentOn
    <3>3. CASE ~Bit(i, d)
      <4>1. child.right \in AnyAt(r2, n, 2 * p + 1) /\ built \in AnyAt(r2, n, 2 * p)
        BY <2>4, <2>5, <2>6, <2>7, <2>8, <3>3
      <4>. QED  BY <3>0, <3>1, <3>3, <4>1, Zenon DEF ParentOn
    <3>. QED  BY <3>2, <3>3
  <2>. QED  BY <2>1, <2>2, <2>3, <2>9, <2>10
<1>3. SmtDepth \in 0 .. SmtDepth
  BY SmtDepthAssumption
<1>4. SmtDepth \in T
  <2>. HIDE DEF T
  <2>. QED  BY <1>1, <1>2, <1>3, Induction, SmtDepthAssumption
<1>. QED  BY <1>0, <1>4

-----------------------------------------------------------------------------
(* recalculate_hashes.                                                     *)

LEMMA NodesBelow ==
  ASSUME NEW tr, NEW k \in 1 .. SmtDepth, NEW node \in NodesAt(tr)[SmtDepth - k]
  PROVE  /\ Left(node) \in NodesAt(tr)[SmtDepth - (k - 1)]
         /\ Right(node) \in NodesAt(tr)[SmtDepth - (k - 1)]
<1>1. PICK d, e : d = SmtDepth - k /\ e = SmtDepth - (k - 1)
  OBVIOUS
<1>2. e \in 1 .. SmtDepth /\ e - 1 = d
  BY <1>1, SmtDepthAssumption
<1>3. NodesAt(tr)[e] = UNION {{Left(n), Right(n)} : n \in NodesAt(tr)[d]}
  BY <1>2, NodesAtIs
<1>4. Left(node) \in NodesAt(tr)[e] /\ Right(node) \in NodesAt(tr)[e]
  BY <1>1, <1>3
<1>. QED  BY <1>1, <1>4

LEMMA LeafHashed ==
  ASSUME NEW root, NEW p \in Nat, NEW node \in AnyAt(root, 0, p)
  PROVE  HashLeaf(node) \in Hashed(root, 0, p)
<1>1. CASE p \in DOMAIN root
  <2>1. PICK h, v : h = LeafHash(p, root[p]) /\ v = root[p]
    OBVIOUS
  <2>2. /\ HashedLeaf(p, v) = [kind |-> "Leaf", hash |-> {h}, id |-> p, leaf |-> v]
        /\ Leaf(p, v) = [kind |-> "Leaf", hash |-> {}, id |-> p, leaf |-> v]
    BY <2>1 DEF HashedLeaf, Leaf
  <2>3. node \in {HashedLeaf(p, v), Leaf(p, v)} /\ Hashed(root, 0, p) = {HashedLeaf(p, v)}
    BY <1>1, <2>1, FormLeaf
  <2>4. HashLeaf(HashedLeaf(p, v)) = HashedLeaf(p, v)
    <3>1. HashedLeaf(p, v).hash # {}
      BY <2>2
    <3>. QED  BY <3>1, Zenon DEF HashLeaf
  <2>5. HashLeaf(Leaf(p, v)) = HashedLeaf(p, v)
    <3>1. PICK n : n = Leaf(p, v)
      OBVIOUS
    <3>2. n.kind = "Leaf" /\ n.hash = {} /\ n.id = p /\ n.leaf = v
      BY <2>2, <3>1
    <3>3. HashMemberLeaf(CanonicalBytes(n.id, n.leaf)) = h
      BY <2>1, <3>2, Zenon DEF LeafHash
    <3>4. HashLeaf(n) = [n EXCEPT !.hash = {h}]
      BY <3>2, <3>3, Zenon DEF HashLeaf
    <3>. QED  BY <2>2, <3>1, <3>4
  <2>. QED  BY <2>3, <2>4, <2>5
<1>2. CASE p \notin DOMAIN root
  <2>1. node = Empty(0) /\ Hashed(root, 0, p) = {Empty(0)}
    BY <1>2, FormLeaf
  <2>2. HashLeaf(node) = node
    BY <2>1, EmptyIs DEF HashLeaf
  <2>. QED  BY <2>1, <2>2
<1>. QED  BY <1>1, <1>2

\* recalculate_hashes completes the caches and changes no member.
LEMMA Recalculates ==
  ASSUME NEW root, DOMAIN root \subseteq Nat, NEW tr \in AnyAt(root, SmtDepth, 0)
  PROVE  RecalculateHashes(tr) \in Hashed(root, SmtDepth, 0)
<1>. DEFINE Nodes(k) == NodesAt(tr)[SmtDepth - k]
            T == {k \in Nat : \A q \in Nat : \A node \in AnyAt(root, k, q) :
                    node \in Nodes(k) => Recalculated(tr)[k][node] \in Hashed(root, k, q)}
<1>1. 0 \in T
  <2>1. SmtDepth - 0 = SmtDepth
    BY SmtDepthAssumption
  <2>2. Recalculated(tr)[0] = [node \in Nodes(0) |-> HashLeaf(node)]
    BY <2>1, RecalculatedIs, Zenon
  <2>3. \A node \in Nodes(0) : Recalculated(tr)[0][node] = HashLeaf(node)
    BY <2>2, Zenon
  <2>. QED  BY <2>3, LeafHashed
<1>2. ASSUME NEW n \in 0 .. SmtDepth - 1, n \in T  PROVE n + 1 \in T
  <2>1. PICK k : k = n + 1
    OBVIOUS
  <2>2. k \in 1 .. SmtDepth /\ k \in 0 .. SmtDepth /\ k - 1 = n /\ k \in Nat /\ n \in 0 .. SmtDepth
    BY <2>1, SmtDepthAssumption
  <2>3. ASSUME NEW q \in Nat, NEW node \in AnyAt(root, k, q), node \in Nodes(k)
        PROVE  Recalculated(tr)[k][node] \in Hashed(root, k, q)
    <3>1. 2 * q \in Nat /\ 2 * q + 1 \in Nat
      OBVIOUS
    <3>2. PICK below : below = Recalculated(tr)[n]
      OBVIOUS
    <3>3. Recalculated(tr)[k] = [x \in Nodes(k) |-> HashNode(x, below)]
      <4>1. Recalculated(tr)[k] = [x \in NodesAt(tr)[SmtDepth - k] |-> HashNode(x, Recalculated(tr)[k - 1])]
        BY <2>2, RecalculatedIs, Zenon
      <4>. QED  BY <2>2, <3>2, <4>1
    <3>4. Recalculated(tr)[k][node] = HashNode(node, below)
      BY <2>3, <3>3, Zenon
    <3>5. CASE node.kind = "Internal" /\ node = Inner({}, node.left, node.right)
      <4>1. PICK l, r : l = node.left /\ r = node.right
        OBVIOUS
      <4>2. Left(node) = l /\ Right(node) = r
        BY <3>5, <4>1 DEF Left, Right
      <4>3. l \in Nodes(n) /\ r \in Nodes(n)
        BY <2>2, <2>3, <4>2, NodesBelow
      <4>4. l \in AnyAt(root, n, 2 * q) /\ r \in AnyAt(root, n, 2 * q + 1)
        BY <2>2, <3>5, <4>1, AnyNode, EmptyIs
      <4>5. below[l] \in Hashed(root, n, 2 * q) /\ below[r] \in Hashed(root, n, 2 * q + 1)
        BY <1>2, <3>1, <3>2, <4>3, <4>4
      <4>6. HashOf(below[l]) = HashAt(root, n, 2 * q) /\ HashOf(below[r]) = HashAt(root, n, 2 * q + 1)
        <5>1. below[l].hash = {HashAt(root, n, 2 * q)} /\ below[r].hash = {HashAt(root, n, 2 * q + 1)}
          BY <2>2, <3>1, <4>5, HashedHash
        <5>. QED  BY <5>1 DEF HashOf
      <4>7. HashMemberNode(HashOf(below[l]), HashOf(below[r])) = HashAt(root, k, q)
        BY <2>2, <4>6, FormNode
      <4>8. node = Inner({}, l, r)
        BY <3>5, <4>1
      <4>9. HashNode(node, below) = Inner({HashAt(root, k, q)}, below[l], below[r])
        <5>1. node.hash = {}
          BY <4>8, InnerIs
        <5>2. PICK h, x, y : h = HashAt(root, k, q) /\ x = below[l] /\ y = below[r]
          OBVIOUS
        <5>3. HashMemberNode(HashOf(x), HashOf(y)) = h
          BY <4>7, <5>2, Zenon
        <5>4. HashNode(node, below) = Inner({h}, x, y)
          BY <3>5, <4>1, <5>1, <5>2, <5>3 DEF HashNode, Inner
        <5>. QED  BY <5>2, <5>4, Zenon
      <4>10. Inner({HashAt(root, k, q)}, below[l], below[r]) \in Hashed(root, k, q)
        BY <2>2, <4>5, BuildHashed
      <4>. QED  BY <3>4, <4>9, <4>10, Zenon
    <3>6. CASE node.kind = "Internal" /\ node \in Hashed(root, k, q) /\ node.hash # {}
      <4>1. HashNode(node, below) = node
        BY <3>6 DEF HashNode, HashLeaf
      <4>. QED  BY <3>4, <3>6, <4>1
    <3>7. CASE node = Empty(k) /\ Vacant(root, k, q)
      <4>1. HashNode(node, below) = node
        BY <3>7, EmptyIs DEF HashNode, HashLeaf
      <4>2. Empty(k) \in Hashed(root, k, q)
        BY <2>2, <3>7, EmptyHashed
      <4>. QED  BY <3>4, <3>7, <4>1, <4>2
    <3>. QED  BY <2>2, <3>5, <3>6, <3>7, AnyNode
  <2>. HIDE DEF Nodes
  <2>. QED  BY <2>1, <2>2, <2>3
<1>3. SmtDepth \in 0 .. SmtDepth /\ SmtDepth - SmtDepth = 0
  BY SmtDepthAssumption
<1>4. SmtDepth \in T
  <2>. HIDE DEF T
  <2>. QED  BY <1>1, <1>2, <1>3, Induction, SmtDepthAssumption
<1>5. tr \in Nodes(SmtDepth)
  BY <1>3, NodesAtIs
<1>6. Recalculated(tr)[SmtDepth][tr] \in Hashed(root, SmtDepth, 0)
  BY <1>4, <1>5
<1>. QED  BY <1>6 DEF RecalculateHashes

-----------------------------------------------------------------------------
(* Lists by increasing id.                                                 *)

\* s lists the ids of S by increasing id.
Sorted(s, S) == s \in Seq(Nat) /\ StrictlyIncreasing(s) /\ Range(s) = S

LEMMA SortedEmpty == Sorted(<<>>, {})
<1>1. <<>> \in Seq(Nat) /\ Len(<<>>) = 0 /\ DOMAIN <<>> = {}
  OBVIOUS
<1>2. StrictlyIncreasing(<<>>)
  BY <1>1 DEF StrictlyIncreasing
<1>3. Range(<<>>) = {}
  BY <1>1 DEF Range
<1>. QED  BY <1>1, <1>2, <1>3 DEF Sorted

LEMMA SortedOne ==
  ASSUME NEW i \in Nat
  PROVE  Sorted(<<i>>, {i})
<1>1. PICK s : s = <<i>>
  OBVIOUS
<1>2. s \in Seq(Nat) /\ Len(s) = 1 /\ DOMAIN s = {1} /\ s[1] = i
  BY <1>1
<1>3. StrictlyIncreasing(s)
  BY <1>2 DEF StrictlyIncreasing
<1>4. Range(s) = {i}
  BY <1>2 DEF Range
<1>. QED  BY <1>1, <1>2, <1>3, <1>4 DEF Sorted

LEMMA SortedJoin ==
  ASSUME NEW s, NEW t, NEW A, NEW B, Sorted(s, A), Sorted(t, B),
         \A a \in A, b \in B : a < b
  PROVE  Sorted(s \o t, A \cup B)
<1>1. PICK m, n \in Nat : m = Len(s) /\ n = Len(t)
  BY DEF Sorted
<1>2. /\ s \in Seq(Nat) /\ t \in Seq(Nat) /\ DOMAIN s = 1 .. m /\ DOMAIN t = 1 .. n
      /\ \A x \in 1 .. m - 1 : s[x] < s[x + 1]
      /\ \A x \in 1 .. n - 1 : t[x] < t[x + 1]
  BY <1>1 DEF Sorted, StrictlyIncreasing
<1>3. PICK u : u = s \o t
  OBVIOUS
<1>4. /\ u \in Seq(Nat) /\ Len(u) = m + n
      /\ \A x \in 1 .. m : u[x] = s[x]
      /\ \A x \in 1 .. n : u[m + x] = t[x]
  BY <1>1, <1>2, <1>3
<1>5. /\ \A x \in 1 .. m : s[x] \in A
      /\ \A x \in 1 .. n : t[x] \in B
      /\ \A a \in A : \E x \in 1 .. m : s[x] = a
      /\ \A b \in B : \E x \in 1 .. n : t[x] = b
  BY <1>2 DEF Sorted, Range
<1>6. ASSUME NEW x \in 1 .. m + n - 1  PROVE u[x] < u[x + 1]
  <2>1. CASE x \in 1 .. m - 1
    <3>1. x \in 1 .. m /\ x + 1 \in 1 .. m
      BY <2>1
    <3>. QED  BY <1>2, <1>4, <2>1, <3>1
  <2>2. CASE x = m
    <3>1. m \in 1 .. m /\ 1 \in 1 .. n /\ x + 1 = m + 1
      BY <2>2
    <3>. QED  BY <1>4, <1>5, <2>2, <3>1
  <2>3. CASE x \notin 1 .. m
    <3>1. PICK y : y = x - m
      OBVIOUS
    <3>2. y \in 1 .. n - 1 /\ y \in 1 .. n /\ y + 1 \in 1 .. n /\ x = m + y /\ x + 1 = m + (y + 1)
      BY <2>3, <3>1
    <3>. QED  BY <1>2, <1>4, <3>2
  <2>4. x \in 1 .. m - 1 \/ x = m \/ x \notin 1 .. m
    OBVIOUS
  <2>. QED  BY <2>1, <2>2, <2>3, <2>4
<1>7. StrictlyIncreasing(u)
  BY <1>4, <1>6 DEF StrictlyIncreasing
<1>8. Range(u) = A \cup B
  <2>1. DOMAIN u = 1 .. m + n
    BY <1>4
  <2>2. ASSUME NEW x \in 1 .. m + n  PROVE u[x] \in A \cup B
    <3>1. CASE x \in 1 .. m
      BY <1>4, <1>5, <3>1
    <3>2. CASE x \notin 1 .. m
      <4>1. x - m \in 1 .. n /\ m + (x - m) = x
        BY <3>2
      <4>2. u[m + (x - m)] = t[x - m]
        BY <1>4, <4>1
      <4>. QED  BY <1>5, <4>1, <4>2
    <3>. QED  BY <3>1, <3>2
  <2>3. ASSUME NEW a \in A  PROVE \E x \in 1 .. m + n : u[x] = a
    <3>1. PICK x \in 1 .. m : s[x] = a
      BY <1>5
    <3>2. x \in 1 .. m + n
      OBVIOUS
    <3>. QED  BY <1>4, <3>1, <3>2
  <2>4. ASSUME NEW b \in B  PROVE \E x \in 1 .. m + n : u[x] = b
    <3>1. PICK x \in 1 .. n : t[x] = b
      BY <1>5
    <3>2. m + x \in 1 .. m + n
      OBVIOUS
    <3>. QED  BY <1>4, <3>1, <3>2
  <2>. QED  BY <2>1, <2>2, <2>3, <2>4 DEF Range
<1>. QED  BY <1>3, <1>4, <1>7, <1>8 DEF Sorted

\* A set has one such list.
LEMMA SortedUnique ==
  ASSUME NEW s, NEW t, NEW A, Sorted(s, A), Sorted(t, A)
  PROVE  s = t
<1>1. PICK m, n \in Nat : m = Len(s) /\ n = Len(t)
  BY DEF Sorted
<1>2. s \in Seq(Nat) /\ t \in Seq(Nat) /\ DOMAIN s = 1 .. m /\ DOMAIN t = 1 .. n
  BY <1>1 DEF Sorted
<1>3. /\ \A x, y \in 1 .. m : x < y => s[x] < s[y]
      /\ \A x, y \in 1 .. n : x < y => t[x] < t[y]
  BY <1>1, Rising DEF Sorted
<1>4. /\ \A x \in 1 .. m : s[x] \in Nat /\ \E y \in 1 .. n : t[y] = s[x]
      /\ \A x \in 1 .. n : t[x] \in Nat /\ \E y \in 1 .. m : s[y] = t[x]
  <2>1. Range(s) = A /\ Range(t) = A
    BY DEF Sorted
  <2>2. {s[x] : x \in 1 .. m} = A /\ {t[x] : x \in 1 .. n} = A
    BY <1>2, <2>1, Zenon DEF Range
  <2>3. (\A x \in 1 .. m : s[x] \in Nat) /\ (\A x \in 1 .. n : t[x] \in Nat)
    BY <1>2
  <2>4. (\A x \in 1 .. m : s[x] \in A) /\ (\A x \in 1 .. n : t[x] \in A)
    BY <2>2
  <2>5. \A a \in A : (\E y \in 1 .. m : s[y] = a) /\ (\E y \in 1 .. n : t[y] = a)
    BY <2>2
  <2>. QED  BY <2>3, <2>4, <2>5
<1>. DEFINE Alike(x) == (x <= m <=> x <= n) /\ (x <= m => s[x] = t[x])
            U == {x \in Nat \ {0} : ~Alike(x)}
<1>5. U = {}
  <2>. SUFFICES ASSUME U # {}  PROVE FALSE
    OBVIOUS
  <2>1. PICK x \in U : \A y \in U : x <= y
    <3>1. U \in SUBSET Nat
      OBVIOUS
    <3>. HIDE DEF U
    <3>. QED  BY <3>1, LeastNumber
  <2>2. x \in Nat \ {0} /\ ~Alike(x)
    BY <2>1
  <2>3. \A y \in 1 .. x - 1 : Alike(y)
    BY <2>1, <2>2
  <2>4. ASSUME x <= m  PROVE x <= n /\ t[x] <= s[x]
    <3>1. x \in 1 .. m
      BY <2>2, <2>4
    <3>2. PICK y \in 1 .. n : t[y] = s[x]
      BY <1>4, <3>1
    <3>3. ~(y < x)
      <4>. SUFFICES ASSUME y < x  PROVE FALSE
        OBVIOUS
      <4>1. y \in 1 .. x - 1 /\ y <= n /\ y \in 1 .. m
        BY <2>2, <3>1
      <4>2. s[y] = t[y]
        BY <2>3, <4>1
      <4>3. s[y] < s[x] /\ s[x] \in Nat
        BY <1>3, <1>4, <3>1, <4>1
      <4>. QED  BY <3>2, <4>2, <4>3
    <3>4. x <= n /\ x \in 1 .. n /\ (x < y \/ x = y)
      BY <2>2, <3>2, <3>3
    <3>. QED  BY <1>3, <1>4, <3>1, <3>2, <3>4
  <2>5. ASSUME x <= n  PROVE x <= m /\ s[x] <= t[x]
    <3>1. x \in 1 .. n
      BY <2>2, <2>5
    <3>2. PICK y \in 1 .. m : s[y] = t[x]
      BY <1>4, <3>1
    <3>3. ~(y < x)
      <4>. SUFFICES ASSUME y < x  PROVE FALSE
        OBVIOUS
      <4>1. y \in 1 .. x - 1 /\ y <= m /\ y \in 1 .. n
        BY <2>2, <3>1
      <4>2. s[y] = t[y]
        BY <2>3, <4>1
      <4>3. t[y] < t[x] /\ t[x] \in Nat
        BY <1>3, <1>4, <3>1, <4>1
      <4>. QED  BY <3>2, <4>2, <4>3
    <3>4. x <= m /\ x \in 1 .. m /\ (x < y \/ x = y)
      BY <2>2, <3>2, <3>3
    <3>. QED  BY <1>3, <1>4, <3>1, <3>2, <3>4
  <2>6. x <= m => s[x] = t[x]
    <3>. SUFFICES ASSUME x <= m  PROVE s[x] = t[x]
      OBVIOUS
    <3>1. x \in 1 .. m /\ x \in 1 .. n
      BY <2>2, <2>4
    <3>2. PICK a \in Nat, b \in Nat : a = s[x] /\ b = t[x]
      BY <1>4, <3>1
    <3>3. b <= a /\ a <= b
      BY <2>4, <2>5, <3>2
    <3>. QED  BY <3>2, <3>3
  <2>. QED  BY <2>2, <2>4, <2>5, <2>6
<1>6. \A x \in Nat \ {0} : Alike(x)
  BY <1>5
<1>7. m = n
  <2>1. m # 0 => m <= n
    BY <1>6
  <2>2. n # 0 => n <= m
    BY <1>6
  <2>. QED  BY <2>1, <2>2
<1>8. \A x \in 1 .. m : s[x] = t[x]
  BY <1>6
<1>. QED  BY <1>1, <1>2, <1>7, <1>8

\* A member as collect_members and an upsert give it; s lists the members of S so.
EntryOf(root, i) == [id |-> i, leaf |-> root[i]]

SortedEntries(s, root, S) ==
  s \in Seq({EntryOf(root, i) : i \in S}) /\ Sorted(Ids(s), S)

LEMMA EntriesAre ==
  ASSUME NEW s, NEW root, NEW S, SortedEntries(s, root, S)
  PROVE  /\ s \in Seq({EntryOf(root, i) : i \in S}) /\ Len(s) \in Nat
         /\ DOMAIN s = 1 .. Len(s) /\ Len(Ids(s)) = Len(s)
         /\ \A n \in 1 .. Len(s) : s[n] = EntryOf(root, Ids(s)[n])
<1>1. s \in Seq({EntryOf(root, i) : i \in S})
  BY DEF SortedEntries
<1>2. Len(s) \in Nat /\ DOMAIN s = 1 .. Len(s)
      /\ \A n \in 1 .. Len(s) : s[n] \in {EntryOf(root, i) : i \in S}
  BY <1>1
<1>3. Ids(s) = [n \in 1 .. Len(s) |-> s[n].id]
  BY <1>2 DEF Ids
<1>4. Len(Ids(s)) = Len(s) /\ \A n \in 1 .. Len(s) : Ids(s)[n] = s[n].id
  BY <1>2, <1>3
<1>5. \A i : EntryOf(root, i).id = i
  BY DEF EntryOf
<1>6. \A n \in 1 .. Len(s) : s[n] = EntryOf(root, Ids(s)[n])
  BY <1>2, <1>4, <1>5
<1>. QED  BY <1>1, <1>2, <1>4, <1>6

LEMMA EntriesUnique ==
  ASSUME NEW s, NEW t, NEW root, NEW S, SortedEntries(s, root, S), SortedEntries(t, root, S)
  PROVE  s = t
<1>1. Ids(s) = Ids(t)
  BY SortedUnique DEF SortedEntries
<1>2. PICK E, n, ids : E = {EntryOf(root, i) : i \in S} /\ n = Len(s) /\ ids = Ids(s)
  BY Zenon
<1>3. /\ s \in Seq(E) /\ n \in Nat /\ Len(ids) = n
      /\ \A x \in 1 .. n : s[x] = EntryOf(root, ids[x])
  BY <1>2, EntriesAre, Zenon
<1>4. /\ t \in Seq(E) /\ Len(t) = n
      /\ \A x \in 1 .. Len(t) : t[x] = EntryOf(root, ids[x])
  <2>1. /\ t \in Seq({EntryOf(root, i) : i \in S}) /\ Len(Ids(t)) = Len(t)
        /\ \A x \in 1 .. Len(t) : t[x] = EntryOf(root, Ids(t)[x])
    BY EntriesAre, Zenon
  <2>. QED  BY <1>1, <1>2, <1>3, <2>1, Zenon
<1>5. \A x \in 1 .. n : s[x] = t[x]
  BY <1>3, <1>4, Zenon
<1>. QED  BY <1>2, <1>3, <1>4, <1>5

LEMMA EntriesRange ==
  ASSUME NEW s, NEW root, NEW S, SortedEntries(s, root, S)
  PROVE  Range(s) = {EntryOf(root, i) : i \in S} /\ StrictlyIncreasing(Ids(s))
<1>1. PICK ids : ids = Ids(s)
  OBVIOUS
<1>2. ids \in Seq(Nat) /\ Range(ids) = S /\ StrictlyIncreasing(ids)
  BY <1>1 DEF SortedEntries, Sorted
<1>3. DOMAIN s = 1 .. Len(s) /\ Len(ids) = Len(s) /\ \A n \in 1 .. Len(s) : s[n] = EntryOf(root, ids[n])
  BY <1>1, EntriesAre
<1>4. DOMAIN ids = 1 .. Len(s)
  BY <1>2, <1>3
<1>. QED  BY <1>1, <1>2, <1>3, <1>4 DEF Range

LEMMA EntriesEmpty ==
  ASSUME NEW root
  PROVE  SortedEntries(<<>>, root, {})
<1>1. Ids(<<>>) = <<>>
  <2>1. DOMAIN <<>> = {}
    OBVIOUS
  <2>. QED  BY <2>1 DEF Ids
<1>. QED  BY <1>1, SortedEmpty DEF SortedEntries

LEMMA EntriesOne ==
  ASSUME NEW root, NEW i \in Nat
  PROVE  SortedEntries(<<EntryOf(root, i)>>, root, {i})
<1>1. PICK e, s : e = EntryOf(root, i) /\ s = <<e>>
  OBVIOUS
<1>2. e.id = i
  BY <1>1 DEF EntryOf
<1>3. s \in Seq({e}) /\ DOMAIN s = 1 .. 1 /\ s[1] = e
  BY <1>1
<1>4. Ids(s) = [n \in 1 .. 1 |-> i]
  BY <1>2, <1>3 DEF Ids
<1>5. Ids(s) = <<i>>
  BY <1>4
<1>6. {EntryOf(root, j) : j \in {i}} = {e}
  BY <1>1
<1>. QED  BY <1>1, <1>3, <1>5, <1>6, SortedOne DEF SortedEntries

LEMMA Joined ==
  ASSUME NEW S, NEW s \in Seq(S), NEW t \in Seq(S), NEW m \in Nat, NEW n \in Nat,
         Len(s) = m, Len(t) = n
  PROVE  /\ s \o t \in Seq(S) /\ Len(s \o t) = m + n /\ DOMAIN (s \o t) = 1 .. m + n
         /\ \A x \in 1 .. m + n : (s \o t)[x] = IF x <= m THEN s[x] ELSE t[x - m]
OBVIOUS

LEMMA EntriesJoin ==
  ASSUME NEW s, NEW t, NEW root, NEW A, NEW B,
         SortedEntries(s, root, A), SortedEntries(t, root, B), \A a \in A, b \in B : a < b
  PROVE  SortedEntries(s \o t, root, A \cup B)
<1>. DEFINE E(S) == {EntryOf(root, i) : i \in S}
<1>1. /\ s \in Seq(E(A)) /\ Len(s) \in Nat /\ DOMAIN s = 1 .. Len(s)
      /\ t \in Seq(E(B)) /\ Len(t) \in Nat /\ DOMAIN t = 1 .. Len(t)
  BY EntriesAre
<1>2. E(A \cup B) = E(A) \cup E(B)
  OBVIOUS
<1>. HIDE DEF E
<1>3. s \in Seq(E(A \cup B)) /\ t \in Seq(E(A \cup B))
  <2>1. PICK X, Y, Z : X = E(A) /\ Y = E(B) /\ Z = E(A \cup B)
    BY Zenon
  <2>2. X \subseteq Z /\ Y \subseteq Z /\ s \in Seq(X) /\ t \in Seq(Y)
    BY <1>1, <1>2, <2>1
  <2>3. s \in Seq(Z) /\ t \in Seq(Z)
    BY <2>2
  <2>. QED  BY <2>1, <2>3
<1>4. s \o t \in Seq(E(A \cup B))
  BY <1>3
<1>5. Ids(s \o t) = Ids(s) \o Ids(t)
  <2>1. PICK m, n, u : m \in Nat /\ n \in Nat /\ m = Len(s) /\ n = Len(t) /\ u = s \o t
    BY <1>1
  <2>. m \in Nat /\ n \in Nat
    BY <2>1
  <2>2. /\ DOMAIN u = 1 .. m + n
        /\ \A x \in 1 .. m + n : u[x] = IF x <= m THEN s[x] ELSE t[x - m]
    BY <1>3, <2>1
  <2>3. PICK a, b : a = Ids(s) /\ b = Ids(t)
    OBVIOUS
  <2>4. a = [x \in 1 .. m |-> s[x].id] /\ b = [x \in 1 .. n |-> t[x].id]
    BY <1>1, <2>1, <2>3 DEF Ids
  <2>5. a \in Seq(Nat) /\ b \in Seq(Nat) /\ Len(a) = m /\ Len(b) = n
    <3>1. a \in Seq(Nat) /\ b \in Seq(Nat)
      BY <2>3 DEF SortedEntries, Sorted
    <3>. QED  BY <2>4, <3>1
  <2>6. PICK v : v = a \o b
    OBVIOUS
  <2>7. Ids(u) = [x \in 1 .. m + n |-> u[x].id]
    BY <2>2 DEF Ids
  <2>8. v \in Seq(Nat) /\ Len(v) = m + n
        /\ \A x \in 1 .. m + n : v[x] = IF x <= m THEN a[x] ELSE b[x - m]
    BY <2>5, <2>6, Joined
  <2>9. \A x \in 1 .. m + n : u[x].id = v[x]
    <3>. SUFFICES ASSUME NEW x \in 1 .. m + n
                  PROVE  u[x].id = v[x]
      OBVIOUS
    <3>1. CASE x <= m
      <4>1. x \in 1 .. m
        BY <3>1
      <4>. QED  BY <2>2, <2>4, <2>8, <3>1, <4>1
    <3>2. CASE ~(x <= m)
      <4>1. x - m \in 1 .. n
        BY <3>2
      <4>. QED  BY <2>2, <2>4, <2>8, <3>2, <4>1
    <3>. QED  BY <3>1, <3>2
  <2>10. Ids(u) = v
    BY <2>7, <2>8, <2>9
  <2>. QED  BY <2>1, <2>3, <2>6, <2>10
<1>6. Sorted(Ids(s) \o Ids(t), A \cup B)
  BY SortedJoin DEF SortedEntries
<1>. QED  BY <1>4, <1>5, <1>6 DEF SortedEntries, E

-----------------------------------------------------------------------------
(* The ids below a position.                                               *)

Below(S, k, p) == {i \in S : Prefix(i)[k] = p}

LEMMA BelowHalves ==
  ASSUME NEW S, S \subseteq Nat, NEW k \in 1 .. SmtDepth, NEW p \in Nat
  PROVE  /\ Below(S, k, p) = Below(S, k - 1, 2 * p) \cup Below(S, k - 1, 2 * p + 1)
         /\ \A i \in Below(Nat, k - 1, 2 * p), j \in Below(Nat, k - 1, 2 * p + 1) : i < j
<1>1. \A i \in S :
        (Prefix(i)[k] = p) <=> (Prefix(i)[k - 1] = 2 * p \/ Prefix(i)[k - 1] = 2 * p + 1)
  BY PrefixAbove
<1>2. ASSUME NEW i \in Below(Nat, k - 1, 2 * p), NEW j \in Below(Nat, k - 1, 2 * p + 1)
      PROVE  i < j
  <2>1. i \in Nat /\ j \in Nat /\ Prefix(i)[k - 1] = 2 * p /\ Prefix(j)[k - 1] = 2 * p + 1
    BY DEF Below
  <2>2. k - 1 \in 0 .. SmtDepth /\ 2 * p < 2 * p + 1
    BY SmtDepthAssumption
  <2>3. Prefix(i)[k - 1] < Prefix(j)[k - 1]
    BY <2>1, <2>2
  <2>. QED  BY <2>1, <2>2, <2>3, PrefixOrder
<1>3. Below(S, k, p) = Below(S, k - 1, 2 * p) \cup Below(S, k - 1, 2 * p + 1)
  BY <1>1, Zenon DEF Below
<1>. QED  BY <1>2, <1>3

LEMMA BelowLeaf ==
  ASSUME NEW S, NEW p
  PROVE  Below(S, 0, p) = IF p \in S THEN {p} ELSE {}
BY PrefixIs DEF Below

LEMMA BelowRoot ==
  ASSUME NEW S, S \subseteq AllIds
  PROVE  Below(S, SmtDepth, 0) = S
BY AllIdsPrefix DEF Below

-----------------------------------------------------------------------------
(* get_member and collect_members.                                         *)

\* A lookup by id finds the member's leaf, and nothing where there is none.
LEMMA GetMemberIs ==
  ASSUME NEW root, DOMAIN root \subseteq Nat, NEW i \in AllIds,
         NEW tr \in Hashed(root, SmtDepth, 0)
  PROVE  GetMember(tr, i) = IF i \in DOMAIN root THEN {root[i]} ELSE {}
<1>. DEFINE At(k) == Reached(tr, i)[SmtDepth - k]
            Found(k) == \/ \E node \in Hashed(root, k, Prefix(i)[k]) : At(k) = {node}
                        \/ At(k) = {} /\ Vacant(root, k, Prefix(i)[k])
            T == {d \in Nat : Found(SmtDepth - d)}
<1>0. i \in Nat /\ Prefix(i)[SmtDepth] = 0
  BY AllIdsPrefix
<1>1. 0 \in T
  <2>1. SmtDepth - 0 = SmtDepth /\ SmtDepth - SmtDepth = 0
    BY SmtDepthAssumption
  <2>2. At(SmtDepth) = {tr}
    BY <2>1, ReachedIs, Zenon
  <2>3. Found(SmtDepth)
    <3>. HIDE DEF At
    <3>. QED  BY <1>0, <2>2
  <2>. HIDE DEF Found
  <2>. QED  BY <2>1, <2>3
<1>2. ASSUME NEW d \in 0 .. SmtDepth - 1, d \in T  PROVE d + 1 \in T
  <2>1. PICK k, n : k = SmtDepth - d /\ n = k - 1
    OBVIOUS
  <2>2. /\ k \in 1 .. SmtDepth /\ k \in 0 .. SmtDepth /\ n \in 0 .. SmtDepth
        /\ SmtDepth - (d + 1) = n /\ d + 1 \in Nat /\ SmtDepth - k = d /\ SmtDepth - n = d + 1
        /\ d + 1 \in 1 .. SmtDepth /\ (d + 1) - 1 = d
    BY <2>1, SmtDepthAssumption
  <2>3. PICK p : p = Prefix(i)[k]
    OBVIOUS
  <2>4. p \in Nat /\ Prefix(i)[n] = IF Bit(i, d) THEN 2 * p + 1 ELSE 2 * p
    BY <1>0, <2>1, <2>2, <2>3, PrefixHalves
  <2>5. At(n) = {ChildOn(i, d, x) : x \in {y \in At(k) : y.kind = "Internal"}}
    BY <2>2, ReachedIs
  <2>6. Found(k)
    <3>. HIDE DEF Found
    <3>. QED  BY <1>2, <2>1
  <2>. HIDE DEF At
  <2>7. ASSUME At(k) = {}, Vacant(root, k, p)
        PROVE  Found(n)
    <3>1. At(n) = {}
      BY <2>5, <2>7
    <3>2. Vacant(root, n, 2 * p) /\ Vacant(root, n, 2 * p + 1)
      BY <2>1, <2>2, <2>4, <2>7, VacantBelow, SMTT(30)
    <3>3. Vacant(root, n, Prefix(i)[n])
      BY <2>4, <3>2, Zenon
    <3>. QED  BY <3>1, <3>3
  <2>8. ASSUME NEW node \in Hashed(root, k, p), At(k) = {node}
        PROVE  Found(n)
    <3>1. CASE node.kind = "Internal"
      <4>1. node.left \in Hashed(root, n, 2 * p) /\ node.right \in Hashed(root, n, 2 * p + 1)
        BY <2>1, <2>2, <2>4, <2>8, <3>1, HashedNode
      <4>2. ChildOn(i, d, node) \in Hashed(root, n, Prefix(i)[n])
        BY <2>4, <4>1, Zenon DEF ChildOn
      <4>3. At(n) = {ChildOn(i, d, node)}
        BY <2>5, <2>8, <3>1
      <4>. QED  BY <4>2, <4>3
    <3>2. CASE node.kind # "Internal"
      <4>1. Vacant(root, k, p)
        BY <2>2, <2>4, <2>8, <3>2, HashedNode
      <4>2. Vacant(root, n, 2 * p) /\ Vacant(root, n, 2 * p + 1)
        BY <2>1, <2>2, <2>4, <4>1, VacantBelow
      <4>3. Vacant(root, n, Prefix(i)[n])
        BY <2>4, <4>2, Zenon
      <4>4. At(n) = {}
        BY <2>5, <2>8, <3>2
      <4>. QED  BY <4>3, <4>4
    <3>. QED  BY <3>1, <3>2
  <2>9. Found(n)
    BY <2>3, <2>6, <2>7, <2>8
  <2>. HIDE DEF Found
  <2>. QED  BY <2>2, <2>9
<1>3. Found(0)
  <2>1. SmtDepth \in 0 .. SmtDepth /\ SmtDepth - SmtDepth = 0
    BY SmtDepthAssumption
  <2>2. SmtDepth \in T
    <3>. HIDE DEF T
    <3>. QED  BY <1>1, <1>2, <2>1, Induction, SmtDepthAssumption
  <2>. HIDE DEF Found
  <2>. QED  BY <2>1, <2>2
<1>4. Prefix(i)[0] = i /\ SmtDepth - 0 = SmtDepth
  BY PrefixIs, SmtDepthAssumption
<1>5. GetMember(tr, i) = {node.leaf : node \in {n \in At(0) : n.kind = "Leaf"}}
  BY <1>4 DEF GetMember
<1>. HIDE DEF At
<1>6. CASE At(0) = {} /\ Vacant(root, 0, i)
  BY <1>0, <1>5, <1>6, VacantLeaf
<1>7. ASSUME NEW node \in Hashed(root, 0, i), At(0) = {node}
      PROVE  GetMember(tr, i) = IF i \in DOMAIN root THEN {root[i]} ELSE {}
  <2>1. /\ i \in DOMAIN root => node.kind = "Leaf" /\ node.leaf = root[i]
        /\ i \notin DOMAIN root => node.kind = "Empty"
    BY <1>0, <1>7, HashedBottom
  <2>. QED  BY <1>5, <1>7, <2>1
<1>. QED  BY <1>3, <1>4, <1>6, <1>7

\* collect_members lists the members by increasing id.
LEMMA CollectIs ==
  ASSUME NEW root, DOMAIN root \subseteq AllIds, NEW tr \in Hashed(root, SmtDepth, 0)
  PROVE  SortedEntries(CollectMembers(tr), root, DOMAIN root)
<1>. DEFINE Nodes(k) == NodesAt(tr)[SmtDepth - k]
            S == DOMAIN root
            T == {k \in Nat : \A q \in Nat : \A node \in Hashed(root, k, q) :
                    node \in Nodes(k) =>
                      SortedEntries(Collected(tr)[k][node], root, Below(S, k, q))}
<1>0. S \subseteq Nat
  BY AllIdsPrefix
<1>1. 0 \in T
  <2>1. SmtDepth - 0 = SmtDepth
    BY SmtDepthAssumption
  <2>2. Collected(tr)[0] = [node \in Nodes(0) |-> CollectLeaf(node)]
    BY <2>1, CollectedIs, Zenon
  <2>3. \A node \in Nodes(0) : Collected(tr)[0][node] = CollectLeaf(node)
    BY <2>2, Zenon
  <2>4. ASSUME NEW q \in Nat, NEW node \in Hashed(root, 0, q)
        PROVE  SortedEntries(CollectLeaf(node), root, Below(S, 0, q))
    <3>1. CASE q \in S
      <4>1. node.kind = "Leaf" /\ node.id = q /\ node.leaf = root[q]
        BY <3>1, HashedBottom
      <4>2. CollectLeaf(node) = <<EntryOf(root, q)>>
        BY <4>1 DEF CollectLeaf, EntryOf
      <4>3. Below(S, 0, q) = {q}
        BY <3>1, BelowLeaf
      <4>. QED  BY <4>2, <4>3, EntriesOne
    <3>2. CASE q \notin S
      <4>1. node.kind = "Empty"
        BY <3>2, HashedBottom
      <4>2. CollectLeaf(node) = <<>>
        BY <4>1 DEF CollectLeaf
      <4>3. Below(S, 0, q) = {}
        BY <3>2, BelowLeaf
      <4>. QED  BY <4>2, <4>3, EntriesEmpty
    <3>. QED  BY <3>1, <3>2
  <2>. HIDE DEF Nodes, S
  <2>. QED  BY <2>3, <2>4
<1>2. ASSUME NEW n \in 0 .. SmtDepth - 1, n \in T  PROVE n + 1 \in T
  <2>1. PICK k : k = n + 1
    OBVIOUS
  <2>2. k \in 1 .. SmtDepth /\ k \in 0 .. SmtDepth /\ k - 1 = n /\ k \in Nat /\ n \in 0 .. SmtDepth
    BY <2>1, SmtDepthAssumption
  <2>3. ASSUME NEW q \in Nat, NEW node \in Hashed(root, k, q), node \in Nodes(k)
        PROVE  SortedEntries(Collected(tr)[k][node], root, Below(S, k, q))
    <3>1. 2 * q \in Nat /\ 2 * q + 1 \in Nat
      OBVIOUS
    <3>2. PICK below : below = Collected(tr)[n]
      OBVIOUS
    <3>3. Collected(tr)[k] = [x \in Nodes(k) |-> CollectNode(x, below)]
      <4>1. Collected(tr)[k] = [x \in NodesAt(tr)[SmtDepth - k] |-> CollectNode(x, Collected(tr)[k - 1])]
        BY <2>2, CollectedIs, Zenon
      <4>. QED  BY <2>2, <3>2, <4>1
    <3>4. Collected(tr)[k][node] = CollectNode(node, below)
      BY <2>3, <3>3, Zenon
    <3>5. DOMAIN root \subseteq Nat
      BY <1>0
    <3>6. CASE node.kind = "Internal"
      <4>1. PICK l, r : l = node.left /\ r = node.right
        OBVIOUS
      <4>2. Left(node) = l /\ Right(node) = r
        BY <3>6, <4>1 DEF Left, Right
      <4>3. l \in Nodes(n) /\ r \in Nodes(n)
        BY <2>2, <2>3, <4>2, NodesBelow
      <4>4. l \in Hashed(root, n, 2 * q) /\ r \in Hashed(root, n, 2 * q + 1)
        BY <2>2, <2>3, <3>5, <3>6, <4>1, HashedNode
      <4>5. PICK A, B : A = Below(S, n, 2 * q) /\ B = Below(S, n, 2 * q + 1)
        OBVIOUS
      <4>6. SortedEntries(below[l], root, A) /\ SortedEntries(below[r], root, B)
        <5>. HIDE DEF Nodes, S
        <5>. QED  BY <1>2, <3>1, <3>2, <4>3, <4>4, <4>5
      <4>7. Below(S, k, q) = A \cup B /\ \A a \in A, b \in B : a < b
        <5>. HIDE DEF S
        <5>1. A \subseteq Below(Nat, n, 2 * q) /\ B \subseteq Below(Nat, n, 2 * q + 1)
          BY <1>0, <4>5 DEF Below
        <5>. QED  BY <1>0, <2>2, <4>5, <5>1, BelowHalves
      <4>8. CollectNode(node, below) = below[l] \o below[r]
        BY <3>6, <4>1 DEF CollectNode
      <4>9. SortedEntries(below[l] \o below[r], root, A \cup B)
        BY <4>6, <4>7, EntriesJoin
      <4>. QED  BY <3>4, <4>7, <4>8, <4>9
    <3>7. CASE node.kind # "Internal"
      <4>1. node.kind = "Empty" /\ Vacant(root, k, q)
        BY <2>2, <2>3, <3>5, <3>7, HashedNode
      <4>2. CollectNode(node, below) = <<>>
        BY <4>1 DEF CollectNode, CollectLeaf
      <4>3. Below(S, k, q) = {}
        BY <4>1 DEF Below, Vacant
      <4>. QED  BY <3>4, <4>2, <4>3, EntriesEmpty
    <3>. QED  BY <3>6, <3>7
  <2>. HIDE DEF Nodes, S
  <2>. QED  BY <2>1, <2>2, <2>3
<1>3. SmtDepth \in 0 .. SmtDepth /\ SmtDepth - SmtDepth = 0
  BY SmtDepthAssumption
<1>4. SmtDepth \in T
  <2>. HIDE DEF T
  <2>. QED  BY <1>1, <1>2, <1>3, Induction, SmtDepthAssumption
<1>5. tr \in Nodes(SmtDepth)
  BY <1>3, NodesAtIs
<1>6. SortedEntries(Collected(tr)[SmtDepth][tr], root, Below(S, SmtDepth, 0))
  <2>. HIDE DEF Nodes, S
  <2>. QED  BY <1>4, <1>5
<1>. QED  BY <1>6, BelowRoot DEF CollectMembers

-----------------------------------------------------------------------------
(* diff_tries.                                                             *)

\* No subtree has the hash of a higher empty one.
LEMMA NotDefault ==
  ASSUME NEW root, NEW k \in 0 .. SmtDepth, NEW j \in 0 .. SmtDepth, k < j, NEW p \in Nat
  PROVE  HashAt(root, k, p) # DefaultHash[j]
<1>. DEFINE T == {n \in Nat : \A m \in 0 .. SmtDepth, q \in Nat :
                    n < m => HashAt(root, n, q) # DefaultHash[m]}
<1>0. \A m \in 1 .. SmtDepth : DefaultHash[m] = HashMemberNode(DefaultHash[m - 1], DefaultHash[m - 1])
  BY DefaultHashIs
<1>1. 0 \in T
  <2>1. ASSUME NEW m \in 0 .. SmtDepth, NEW q \in Nat, 0 < m
        PROVE  HashAt(root, 0, q) # DefaultHash[m]
    <3>1. \A x, a, b : HashMemberLeaf(x) # HashMemberNode(a, b)
      BY DEF HashMemberLeaf, HashMemberNode
    <3>2. \E x : HashAt(root, 0, q) = HashMemberLeaf(x)
      BY FormLeaf, DefaultHashIs, Zenon DEF LeafHash
    <3>3. m \in 1 .. SmtDepth
      BY <2>1
    <3>. QED  BY <1>0, <3>1, <3>2, <3>3, Zenon
  <2>. QED  BY <2>1
<1>2. ASSUME NEW n \in 0 .. SmtDepth - 1, n \in T  PROVE n + 1 \in T
  <2>1. PICK l : l = n + 1
    OBVIOUS
  <2>2. l \in 1 .. SmtDepth /\ l - 1 = n /\ l \in Nat
    BY <2>1, SmtDepthAssumption
  <2>3. ASSUME NEW m \in 0 .. SmtDepth, NEW q \in Nat, l < m, HashAt(root, l, q) = DefaultHash[m]
        PROVE  FALSE
    <3>0. l < m
      BY <2>3, Zenon
    <3>1. m \in 1 .. SmtDepth /\ m - 1 \in 0 .. SmtDepth /\ n < m - 1 /\ 2 * q \in Nat
      BY <2>2, <3>0, SmtDepthAssumption
    <3>2. PICK a, b, c : /\ a = HashAt(root, n, 2 * q) /\ b = HashAt(root, n, 2 * q + 1)
                         /\ c = DefaultHash[m - 1]
      BY Zenon
    <3>3. HashAt(root, l, q) = HashMemberNode(a, b)
      BY <2>2, <3>2, FormNode
    <3>4. DefaultHash[m] = HashMemberNode(c, c)
      BY <1>0, <3>1, <3>2, Zenon
    <3>5. a = c
      BY <2>3, <3>3, <3>4, NodeHashTells
    <3>. QED  BY <1>2, <3>1, <3>2, <3>5
  <2>. QED  BY <2>1, <2>2, <2>3
<1>3. k \in T
  <2>. HIDE DEF T
  <2>. QED  BY <1>1, <1>2, Induction, SmtDepthAssumption
<1>. QED  BY <1>3

\* What diff_recursive may see at a position: a hashed subtree, or a higher empty
\* one that has no children to descend into.
Seen(root, k, p) ==
  Hashed(root, k, p)
    \cup {node \in {Empty(j) : j \in k .. SmtDepth} : Vacant(root, k, p)}

EmptyHash(hash, k) == \E j \in k .. SmtDepth : hash = {DefaultHash[j]}

LEMMA SeenIs ==
  ASSUME NEW root, DOMAIN root \subseteq Nat, NEW k \in 0 .. SmtDepth, NEW p \in Nat,
         NEW node \in Seen(root, k, p)
  PROVE  /\ node.hash # {}
         /\ \/ node.hash = {HashAt(root, k, p)}
            \/ Vacant(root, k, p) /\ EmptyHash(node.hash, k)
<1>1. CASE node \in Hashed(root, k, p)
  BY <1>1, HashedHash
<1>2. ASSUME NEW j \in k .. SmtDepth, node = Empty(j), Vacant(root, k, p)
      PROVE  node.hash # {} /\ Vacant(root, k, p) /\ EmptyHash(node.hash, k)
  BY <1>2, EmptyIs DEF EmptyHash
<1>. QED  BY <1>1, <1>2 DEF Seen

\* Subtrees with the same hash hold the same members.
LEMMA SeenSame ==
  ASSUME NEW r1 \in Roots, NEW r2 \in Roots, NEW k \in 0 .. SmtDepth, NEW p \in Nat,
         NEW a \in Seen(r1, k, p), NEW b \in Seen(r2, k, p), a.hash = b.hash
  PROVE  SameIn(r1, r2, k, p)
<1>1. DOMAIN r1 \subseteq Nat /\ DOMAIN r2 \subseteq Nat
  BY RootIs
<1>2. ASSUME NEW r \in Roots, NEW s \in Roots, Vacant(r, k, p), NEW j \in k .. SmtDepth,
             DefaultHash[j] = HashAt(s, k, p)
      PROVE  HashAt(r, k, p) = HashAt(s, k, p)
  <2>1. DOMAIN r \subseteq Nat /\ j \in 0 .. SmtDepth
    BY RootIs
  <2>2. ~(k < j)
    BY <1>2, <2>1, NotDefault
  <2>3. j = k
    BY <2>2
  <2>. QED  BY <1>2, <2>1, <2>3, VacantHash
<1>3. PICK x, y : x = HashAt(r1, k, p) /\ y = HashAt(r2, k, p)
  OBVIOUS
<1>4. CASE a.hash = {x} /\ b.hash = {y}
  <2>1. x = y
    BY <1>4
  <2>. QED  BY <1>3, <2>1, HashTells
<1>5. CASE Vacant(r1, k, p) /\ Vacant(r2, k, p)
  BY <1>1, <1>5 DEF SameIn, SameId, Vacant
<1>6. ASSUME Vacant(r1, k, p), NEW j \in k .. SmtDepth, a.hash = {DefaultHash[j]}, b.hash = {y}
      PROVE  SameIn(r1, r2, k, p)
  <2>1. DefaultHash[j] = y
    BY <1>6
  <2>2. x = y
    BY <1>2, <1>3, <1>6, <2>1
  <2>. QED  BY <1>3, <2>2, HashTells
<1>7. ASSUME Vacant(r2, k, p), NEW j \in k .. SmtDepth, b.hash = {DefaultHash[j]}, a.hash = {x}
      PROVE  SameIn(r1, r2, k, p)
  <2>1. DefaultHash[j] = x
    BY <1>7
  <2>2. x = y
    BY <1>2, <1>3, <1>7, <2>1
  <2>. QED  BY <1>3, <2>2, HashTells
<1>8. /\ a.hash = {x} \/ (Vacant(r1, k, p) /\ EmptyHash(a.hash, k))
      /\ b.hash = {y} \/ (Vacant(r2, k, p) /\ EmptyHash(b.hash, k))
  <2>1. \/ a.hash = {HashAt(r1, k, p)}
        \/ Vacant(r1, k, p) /\ EmptyHash(a.hash, k)
    BY <1>1, SeenIs, Zenon
  <2>2. \/ b.hash = {HashAt(r2, k, p)}
        \/ Vacant(r2, k, p) /\ EmptyHash(b.hash, k)
    BY <1>1, SeenIs, Zenon
  <2>. QED  BY <1>3, <2>1, <2>2
<1>. QED  BY <1>4, <1>5, <1>6, <1>7, <1>8 DEF EmptyHash

\* The children seen from a node.
LEMMA SeenBelow ==
  ASSUME NEW root, DOMAIN root \subseteq Nat, NEW k \in 1 .. SmtDepth, NEW p \in Nat,
         NEW node \in Seen(root, k, p)
  PROVE  /\ Left(node) \in Seen(root, k - 1, 2 * p)
         /\ Right(node) \in Seen(root, k - 1, 2 * p + 1)
         /\ node.kind \in {"Internal", "Empty"}
         /\ node.kind = "Empty" => Vacant(root, k, p)
<1>1. CASE node \in Hashed(root, k, p) /\ node.kind = "Internal"
  <2>1. Left(node) = node.left /\ Right(node) = node.right
    BY <1>1 DEF Left, Right
  <2>2. node.left \in Hashed(root, k - 1, 2 * p) /\ node.right \in Hashed(root, k - 1, 2 * p + 1)
    BY <1>1, HashedNode
  <2>. QED  BY <1>1, <2>1, <2>2 DEF Seen
<1>2. ASSUME NEW j \in k .. SmtDepth, node = Empty(j), Vacant(root, k, p)
      PROVE  /\ Left(node) \in Seen(root, k - 1, 2 * p)
             /\ Right(node) \in Seen(root, k - 1, 2 * p + 1)
             /\ node.kind = "Empty"
  <2>1. node.kind = "Empty"
    BY <1>2, EmptyIs
  <2>2. Left(node) = Empty(j) /\ Right(node) = Empty(j)
    BY <1>2, <2>1 DEF Left, Right
  <2>3. Vacant(root, k - 1, 2 * p) /\ Vacant(root, k - 1, 2 * p + 1)
    BY <1>2, VacantBelow
  <2>4. j \in k - 1 .. SmtDepth
    OBVIOUS
  <2>. QED  BY <2>1, <2>2, <2>3, <2>4 DEF Seen
<1>3. \/ node \in Hashed(root, k, p) /\ node.kind = "Internal"
      \/ Vacant(root, k, p) /\ \E j \in k .. SmtDepth : node = Empty(j)
  <2>1. CASE node \in Hashed(root, k, p)
    <3>1. k \in k .. SmtDepth
      OBVIOUS
    <3>. QED  BY <2>1, <3>1, HashedNode
  <2>2. CASE node \notin Hashed(root, k, p)
    BY <2>2 DEF Seen
  <2>. QED  BY <2>1, <2>2
<1>. QED  BY <1>1, <1>2, <1>3

LEMMA SeenLeaf ==
  ASSUME NEW root, DOMAIN root \subseteq Nat, NEW p \in Nat, NEW node \in Seen(root, 0, p)
  PROVE  /\ p \in DOMAIN root => node.kind = "Leaf" /\ node.id = p /\ node.leaf = root[p]
         /\ p \notin DOMAIN root => node.kind = "Empty"
<1>1. CASE node \in Hashed(root, 0, p)
  BY <1>1, HashedBottom
<1>2. CASE node \notin Hashed(root, 0, p)
  <2>1. Vacant(root, 0, p) /\ \E j : node = Empty(j)
    BY <1>2 DEF Seen
  <2>. QED  BY <2>1, VacantLeaf, EmptyIs
<1>. QED  BY <1>1, <1>2

\* The members that a delta removes, and those it inserts or changes.
GoneIds(r1, r2) == DOMAIN r1 \ DOMAIN r2
ChangedIds(r1, r2) == {i \in DOMAIN r2 : i \in DOMAIN r1 => r1[i] # r2[i]}

\* d is the delta of the members below a position, in canonical order.
IsDiff(d, r1, r2, k, p) ==
  /\ d = [removed |-> d.removed, upserted |-> d.upserted]
  /\ Sorted(d.removed, Below(GoneIds(r1, r2), k, p))
  /\ SortedEntries(d.upserted, r2, Below(ChangedIds(r1, r2), k, p))

LEMMA DiffIs ==
  ASSUME NEW r1, NEW r2, NEW k, NEW p, NEW x, NEW y,
         Sorted(x, Below(GoneIds(r1, r2), k, p)),
         SortedEntries(y, r2, Below(ChangedIds(r1, r2), k, p))
  PROVE  IsDiff([removed |-> x, upserted |-> y], r1, r2, k, p)
<1>1. PICK d : d = [removed |-> x, upserted |-> y]
  OBVIOUS
<1>2. d.removed = x /\ d.upserted = y
  BY <1>1
<1>3. IsDiff(d, r1, r2, k, p)
  BY <1>1, <1>2 DEF IsDiff
<1>. QED  BY <1>1, <1>3

LEMMA NoDiffIs ==
  ASSUME NEW r1 \in Roots, NEW r2 \in Roots, NEW k, NEW p, SameIn(r1, r2, k, p)
  PROVE  IsDiff(NoDiff, r1, r2, k, p)
<1>1. DOMAIN r1 \subseteq Nat /\ DOMAIN r2 \subseteq Nat
  BY RootIs
<1>2. Below(GoneIds(r1, r2), k, p) = {} /\ Below(ChangedIds(r1, r2), k, p) = {}
  BY <1>1 DEF SameIn, SameId, Below, GoneIds, ChangedIds
<1>3. NoDiff.removed = <<>> /\ NoDiff.upserted = <<>>
      /\ NoDiff = [removed |-> NoDiff.removed, upserted |-> NoDiff.upserted]
  BY DEF NoDiff
<1>. QED  BY <1>2, <1>3, SortedEmpty, EntriesEmpty DEF IsDiff

LEMMA JoinIs ==
  ASSUME NEW r1 \in Roots, NEW r2 \in Roots, NEW k \in 1 .. SmtDepth, NEW p \in Nat,
         NEW d, NEW e, IsDiff(d, r1, r2, k - 1, 2 * p), IsDiff(e, r1, r2, k - 1, 2 * p + 1)
  PROVE  IsDiff(Join(d, e), r1, r2, k, p)
<1>1. DOMAIN r1 \subseteq Nat /\ DOMAIN r2 \subseteq Nat
  BY RootIs
<1>2. PICK G, C : G = GoneIds(r1, r2) /\ C = ChangedIds(r1, r2)
  OBVIOUS
<1>3. G \subseteq Nat /\ C \subseteq Nat
  BY <1>1, <1>2 DEF GoneIds, ChangedIds
<1>4. PICK ga, gb, ca, cb : /\ ga = Below(G, k - 1, 2 * p) /\ gb = Below(G, k - 1, 2 * p + 1)
                            /\ ca = Below(C, k - 1, 2 * p) /\ cb = Below(C, k - 1, 2 * p + 1)
  OBVIOUS
<1>5. Below(G, k, p) = ga \cup gb /\ Below(C, k, p) = ca \cup cb
  BY <1>3, <1>4, BelowHalves
<1>6. \A i \in Below(Nat, k - 1, 2 * p), j \in Below(Nat, k - 1, 2 * p + 1) : i < j
  BY BelowHalves
<1>7. (\A a \in ga, b \in gb : a < b) /\ (\A a \in ca, b \in cb : a < b)
  BY <1>3, <1>4, <1>6 DEF Below
<1>8. /\ Sorted(d.removed, ga) /\ Sorted(e.removed, gb)
      /\ SortedEntries(d.upserted, r2, ca) /\ SortedEntries(e.upserted, r2, cb)
  BY <1>2, <1>4 DEF IsDiff
<1>9. /\ Sorted(d.removed \o e.removed, ga \cup gb)
      /\ SortedEntries(d.upserted \o e.upserted, r2, ca \cup cb)
  BY <1>7, <1>8, SortedJoin, EntriesJoin
<1>10. /\ Join(d, e).removed = d.removed \o e.removed
       /\ Join(d, e).upserted = d.upserted \o e.upserted
       /\ Join(d, e) = [removed |-> d.removed \o e.removed, upserted |-> d.upserted \o e.upserted]
  BY DEF Join
<1>. QED  BY <1>2, <1>5, <1>9, <1>10 DEF IsDiff

LEMMA DiffLeafIs ==
  ASSUME NEW r1 \in Roots, NEW r2 \in Roots, NEW p \in Nat,
         NEW a \in Seen(r1, 0, p), NEW b \in Seen(r2, 0, p)
  PROVE  IsDiff(DiffLeaf(a, b), r1, r2, 0, p)
<1>1. /\ DOMAIN r1 \subseteq Nat /\ DOMAIN r2 \subseteq Nat /\ 0 \in 0 .. SmtDepth
      /\ a.hash # {} /\ b.hash # {}
  BY RootIs, SeenIs, SmtDepthAssumption
<1>2. CASE a.hash = b.hash
  <2>1. SameIn(r1, r2, 0, p)
    BY <1>1, <1>2, SeenSame
  <2>2. DiffLeaf(a, b) = NoDiff
    BY <1>1, <1>2 DEF DiffLeaf
  <2>. QED  BY <2>1, <2>2, NoDiffIs
<1>3. CASE a.hash # b.hash
  <2>1. DiffLeaf(a, b) = LeafDiff(a, b)
    BY <1>3 DEF DiffLeaf
  <2>2. /\ p \in DOMAIN r1 => a.kind = "Leaf" /\ a.id = p /\ a.leaf = r1[p]
        /\ p \notin DOMAIN r1 => a.kind = "Empty"
        /\ p \in DOMAIN r2 => b.kind = "Leaf" /\ b.id = p /\ b.leaf = r2[p]
        /\ p \notin DOMAIN r2 => b.kind = "Empty"
    BY <1>1, SeenLeaf
  <2>3. /\ Below(GoneIds(r1, r2), 0, p) = IF p \in GoneIds(r1, r2) THEN {p} ELSE {}
        /\ Below(ChangedIds(r1, r2), 0, p) = IF p \in ChangedIds(r1, r2) THEN {p} ELSE {}
    BY BelowLeaf
  <2>4. CASE p \in ChangedIds(r1, r2)
    <3>1. p \in DOMAIN r2 /\ p \notin GoneIds(r1, r2) /\ (p \in DOMAIN r1 => r1[p] # r2[p])
      BY <2>4 DEF GoneIds, ChangedIds
    <3>2. b.kind = "Leaf" /\ (a.kind = "Leaf" => a.leaf # b.leaf)
      BY <2>2, <3>1
    <3>3. LeafDiff(a, b) = [NoDiff EXCEPT !.upserted = <<EntryOf(r2, p)>>]
      BY <2>2, <3>1, <3>2 DEF LeafDiff, EntryOf
    <3>4. PICK u : u = <<EntryOf(r2, p)>>
      OBVIOUS
    <3>5. LeafDiff(a, b) = [removed |-> <<>>, upserted |-> u]
      BY <3>3, <3>4 DEF NoDiff
    <3>6. SortedEntries(u, r2, {p}) /\ Sorted(<<>>, {})
      BY <3>4, EntriesOne, SortedEmpty
    <3>7. Below(GoneIds(r1, r2), 0, p) = {} /\ Below(ChangedIds(r1, r2), 0, p) = {p}
      BY <2>3, <2>4, <3>1
    <3>. QED  BY <2>1, <3>5, <3>6, <3>7, DiffIs
  <2>5. CASE p \in GoneIds(r1, r2)
    <3>1. p \in DOMAIN r1 /\ p \notin DOMAIN r2 /\ p \notin ChangedIds(r1, r2)
      BY <2>5 DEF GoneIds, ChangedIds
    <3>2. LeafDiff(a, b) = [NoDiff EXCEPT !.removed = <<p>>]
      BY <2>2, <3>1 DEF LeafDiff
    <3>3. LeafDiff(a, b) = [removed |-> <<p>>, upserted |-> <<>>]
      BY <3>2 DEF NoDiff
    <3>4. Sorted(<<p>>, {p}) /\ SortedEntries(<<>>, r2, {})
      BY SortedOne, EntriesEmpty
    <3>5. Below(GoneIds(r1, r2), 0, p) = {p} /\ Below(ChangedIds(r1, r2), 0, p) = {}
      BY <2>3, <2>5, <3>1
    <3>. QED  BY <2>1, <3>3, <3>4, <3>5, DiffIs
  <2>6. CASE p \notin GoneIds(r1, r2) /\ p \notin ChangedIds(r1, r2)
    <3>1. SameId(r1, r2, p)
      BY <2>6 DEF GoneIds, ChangedIds, SameId
    <3>2. LeafDiff(a, b) = NoDiff
      BY <2>2, <3>1 DEF LeafDiff, SameId
    <3>3. SameIn(r1, r2, 0, p)
      BY <3>1, SameLeaf
    <3>. QED  BY <2>1, <3>2, <3>3, NoDiffIs
  <2>. QED  BY <2>4, <2>5, <2>6
<1>. QED  BY <1>2, <1>3

\* diff_tries lists what changed between the members of two trees, whatever
\* their shapes, although it skips the subtrees whose hashes agree.
LEMMA DiffTreesIs ==
  ASSUME NEW r1 \in Roots, NEW r2 \in Roots,
         NEW old \in Hashed(r1, SmtDepth, 0), NEW new \in Hashed(r2, SmtDepth, 0)
  PROVE  IsDiff(DiffTrees(old, new), r1, r2, SmtDepth, 0)
<1>. DEFINE A(k) == NodesAt(old)[SmtDepth - k]
            B(k) == NodesAt(new)[SmtDepth - k]
            T == {k \in Nat : \A q \in Nat : \A a \in Seen(r1, k, q), b \in Seen(r2, k, q) :
                    a \in A(k) /\ b \in B(k) =>
                      IsDiff(Diffs(old, new)[k][<<a, b>>], r1, r2, k, q)}
<1>0. DOMAIN r1 \subseteq Nat /\ DOMAIN r2 \subseteq Nat
  BY RootIs
<1>1. 0 \in T
  <2>1. SmtDepth - 0 = SmtDepth
    BY SmtDepthAssumption
  <2>3. ASSUME NEW a \in A(0), NEW b \in B(0)
        PROVE  Diffs(old, new)[0][<<a, b>>] = DiffLeaf(a, b)
    BY <2>1, DiffsIs
  <2>. HIDE DEF A, B
  <2>. QED  BY <2>3, DiffLeafIs
<1>2. ASSUME NEW n \in 0 .. SmtDepth - 1, n \in T  PROVE n + 1 \in T
  <2>1. PICK k : k = n + 1
    OBVIOUS
  <2>2. k \in 1 .. SmtDepth /\ k \in 0 .. SmtDepth /\ k - 1 = n /\ k \in Nat /\ n \in 0 .. SmtDepth
    BY <2>1, SmtDepthAssumption
  <2>3. ASSUME NEW q \in Nat, NEW a \in Seen(r1, k, q), NEW b \in Seen(r2, k, q),
               a \in A(k), b \in B(k)
        PROVE  IsDiff(Diffs(old, new)[k][<<a, b>>], r1, r2, k, q)
    <3>1. 2 * q \in Nat /\ 2 * q + 1 \in Nat
      OBVIOUS
    <3>2. PICK below : below = Diffs(old, new)[n]
      OBVIOUS
    <3>4. Diffs(old, new)[k][<<a, b>>] = DiffNode(a, b, below)
      BY <2>2, <2>3, <3>2, DiffsIs
    <3>5. /\ Left(a) \in Seen(r1, n, 2 * q) /\ Right(a) \in Seen(r1, n, 2 * q + 1)
          /\ Left(b) \in Seen(r2, n, 2 * q) /\ Right(b) \in Seen(r2, n, 2 * q + 1)
          /\ a.kind \in {"Internal", "Empty"} /\ (a.kind = "Empty" => Vacant(r1, k, q))
          /\ b.kind \in {"Internal", "Empty"} /\ (b.kind = "Empty" => Vacant(r2, k, q))
      BY <1>0, <2>2, SeenBelow
    <3>6. a.hash # {} /\ b.hash # {}
      BY <1>0, <2>2, SeenIs
    <3>7. CASE a.hash # b.hash /\ "Internal" \in {a.kind, b.kind}
      <4>1. PICK d, e : d = below[<<Left(a), Left(b)>>] /\ e = below[<<Right(a), Right(b)>>]
        OBVIOUS
      <4>2. DiffNode(a, b, below) = Join(d, e)
        BY <3>7, <4>1 DEF DiffNode
      <4>3. Left(a) \in A(n) /\ Right(a) \in A(n) /\ Left(b) \in B(n) /\ Right(b) \in B(n)
        BY <2>2, <2>3, NodesBelow
      <4>4. IsDiff(d, r1, r2, n, 2 * q) /\ IsDiff(e, r1, r2, n, 2 * q + 1)
        <5>. HIDE DEF A, B
        <5>. QED  BY <1>2, <3>1, <3>2, <3>5, <4>1, <4>3
      <4>5. IsDiff(Join(d, e), r1, r2, k, q)
        BY <2>2, <4>4, JoinIs
      <4>. QED  BY <3>4, <4>2, <4>5
    <3>8. CASE a.hash = b.hash
      <4>1. SameIn(r1, r2, k, q)
        BY <2>2, <3>8, SeenSame
      <4>2. DiffNode(a, b, below) = NoDiff
        BY <3>6, <3>8 DEF DiffNode, DiffLeaf
      <4>. QED  BY <3>4, <4>1, <4>2, NoDiffIs
    <3>9. CASE a.hash # b.hash /\ "Internal" \notin {a.kind, b.kind}
      <4>1. a.kind = "Empty" /\ b.kind = "Empty" /\ Vacant(r1, k, q) /\ Vacant(r2, k, q)
        BY <3>5, <3>9
      <4>2. SameIn(r1, r2, k, q)
        BY <1>0, <4>1 DEF SameIn, SameId, Vacant
      <4>3. DiffNode(a, b, below) = NoDiff
        BY <3>9, <4>1 DEF DiffNode, DiffLeaf, LeafDiff
      <4>. QED  BY <3>4, <4>2, <4>3, NoDiffIs
    <3>. QED  BY <3>7, <3>8, <3>9
  <2>. HIDE DEF A, B
  <2>. QED  BY <2>1, <2>2, <2>3
<1>3. SmtDepth \in 0 .. SmtDepth /\ SmtDepth - SmtDepth = 0
  BY SmtDepthAssumption
<1>4. SmtDepth \in T
  <2>. HIDE DEF T
  <2>. QED  BY <1>1, <1>2, <1>3, Induction, SmtDepthAssumption
<1>5. old \in A(SmtDepth) /\ new \in B(SmtDepth)
  BY <1>3, NodesAtIs
<1>6. old \in Seen(r1, SmtDepth, 0) /\ new \in Seen(r2, SmtDepth, 0)
  BY DEF Seen
<1>7. IsDiff(Diffs(old, new)[SmtDepth][<<old, new>>], r1, r2, SmtDepth, 0)
  <2>. HIDE DEF A, B
  <2>. QED  BY <1>4, <1>5, <1>6
<1>. QED  BY <1>7 DEF DiffTrees

-----------------------------------------------------------------------------
(* The trees that genesis and apply_delta build.                           *)

\* An insert, and a removal, of one member.
LEMMA InsertForms ==
  ASSUME NEW r1, NEW r2, DOMAIN r1 \subseteq Nat, NEW i \in AllIds, NEW leaf,
         DOMAIN r2 = DOMAIN r1 \cup {i}, r2[i] = leaf,
         \A j \in DOMAIN r1 : j # i => r2[j] = r1[j],
         NEW tr \in AnyAt(r1, SmtDepth, 0)
  PROVE  SmtInsert(tr, i, leaf) \in AnyAt(r2, SmtDepth, 0)
<1>1. i \in Nat
  BY AllIdsPrefix
<1>2. \A j \in Nat : j # i => SameId(r1, r2, j)
  BY DEF SameId
<1>3. Leaf(i, leaf) \in AnyAt(r2, 0, i)
  BY <1>1, FormLeaf
<1>4. DOMAIN r2 \subseteq Nat
  BY <1>1
<1>. QED  BY <1>2, <1>3, <1>4, InsertedForms DEF SmtInsert

LEMMA RemoveForms ==
  ASSUME NEW r1, NEW r2, DOMAIN r1 \subseteq Nat, NEW i \in AllIds,
         DOMAIN r2 = DOMAIN r1 \ {i},
         \A j \in DOMAIN r1 : j # i => r2[j] = r1[j],
         NEW tr \in AnyAt(r1, SmtDepth, 0)
  PROVE  SmtRemove(tr, i) \in AnyAt(r2, SmtDepth, 0)
<1>1. i \in Nat
  BY AllIdsPrefix
<1>2. \A j \in Nat : j # i => SameId(r1, r2, j)
  BY DEF SameId
<1>3. Empty(0) \in AnyAt(r2, 0, i)
  BY <1>1, FormLeaf
<1>4. DOMAIN r2 \subseteq Nat
  OBVIOUS
<1>. QED  BY <1>2, <1>3, <1>4, InsertedForms DEF SmtRemove

\* A loop of inserts, in any order.
LEMMA InsertsForm ==
  ASSUME NEW base, NEW ups, DOMAIN base \subseteq Nat, DOMAIN ups \subseteq AllIds,
         NEW entries, Len(entries) \in Nat,
         DOMAIN ups = {entries[n].id : n \in 1 .. Len(entries)},
         \A n \in 1 .. Len(entries) : entries[n].leaf = ups[entries[n].id],
         NEW start \in AnyAt(base, SmtDepth, 0)
  PROVE  InsertAll(start, entries)[Len(entries)] \in AnyAt(Overlay(base, ups), SmtDepth, 0)
<1>. DEFINE D(k) == {entries[n].id : n \in 1 .. k}
            After(k) == [i \in DOMAIN base \cup D(k) |-> IF i \in D(k) THEN ups[i] ELSE base[i]]
            T == {k \in Nat : InsertAll(start, entries)[k] \in AnyAt(After(k), SmtDepth, 0)}
<1>0. AllIds \subseteq Nat
  BY AllIdsPrefix
<1>1. 0 \in T
  <2>1. D(0) = {}
    OBVIOUS
  <2>2. SameIn(base, After(0), SmtDepth, 0)
    BY <2>1 DEF SameIn, SameId
  <2>3. DOMAIN After(0) \subseteq Nat
    BY <2>1
  <2>4. PICK r : r = After(0)
    OBVIOUS
  <2>5. AnyAt(base, SmtDepth, 0) = AnyAt(r, SmtDepth, 0)
    BY <2>2, <2>3, <2>4, SameForms, SmtDepthAssumption
  <2>. QED  BY <2>4, <2>5, InsertAllIs
<1>2. ASSUME NEW n \in 0 .. Len(entries) - 1, n \in T  PROVE n + 1 \in T
  <2>1. PICK k : k = n + 1
    OBVIOUS
  <2>2. k \in 1 .. Len(entries) /\ k - 1 = n /\ k \in Nat /\ 1 .. k = (1 .. n) \cup {k}
    BY <2>1
  <2>3. PICK i, leaf : i = entries[k].id /\ leaf = entries[k].leaf
    OBVIOUS
  <2>4. D(k) = D(n) \cup {i}
    BY <2>2, <2>3
  <2>5. i \in AllIds /\ leaf = ups[i] /\ D(n) \subseteq Nat
    <3>1. \A m \in 1 .. n : m \in 1 .. Len(entries)
      BY <2>2
    <3>. QED  BY <1>0, <2>2, <2>3, <3>1
  <2>. HIDE DEF D
  <2>6. PICK r1, r2 : r1 = After(n) /\ r2 = After(k)
    OBVIOUS
  <2>7. /\ DOMAIN r1 \subseteq Nat /\ DOMAIN r2 = DOMAIN r1 \cup {i} /\ r2[i] = leaf
        /\ \A j \in DOMAIN r1 : j # i => r2[j] = r1[j]
    BY <2>4, <2>5, <2>6
  <2>8. PICK tr : tr = InsertAll(start, entries)[n]
    OBVIOUS
  <2>9. tr \in AnyAt(r1, SmtDepth, 0)
    BY <1>2, <2>6, <2>8
  <2>10. InsertAll(start, entries)[k] = SmtInsert(tr, i, leaf)
    BY <2>2, <2>3, <2>8, InsertAllIs
  <2>11. SmtInsert(tr, i, leaf) \in AnyAt(r2, SmtDepth, 0)
    BY <2>5, <2>7, <2>9, InsertForms
  <2>. QED  BY <2>1, <2>2, <2>6, <2>10, <2>11
<1>3. Len(entries) \in T
  <2>. HIDE DEF T
  <2>1. Len(entries) \in 0 .. Len(entries)
    OBVIOUS
  <2>. QED  BY <1>1, <1>2, <2>1, Induction
<1>4. After(Len(entries)) = Overlay(base, ups)
  BY DEF Overlay
<1>. QED  BY <1>3, <1>4

\* A loop of removals.
LEMMA RemovesForm ==
  ASSUME NEW root, DOMAIN root \subseteq Nat, NEW ids, Len(ids) \in Nat,
         \A n \in 1 .. Len(ids) : ids[n] \in AllIds,
         NEW start \in AnyAt(root, SmtDepth, 0)
  PROVE  RemoveAll(start, ids)[Len(ids)]
           \in AnyAt(Restrict(root, DOMAIN root \ {ids[n] : n \in 1 .. Len(ids)}), SmtDepth, 0)
<1>. DEFINE D(k) == {ids[n] : n \in 1 .. k}
            After(k) == [i \in DOMAIN root \ D(k) |-> root[i]]
            T == {k \in Nat : RemoveAll(start, ids)[k] \in AnyAt(After(k), SmtDepth, 0)}
<1>1. 0 \in T
  <2>1. D(0) = {}
    OBVIOUS
  <2>2. SameIn(root, After(0), SmtDepth, 0)
    BY <2>1 DEF SameIn, SameId
  <2>3. DOMAIN After(0) \subseteq Nat
    BY <2>1
  <2>4. PICK r : r = After(0)
    OBVIOUS
  <2>5. AnyAt(root, SmtDepth, 0) = AnyAt(r, SmtDepth, 0)
    BY <2>2, <2>3, <2>4, SameForms, SmtDepthAssumption
  <2>. QED  BY <2>4, <2>5, RemoveAllIs
<1>2. ASSUME NEW n \in 0 .. Len(ids) - 1, n \in T  PROVE n + 1 \in T
  <2>1. PICK k : k = n + 1
    OBVIOUS
  <2>2. k \in 1 .. Len(ids) /\ k - 1 = n /\ k \in Nat /\ 1 .. k = (1 .. n) \cup {k}
    BY <2>1
  <2>3. PICK i : i = ids[k]
    OBVIOUS
  <2>4. D(k) = D(n) \cup {i}
    BY <2>2, <2>3
  <2>. HIDE DEF D
  <2>5. PICK r1, r2 : r1 = After(n) /\ r2 = After(k)
    OBVIOUS
  <2>6. /\ DOMAIN r1 \subseteq Nat /\ DOMAIN r2 = DOMAIN r1 \ {i}
        /\ \A j \in DOMAIN r1 : j # i => r2[j] = r1[j]
    BY <2>4, <2>5
  <2>7. PICK tr : tr = RemoveAll(start, ids)[n]
    OBVIOUS
  <2>8. tr \in AnyAt(r1, SmtDepth, 0)
    BY <1>2, <2>5, <2>7
  <2>9. RemoveAll(start, ids)[k] = SmtRemove(tr, i)
    BY <2>2, <2>3, <2>7, RemoveAllIs
  <2>10. SmtRemove(tr, i) \in AnyAt(r2, SmtDepth, 0)
    BY <2>2, <2>3, <2>6, <2>8, RemoveForms
  <2>. QED  BY <2>1, <2>2, <2>5, <2>9, <2>10
<1>3. Len(ids) \in T
  <2>. HIDE DEF T
  <2>1. Len(ids) \in 0 .. Len(ids)
    OBVIOUS
  <2>. QED  BY <1>1, <1>2, <2>1, Induction
<1>. QED  BY <1>3 DEF Restrict

\* genesis hashes a tree of its members, whatever order they come in.
LEMMA GenesisForm ==
  ASSUME NEW root \in Roots
  PROVE  GenesisTree(root) \in Hashed(root, SmtDepth, 0)
<1>1. /\ DOMAIN root \subseteq Nat /\ IsFiniteSet(DOMAIN root)
      /\ DOMAIN root \subseteq AllIds
  BY RootIs, TreeAssumption
<1>2. PICK ids : ids = SetToSeq(DOMAIN root)
  OBVIOUS
<1>3. PICK N : N = Len(ids)
  OBVIOUS
<1>4. N \in Nat /\ DOMAIN ids = 1 .. N /\ DOMAIN root = {ids[n] : n \in 1 .. N}
  <2>1. ids \in Seq(DOMAIN root) /\ Range(ids) = DOMAIN root
    BY <1>1, <1>2, SetToSeqIs
  <2>2. N \in Nat /\ DOMAIN ids = 1 .. N
    BY <1>3, <2>1
  <2>. QED  BY <2>1, <2>2 DEF Range
<1>5. PICK members : members = [n \in 1 .. N |-> [id |-> ids[n], leaf |-> root[ids[n]]]]
  OBVIOUS
<1>6. Len(members) = N
  BY <1>4, <1>5
<1>7. \A n \in 1 .. N : members[n].id = ids[n] /\ members[n].leaf = root[ids[n]]
  BY <1>5
<1>8. PICK none : none = [i \in {} |-> 0]
  OBVIOUS
<1>9. DOMAIN none = {} /\ Vacant(none, SmtDepth, 0)
  BY <1>8 DEF Vacant
<1>10. EmptyRoot \in AnyAt(none, SmtDepth, 0)
  BY <1>9, EmptyHashed, SmtDepthAssumption DEF EmptyRoot
<1>11. DOMAIN root = {members[n].id : n \in 1 .. N}
  BY <1>4, <1>7
<1>12. InsertAll(EmptyRoot, members)[N] \in AnyAt(Overlay(none, root), SmtDepth, 0)
  BY <1>1, <1>4, <1>6, <1>7, <1>9, <1>10, <1>11, InsertsForm
<1>13. Overlay(none, root) = root
  <2>1. root = [i \in DOMAIN root |-> root[i]]
    BY PartialFunction DEF Roots
  <2>2. Overlay(none, root) = [i \in DOMAIN root |-> root[i]]
    BY <1>9 DEF Overlay
  <2>. QED  BY <2>1, <2>2
<1>14. GenesisTree(root) = RecalculateHashes(InsertAll(EmptyRoot, members)[N])
  BY <1>2, <1>3, <1>5, <1>6, Zenon DEF GenesisTree
<1>. QED  BY <1>1, <1>12, <1>13, <1>14, Recalculates

\* apply_delta hashes a tree of the members it leaves.
LEMMA CandidateForm ==
  ASSUME NEW t, TrieOK(t), NEW w \in Wire, WireVerdict(t, w) = "Ok",
         NEW tr \in Hashed(t.root, SmtDepth, 0)
  PROVE  CandidateTree(tr, w) \in Hashed(Patch(t.root, SetForm(w)), SmtDepth, 0)
<1>1. Ordered(w)
  BY WireVerdicts
<1>2. PICK d : d = SetForm(w)
  OBVIOUS
<1>3. /\ d.removed = {w.removed[n] : n \in 1 .. Len(w.removed)}
      /\ DOMAIN d.upserted = {w.upserted[n].id : n \in 1 .. Len(w.upserted)}
      /\ \A n \in 1 .. Len(w.upserted) : d.upserted[w.upserted[n].id] = w.upserted[n].leaf
  BY <1>1, <1>2, SetFormIs
<1>4. /\ Len(w.removed) \in Nat /\ Len(w.upserted) \in Nat
      /\ \A n \in 1 .. Len(w.removed) : w.removed[n] \in AllIds
      /\ DOMAIN d.upserted \subseteq AllIds
  BY <1>3, WireFields, TreeAssumption
<1>5. PICK root, base, kept : /\ root = t.root /\ base = Restrict(root, DOMAIN root \ d.removed)
                              /\ kept = RemoveAll(tr, w.removed)[Len(w.removed)]
  OBVIOUS
<1>6. root \in Roots /\ DOMAIN root \subseteq Nat /\ DOMAIN base \subseteq Nat
  <2>1. root \in Roots
    BY <1>5 DEF TrieOK, OrgTrie
  <2>. QED  BY <1>5, <2>1, RootIs DEF Restrict
<1>7. tr \in AnyAt(root, SmtDepth, 0)
  BY <1>5, HashedIsAny, SmtDepthAssumption
<1>8. kept \in AnyAt(base, SmtDepth, 0)
  <2>1. RemoveAll(tr, w.removed)[Len(w.removed)]
          \in AnyAt(Restrict(root, DOMAIN root \ {w.removed[n] : n \in 1 .. Len(w.removed)}),
                    SmtDepth, 0)
    BY <1>4, <1>6, <1>7, RemovesForm
  <2>2. base = Restrict(root, DOMAIN root \ {w.removed[n] : n \in 1 .. Len(w.removed)})
    BY <1>3, <1>5
  <2>. QED  BY <1>5, <2>1, <2>2
<1>9. InsertAll(kept, w.upserted)[Len(w.upserted)] \in AnyAt(Overlay(base, d.upserted), SmtDepth, 0)
  BY <1>3, <1>4, <1>6, <1>8, InsertsForm
<1>10. PICK after, built : /\ after = Overlay(base, d.upserted)
                           /\ built = InsertAll(kept, w.upserted)[Len(w.upserted)]
  OBVIOUS
<1>11. DOMAIN after \subseteq Nat
  <2>1. AllIds \subseteq Nat
    BY AllIdsPrefix
  <2>. QED  BY <1>4, <1>6, <1>10, <2>1 DEF Overlay
<1>12. Patch(t.root, SetForm(w)) = after
  BY <1>2, <1>5, <1>10 DEF Patch
<1>13. CandidateTree(tr, w) = RecalculateHashes(built)
  BY <1>5, <1>10 DEF CandidateTree
<1>14. RecalculateHashes(built) \in Hashed(after, SmtDepth, 0)
  BY <1>9, <1>10, <1>11, Recalculates
<1>. QED  BY <1>12, <1>13, <1>14

\* An accepted delta lists exactly what it changes, in canonical order.
LEMMA WireIsDiff ==
  ASSUME NEW t, TrieOK(t), NEW w \in Wire, WireVerdict(t, w) = "Ok",
         NEW root, root = Patch(t.root, SetForm(w))
  PROVE  /\ Sorted(w.removed, GoneIds(t.root, root))
         /\ SortedEntries(w.upserted, root, ChangedIds(t.root, root))
<1>1. PICK d : d = SetForm(w)
  OBVIOUS
<1>2. Ordered(w) /\ CanonicalDelta(t, d)
  BY <1>1, WireVerdicts, ApplyAccepted
<1>3. /\ d.removed = {w.removed[n] : n \in 1 .. Len(w.removed)}
      /\ DOMAIN d.upserted = {w.upserted[n].id : n \in 1 .. Len(w.upserted)}
      /\ \A n \in 1 .. Len(w.upserted) : d.upserted[w.upserted[n].id] = w.upserted[n].leaf
  BY <1>1, <1>2, SetFormIs
<1>4. /\ DOMAIN root = (DOMAIN t.root \ d.removed) \cup DOMAIN d.upserted
      /\ \A i \in DOMAIN d.upserted : root[i] = d.upserted[i]
      /\ \A i \in DOMAIN root \ DOMAIN d.upserted : i \in DOMAIN t.root /\ root[i] = t.root[i]
  BY <1>1 DEF Patch, Overlay, Restrict
<1>5. GoneIds(t.root, root) = d.removed
  BY <1>2, <1>4 DEF GoneIds, CanonicalDelta
<1>6. ChangedIds(t.root, root) = DOMAIN d.upserted
  <2>1. ASSUME NEW i \in DOMAIN d.upserted  PROVE i \in ChangedIds(t.root, root)
    BY <1>2, <1>4 DEF ChangedIds, CanonicalDelta
  <2>2. ASSUME NEW i \in ChangedIds(t.root, root)  PROVE i \in DOMAIN d.upserted
    BY <1>4 DEF ChangedIds
  <2>. QED  BY <2>1, <2>2
<1>7. /\ w.removed \in Seq(Nat) /\ DOMAIN w.removed = 1 .. Len(w.removed)
      /\ Ids(w.upserted) \in Seq(Nat) /\ Len(Ids(w.upserted)) = Len(w.upserted)
      /\ Len(w.upserted) \in Nat /\ DOMAIN w.upserted = 1 .. Len(w.upserted)
      /\ w.upserted \in Seq(Upsert)
      /\ \A n \in 1 .. Len(w.upserted) :
           Ids(w.upserted)[n] = w.upserted[n].id /\ w.upserted[n] \in Upsert
  <2>1. w.upserted \in Seq(Upsert)
    BY DEF Wire
  <2>. QED  BY <2>1, WireFields
<1>8. Sorted(w.removed, d.removed)
  BY <1>2, <1>3, <1>7 DEF Sorted, Ordered, Range
<1>9. Sorted(Ids(w.upserted), DOMAIN d.upserted)
  <2>1. PICK ids : ids = Ids(w.upserted)
    OBVIOUS
  <2>2. ids \in Seq(Nat) /\ DOMAIN ids = 1 .. Len(w.upserted)
        /\ \A n \in 1 .. Len(w.upserted) : ids[n] = w.upserted[n].id
    BY <1>7, <2>1
  <2>3. Range(ids) = DOMAIN d.upserted
    <3>1. Range(ids) = {ids[n] : n \in 1 .. Len(w.upserted)}
      BY <2>2 DEF Range
    <3>. QED  BY <1>3, <2>2, <3>1
  <2>. QED  BY <1>2, <2>1, <2>2, <2>3 DEF Sorted, Ordered
<1>10. w.upserted \in Seq({EntryOf(root, i) : i \in DOMAIN d.upserted})
  <2>1. \A u \in Upsert : u = [id |-> u.id, leaf |-> u.leaf]
    BY DEF Upsert
  <2>2. \A n \in 1 .. Len(w.upserted) :
          w.upserted[n] \in {EntryOf(root, i) : i \in DOMAIN d.upserted}
    <3>1. ASSUME NEW n \in 1 .. Len(w.upserted)
          PROVE  w.upserted[n].id \in DOMAIN d.upserted
                 /\ w.upserted[n] = EntryOf(root, w.upserted[n].id)
      <4>1. PICK u : u = w.upserted[n]
        OBVIOUS
      <4>2. u.id \in DOMAIN d.upserted /\ root[u.id] = u.leaf
        BY <1>3, <1>4, <4>1
      <4>3. u = [id |-> u.id, leaf |-> u.leaf]
        BY <1>7, <2>1, <4>1
      <4>. QED  BY <4>1, <4>2, <4>3 DEF EntryOf
    <3>. QED  BY <3>1
  <2>3. PICK E, s : E = {EntryOf(root, i) : i \in DOMAIN d.upserted} /\ s = w.upserted
    OBVIOUS
  <2>4. s \in Seq(Upsert) /\ \A n \in 1 .. Len(s) : s[n] \in E
    BY <1>7, <2>2, <2>3
  <2>5. s \in Seq(E)
    BY <2>4
  <2>. QED  BY <2>3, <2>5
<1>. QED  BY <1>5, <1>6, <1>8, <1>9, <1>10 DEF SortedEntries

\* Members with the same root hash are the same.
LEMMA SameRoots ==
  ASSUME NEW r1 \in Roots, NEW r2 \in Roots,
         HashAt(r1, SmtDepth, 0) = HashAt(r2, SmtDepth, 0)
  PROVE  r1 = r2
<1>1. SameIn(r1, r2, SmtDepth, 0)
  BY HashTells, SmtDepthAssumption
<1>2. /\ DOMAIN r1 \subseteq AllIds /\ DOMAIN r2 \subseteq AllIds
      /\ DOMAIN r1 \subseteq Nat /\ DOMAIN r2 \subseteq Nat
  BY RootIs, TreeAssumption
<1>3. \A i \in AllIds : Prefix(i)[SmtDepth] = 0 /\ i \in Nat
  BY AllIdsPrefix
<1>4. \A i \in AllIds : SameId(r1, r2, i)
  BY <1>1, <1>3 DEF SameIn
<1>5. DOMAIN r1 = DOMAIN r2 /\ \A i \in DOMAIN r1 : r1[i] = r2[i]
  BY <1>2, <1>4 DEF SameId
<1>6. r1 \in [DOMAIN r1 -> MemberLeaf] /\ r2 \in [DOMAIN r2 -> MemberLeaf]
  BY PartialFunction DEF Roots
<1>. QED  BY <1>5, <1>6

-----------------------------------------------------------------------------
(* The tree of the receiver.                                               *)

\* The receiver's tree holds its members, with every hash cached and right,
\* whatever shape its past has given it.
TreeInv == WireInv /\ tree \in Hashed(local.root, SmtDepth, 0)

LEMMA TreeInvHolds == TreeSpec => []TreeInv
<1>1. TreeInit => TreeInv
  <2>. SUFFICES ASSUME TreeInit  PROVE TreeInv
    OBVIOUS
  <2>1. WireInv
    BY WireInvInit DEF TreeInit
  <2>2. PICK root : root = local.root
    BY Zenon
  <2>3. GenesisTree(root) \in Hashed(root, SmtDepth, 0)
    BY <2>1, <2>2, GenesisForm DEF WireInv
  <2>. QED  BY <2>1, <2>2, <2>3 DEF TreeInit, TreeInv
<1>2. TreeInv /\ [TreeNext]_treeVars => TreeInv'
  <2>. SUFFICES ASSUME TreeInv, [TreeNext]_treeVars  PROVE TreeInv'
    OBVIOUS
  <2>1. [Next]_wireVars
    BY DEF TreeNext, Next, treeVars, wireVars
  <2>2. WireInv /\ WireInv'
    BY <2>1, WireInvStep DEF TreeInv
  <2>3. PICK t, tr : t = local /\ tr = tree
    BY Zenon
  <2>4. TrieOK(t) /\ tr \in Hashed(t.root, SmtDepth, 0)
    BY <2>2, <2>3, LocalTrie DEF TreeInv
  <2>5. CASE Accept /\ tree' = CandidateTree(tree, wire[1])
    <3>1. PICK w \in Wire : wire = <<w>>
      BY <2>2, <2>5 DEF WireInv, Accept
    <3>2. wire[1] = w
      BY <3>1
    <3>3. WireVerdict(t, w) = "Ok" /\ local' = WireCandidate(t, w) /\ tree' = CandidateTree(tr, w)
      BY <2>3, <2>5, <3>2 DEF Accept
    <3>4. PICK root : root = Patch(t.root, SetForm(w))
      OBVIOUS
    <3>5. WireCandidate(t, w) = Genesis(root)
      BY <2>4, <3>3, <3>4, WireCandidates
    <3>6. local'.root = root
      BY <3>3, <3>5 DEF Genesis
    <3>7. CandidateTree(tr, w) \in Hashed(root, SmtDepth, 0)
      BY <2>4, <3>3, <3>4, CandidateForm
    <3>. QED  BY <2>2, <3>3, <3>6, <3>7 DEF TreeInv
  <2>6. CASE UNCHANGED <<local, tree>>
    BY <2>2, <2>6 DEF TreeInv
  <2>. QED  BY <2>5, <2>6 DEF TreeNext, Arrive, Reject, treeVars, wireVars
<1>. QED  BY <1>1, <1>2, PTL DEF TreeSpec

\* After any number of accepted deltas, in a tree of any depth, a lookup by id
\* and collect_members give exactly the members that the indexes and the count
\* speak of, although removals leave paths over empty nodes behind.
THEOREM TreesHoldMembers == TreeSpec => []TreeHoldsMembers
<1>1. TreeInv => TreeHoldsMembers
  <2>. SUFFICES ASSUME TreeInv  PROVE TreeHoldsMembers
    OBVIOUS
  <2>1. PICK root, tr : root = local.root /\ tr = tree
    BY Zenon
  <2>2. root \in Roots /\ tr \in Hashed(root, SmtDepth, 0)
    BY <2>1 DEF TreeInv, WireInv
  <2>3. DOMAIN root \subseteq Nat /\ DOMAIN root \subseteq AllIds
    BY <2>2, RootIs, TreeAssumption
  <2>4. \A i \in AllIds : GetMember(tr, i) = IF i \in DOMAIN root THEN {root[i]} ELSE {}
    BY <2>2, <2>3, GetMemberIs
  <2>5. PICK listed : listed = CollectMembers(tr)
    OBVIOUS
  <2>6. SortedEntries(listed, root, DOMAIN root)
    BY <2>2, <2>3, <2>5, CollectIs
  <2>7. /\ Range(listed) = {[id |-> i, leaf |-> root[i]] : i \in DOMAIN root}
        /\ StrictlyIncreasing(Ids(listed))
    BY <2>6, EntriesRange DEF EntryOf
  <2>. QED  BY <2>1, <2>4, <2>5, <2>7 DEF TreeHoldsMembers
<1>. QED  BY <1>1, TreeInvHolds, PTL

\* The root hash commits to the members and to nothing else: it is the one of
\* the tree genesis builds of them, and a delta keeps it if and only if it keeps
\* every member, however many cached hashes were reused.
THEOREM HashesTellMembers == TreeSpec => []HashTellsMembers
<1>1. TreeInv => HashTellsMembers
  <2>. SUFFICES ASSUME TreeInv  PROVE HashTellsMembers
    OBVIOUS
  <2>1. PICK t, root, tr : t = local /\ root = t.root /\ tr = tree
    BY Zenon
  <2>2. root \in Roots /\ tr \in Hashed(root, SmtDepth, 0) /\ TrieOK(t)
    BY <2>1, LocalTrie DEF TreeInv, WireInv
  <2>3. \A r \in Roots : \A node \in Hashed(r, SmtDepth, 0) : node.hash = {HashAt(r, SmtDepth, 0)}
    BY RootIs, HashedHash, SmtDepthAssumption
  <2>4. GenesisTree(root) \in Hashed(root, SmtDepth, 0)
    BY <2>2, GenesisForm
  <2>5. tr.hash = GenesisTree(root).hash
    BY <2>2, <2>3, <2>4
  <2>6. ASSUME NEW w \in Range(wire), WireVerdict(t, w) = "Ok"
        PROVE  (CandidateTree(tr, w).hash = tr.hash) <=> (WireCandidate(t, w).root = root)
    <3>1. w \in Wire
      BY DEF TreeInv, WireInv, Range
    <3>2. PICK new, cand : new = Patch(t.root, SetForm(w)) /\ cand = CandidateTree(tr, w)
      OBVIOUS
    <3>3. new \in Roots /\ WireCandidate(t, w) = Genesis(new)
      BY <2>2, <2>6, <3>1, <3>2, WireCandidates
    <3>4. WireCandidate(t, w).root = new
      BY <3>3 DEF Genesis
    <3>5. cand \in Hashed(new, SmtDepth, 0)
      BY <2>1, <2>2, <2>6, <3>1, <3>2, CandidateForm
    <3>6. PICK h, g : h = HashAt(root, SmtDepth, 0) /\ g = HashAt(new, SmtDepth, 0)
      OBVIOUS
    <3>7. tr.hash = {h} /\ cand.hash = {g}
      BY <2>2, <2>3, <3>3, <3>5, <3>6
    <3>8. h = g => new = root
      BY <2>2, <3>3, <3>6, SameRoots
    <3>9. new = root => h = g
      BY <3>6
    <3>. QED  BY <3>2, <3>4, <3>7, <3>8, <3>9
  <2>. QED  BY <2>1, <2>5, <2>6 DEF HashTellsMembers
<1>. QED  BY <1>1, TreeInvHolds, PTL

\* diff_tries between a tree and one with the members an accepted delta leaves,
\* built from it or from scratch, is that very delta: skipping the subtrees whose
\* hashes agree loses nothing, and no other wire form is accepted for the pair.
THEOREM TreeDiffsAreDeltas == TreeSpec => []TreeDiffIsDelta
<1>1. TreeInv => TreeDiffIsDelta
  <2>. SUFFICES ASSUME TreeInv, NEW w \in Range(wire), WireVerdict(local, w) = "Ok"
                PROVE  LET delta == [removed |-> w.removed, upserted |-> w.upserted]
                       IN /\ DiffTrees(tree, CandidateTree(tree, w)) = delta
                          /\ DiffTrees(tree, GenesisTree(WireCandidate(local, w).root)) = delta
    BY Zenon DEF TreeDiffIsDelta
  <2>1. PICK t, root, tr : t = local /\ root = t.root /\ tr = tree
    BY Zenon
  <2>2. root \in Roots /\ tr \in Hashed(root, SmtDepth, 0) /\ TrieOK(t)
    BY <2>1, LocalTrie DEF TreeInv, WireInv
  <2>3. w \in Wire /\ WireVerdict(t, w) = "Ok"
    BY <2>1 DEF TreeInv, WireInv, Range
  <2>4. PICK new : new = Patch(t.root, SetForm(w))
    OBVIOUS
  <2>5. new \in Roots /\ WireCandidate(t, w) = Genesis(new)
    BY <2>2, <2>3, <2>4, WireCandidates
  <2>6. WireCandidate(t, w).root = new
    BY <2>5 DEF Genesis
  <2>7. /\ CandidateTree(tr, w) \in Hashed(new, SmtDepth, 0)
        /\ GenesisTree(new) \in Hashed(new, SmtDepth, 0)
    BY <2>1, <2>2, <2>3, <2>4, <2>5, CandidateForm, GenesisForm
  <2>8. /\ Sorted(w.removed, GoneIds(root, new))
        /\ SortedEntries(w.upserted, new, ChangedIds(root, new))
    BY <2>1, <2>2, <2>3, <2>4, WireIsDiff
  <2>9. PICK G, C : G = GoneIds(root, new) /\ C = ChangedIds(root, new)
    OBVIOUS
  <2>10. Below(G, SmtDepth, 0) = G /\ Below(C, SmtDepth, 0) = C
    <3>1. DOMAIN root \subseteq AllIds /\ DOMAIN new \subseteq AllIds
      BY <2>2, <2>5, RootIs, TreeAssumption
    <3>2. G \subseteq AllIds /\ C \subseteq AllIds
      BY <2>9, <3>1 DEF GoneIds, ChangedIds
    <3>. QED  BY <3>2, BelowRoot
  <2>11. ASSUME NEW other \in Hashed(new, SmtDepth, 0)
         PROVE  DiffTrees(tr, other) = [removed |-> w.removed, upserted |-> w.upserted]
    <3>1. PICK d : d = DiffTrees(tr, other)
      OBVIOUS
    <3>2. IsDiff(d, root, new, SmtDepth, 0)
      BY <2>2, <2>5, <3>1, DiffTreesIs
    <3>3. /\ d = [removed |-> d.removed, upserted |-> d.upserted]
          /\ Sorted(d.removed, G) /\ SortedEntries(d.upserted, new, C)
      BY <2>9, <2>10, <3>2 DEF IsDiff
    <3>4. d.removed = w.removed
      BY <2>8, <2>9, <3>3, SortedUnique
    <3>5. d.upserted = w.upserted
      BY <2>8, <2>9, <3>3, EntriesUnique
    <3>. QED  BY <3>1, <3>3, <3>4, <3>5
  <2>. QED  BY <2>1, <2>6, <2>7, <2>11
<1>. QED  BY <1>1, TreeInvHolds, PTL
=============================================================================
