----------------------- MODULE OrgSubscriptionProofs -----------------------
(***************************************************************************)
(* What subscribe() (on-chain-client/src/client.rs) shows of the chain,    *)
(* proved for every block tree, every content of its blocks, and any       *)
(* number of heads and failed requests: the state stays well typed, no     *)
(* Reorged names a block that the new head builds on, the two lanes lose   *)
(* no event between them, and the best lane shows a chain that only grows  *)
(* exactly.                                                                *)
(*                                                                         *)
(* PathTo is a recursive function.  What the proofs use of it is found     *)
(* with the least-number principle (LeastNumber), first for a fixed tree   *)
(* bs, then carried to the tree of the state.                              *)
(***************************************************************************)
EXTENDS OrgSubscription, WellFoundedInduction, SequenceTheorems,
        FiniteSetTheorems, TLAPS

-----------------------------------------------------------------------------
(* The inductive invariant.                                                *)

Block == [parent : Nat, number : Nat, emits : Contents]

\* A block tree: every block but the genesis block follows an older one.
TreeOK(bs) ==
  /\ bs \in Seq([parent : Nat, number : Nat, emits : Contents])
  /\ Len(bs) >= 1
  /\ bs[1].number = 0
  /\ \A b \in 2 .. Len(bs) : /\ bs[b].parent \in 1 .. b - 1
                             /\ bs[b].number = bs[bs[b].parent].number + 1
  /\ \A b \in 1 .. Len(bs) : bs[b].number <= b - 1

\* PathTo over a fixed tree.
Walk(bs, b) ==
  LET back[k \in 0 .. bs[b].number] ==
        IF k = 0 THEN b ELSE bs[back[k - 1]].parent
  IN [n \in 1 .. bs[b].number + 1 |-> back[bs[b].number + 1 - n]]

\* Block number n of the chain that ends in b.
At(bs, b, n) == Walk(bs, b)[n + 1]

\* Extends over a fixed tree.
Builds(bs, b, a) ==
  bs[a].number <= bs[b].number /\ At(bs, b, bs[a].number) = a

\* A block has an event to show: Matching is not empty.
Hit(bs, b) == \E e \in bs[b].emits : e.sig = "Registry" /\ e.admin \in Filter

\* What each variable holds, by itself.
Typed ==
  /\ TreeOK(blocks) /\ Len(blocks) <= MaxBlocks + 1
  /\ best \in Hashes /\ final \in Hashes /\ announced \in Hashes
  /\ seed \in Hashes /\ last \in Hashes /\ finalised \subseteq Hashes
  /\ heads \in Seq(Hashes) /\ notices \in 0 .. MaxHeads
  /\ phase \in {"seed", "best", "finalised", "live"}
  /\ yielded \in Seq(Item)
  /\ finalAt \in 0 .. MaxBlocks /\ failed \subseteq 0 .. MaxBlocks
  /\ faults \in 0 .. MaxFaults /\ forked \in BOOLEAN

\* The ScanStep in progress belongs to the last head, and the block it reports
\* as discarded is neither that head nor its parent.
WorkOK(w) ==
  /\ w \in [head : Hashes, reorged : SUBSET Hashes, next : Nat, to : Nat,
            out : Seq(Item)]
  /\ w.head = last /\ w.to = Number(last) /\ w.next <= w.to + 1
  /\ \A d \in w.reorged :
       /\ d # last
       /\ \/ Number(last) <= Number(d)
          \/ Number(last) = Number(d) + 1 /\ blocks[last].parent # d

\* At most one head is being worked on.
Working == work = {} \/ \E w : work = {w} /\ WorkOK(w)

\* The seed is below everything the client has seen.
Above ==
  /\ Builds(blocks, best, final) /\ Builds(blocks, final, seed) /\ Builds(blocks, last, seed)
  /\ \A i \in DOMAIN heads : Builds(blocks, heads[i], seed)
  /\ finalAt <= Number(final)

\* What is still untouched while subscribe() opens its streams.
Opening ==
  /\ phase # "live" => /\ work = {} /\ yielded = <<>> /\ last = seed
                       /\ finalised = {} /\ failed = {} /\ finalAt = 0
  /\ phase \in {"seed", "best"} => heads = <<>>
  /\ phase = "seed" => seed = 1

\* Block b is in the sequence s of items.
Shown(s, b) == \E i \in DOMAIN s : s[i] = BestItem(b)

\* A finalised block at or below finalAt is accounted for by the finalised
\* lane, is still above the last head of the best lane, has been looked up by
\* the best lane, or will be in the ScanStep in progress.
Accounted(n) ==
  LET b == At(blocks, final, n)
  IN \/ ~Hit(blocks, b)
     \/ b \in finalised
     \/ n \in failed
     \/ n > Number(last)
     \/ Shown(yielded, b)
     \/ \E w \in work : n \in w.next .. w.to \/ Shown(w.out, b)

Covered ==
  phase = "live" => \A n \in Number(seed) + 1 .. finalAt : Accounted(n)

\* While the best chain only grows, the heads are blocks of it in rising order.
Straight ==
  ~forked =>
    /\ Builds(blocks, best, last)
    /\ \A i \in DOMAIN heads : /\ Builds(blocks, best, heads[i])
                               /\ Number(last) < Number(heads[i])
                               /\ Number(heads[i]) <= Number(announced)
    /\ \A i, j \in DOMAIN heads : i < j => Number(heads[i]) < Number(heads[j])
    /\ phase \in {"finalised", "live"} =>
         Builds(blocks, best, announced) /\ Number(last) <= Number(announced)

\* The items in s are exactly those of the chain that ends in h above the block
\* sd and up to height m, in chain order.
ExactTo(bs, sd, h, s, m) ==
  /\ \A i \in DOMAIN s :
       \E n \in bs[sd].number + 1 .. m :
         s[i] = BestItem(At(bs, h, n)) /\ Hit(bs, At(bs, h, n))
  /\ \A i, j \in DOMAIN s : i < j => bs[s[i].at].number < bs[s[j].at].number
  /\ \A n \in bs[sd].number + 1 .. m :
       Hit(bs, At(bs, h, n)) => Shown(s, At(bs, h, n))

Exact ==
  (~forked /\ failed = {}) =>
    /\ work = {} => ExactTo(blocks, seed, best, yielded, Number(last))
    /\ \A w \in work : /\ w.next > Number(seed)
                       /\ ExactTo(blocks, seed, best, yielded \o w.out, w.next - 1)

Inv ==
  /\ Typed /\ Working /\ Above /\ Opening
  /\ Covered /\ Straight /\ Exact

-----------------------------------------------------------------------------
(* Paths of a fixed tree.                                                  *)

\* A nonempty set of natural numbers has a least element; the proofs below
\* use it where others would use induction.
LEMMA LeastNumber ==
  ASSUME NEW T \in SUBSET Nat, T # {}
  PROVE  \E n \in T : \A m \in T : n <= m
<1> DEFINE R == OpToRel(<, Nat)
<1>1. IsWellFoundedOn(R, Nat)
  BY NatLessThanWellFounded
<1>2. PICK x \in T : \A y \in T : ~(<<y, x>> \in R)
  <2> HIDE DEF R
  <2> QED BY <1>1, WFMin
<1>3. \A y \in T : ~(y < x)
  BY <1>2 DEF OpToRel
<1> QED BY <1>3

\* The recursion in PathTo: f[k] is the block k steps below b.
IsBack(bs, b, f) ==
  f = [k \in 0 .. bs[b].number |-> IF k = 0 THEN b ELSE bs[f[k - 1]].parent]

\* p lists the chain that ends in b, from the genesis block up.
IsPath(bs, b, p) ==
  /\ p \in [1 .. bs[b].number + 1 -> 1 .. Len(bs)]
  /\ p[bs[b].number + 1] = b
  /\ \A n \in 1 .. bs[b].number + 1 : bs[p[n]].number = n - 1
  /\ \A n \in 1 .. bs[b].number : p[n] = bs[p[n + 1]].parent

\* The types of the fields of a tree's blocks.
LEMMA TreeFields ==
  ASSUME NEW bs, TreeOK(bs)
  PROVE  /\ DOMAIN bs = 1 .. Len(bs) /\ Len(bs) \in Nat
         /\ \A b \in 1 .. Len(bs) : bs[b].number \in Nat /\ bs[b].parent \in Nat
         /\ \A b \in 1 .. Len(bs) :
              bs[b].number > 0 => /\ b \in 2 .. Len(bs)
                                  /\ bs[b].parent \in 1 .. Len(bs)
                                  /\ bs[b].parent < b
                                  /\ bs[b].number = bs[bs[b].parent].number + 1
<1>1. /\ bs \in Seq([parent : Nat, number : Nat, emits : Contents])
      /\ bs[1].number = 0
      /\ \A b \in 2 .. Len(bs) : /\ bs[b].parent \in 1 .. b - 1
                                 /\ bs[b].number = bs[bs[b].parent].number + 1
  BY DEF TreeOK
<1>2. DOMAIN bs = 1 .. Len(bs) /\ Len(bs) \in Nat
  BY <1>1
<1>3. \A b \in 1 .. Len(bs) : bs[b] \in [parent : Nat, number : Nat, emits : Contents]
  <2> DEFINE B == [parent : Nat, number : Nat, emits : Contents]
  <2>1. bs \in Seq(B)
    BY <1>1
  <2> HIDE DEF B
  <2>2. \A b \in 1 .. Len(bs) : bs[b] \in B
    BY <2>1
  <2> QED BY <2>2 DEF B
<1>4. ASSUME NEW b \in 1 .. Len(bs), bs[b].number > 0
      PROVE  /\ b \in 2 .. Len(bs)
             /\ bs[b].parent \in 1 .. Len(bs)
             /\ bs[b].parent < b
             /\ bs[b].number = bs[bs[b].parent].number + 1
  <2>1. b # 1
    BY <1>1, <1>4
  <2>2. b \in 2 .. Len(bs)
    BY <2>1, <1>2
  <2>3. bs[b].parent \in 1 .. b - 1 /\ bs[b].number = bs[bs[b].parent].number + 1
    BY <2>2, <1>1
  <2> QED BY <2>2, <2>3, <1>2
<1> QED BY <1>2, <1>3, <1>4

\* The recursion has a solution for every block: a block without one would have
\* an older parent without one.
LEMMA BackExists ==
  ASSUME NEW bs, TreeOK(bs)
  PROVE  \A b \in 1 .. Len(bs) : \E f : IsBack(bs, b, f)
<1> DEFINE T == {b \in 1 .. Len(bs) : ~\E f : IsBack(bs, b, f)}
<1> SUFFICES ASSUME T # {} PROVE FALSE
  BY Zenon
<1>0. Len(bs) \in Nat /\ T \in SUBSET Nat
  BY TreeFields
<1> HIDE DEF T
<1>1. PICK b \in T : \A c \in T : b <= c
  BY <1>0, LeastNumber
<1>2. b \in 1 .. Len(bs) /\ ~\E f : IsBack(bs, b, f)
  BY <1>1 DEF T
<1>3. CASE bs[b].number = 0
  <2> DEFINE g == [k \in 0 .. 0 |-> b]
  <2>1. g = [k \in 0 .. 0 |-> IF k = 0 THEN b ELSE bs[g[k - 1]].parent]
    BY SMT
  <2>2. IsBack(bs, b, g)
    BY <2>1, <1>3 DEF IsBack
  <2> QED BY <2>2, <1>2
<1>4. CASE bs[b].number > 0
  <2> DEFINE c == bs[b].parent
             N == bs[b].number
  <2>1. c \in 1 .. Len(bs) /\ c < b /\ N = bs[c].number + 1 /\ bs[c].number \in Nat
    BY <1>2, <1>4, TreeFields
  <2>2. c \notin T
    BY <1>1, <2>1, <1>0
  <2>3. PICK f : IsBack(bs, c, f)
    BY <2>1, <2>2 DEF T
  <2> DEFINE g == [k \in 0 .. N |-> IF k = 0 THEN b ELSE f[k - 1]]
  <2>4. ASSUME NEW k \in 0 .. N
        PROVE  g[k] = IF k = 0 THEN b ELSE bs[g[k - 1]].parent
    <3>1. CASE k = 0
      BY <3>1
    <3>2. CASE k = 1
      <4>1. f[0] = c
        BY <2>3, <2>1 DEF IsBack
      <4>2. g[1] = f[0] /\ g[0] = b
        BY <2>1
      <4> QED BY <4>1, <4>2, <3>2
    <3>3. CASE k > 1
      <4>1. f[k - 1] = bs[f[k - 2]].parent
        <5>1. k - 1 \in 0 .. bs[c].number /\ k - 1 # 0 /\ (k - 1) - 1 = k - 2
          BY <3>3, <2>1
        <5> HIDE DEF c
        <5> QED BY <5>1, <2>3 DEF IsBack
      <4>2. g[k] = f[k - 1] /\ g[k - 1] = f[k - 2]
        BY <2>1, <3>3, SMTT(30)
      <4> QED BY <4>1, <4>2, <3>3
    <3> QED BY <3>1, <3>2, <3>3, <2>1
  <2>5. g = [k \in 0 .. N |-> IF k = 0 THEN b ELSE bs[g[k - 1]].parent]
    <3>1. g = [k \in 0 .. N |-> g[k]]
      OBVIOUS
    <3> HIDE DEF g
    <3> QED BY <3>1, <2>4, Zenon
  <2>6. IsBack(bs, b, g)
    BY <2>5 DEF IsBack
  <2> QED BY <2>6, <1>2
<1> QED BY <1>2, <1>3, <1>4, TreeFields

\* A solution walks down the tree, one height at a step.
LEMMA BackDown ==
  ASSUME NEW bs, TreeOK(bs), NEW b \in 1 .. Len(bs), NEW f, IsBack(bs, b, f)
  PROVE  \A k \in 0 .. bs[b].number : /\ f[k] \in 1 .. Len(bs)
                                      /\ bs[f[k]].number = bs[b].number - k
<1> DEFINE N == bs[b].number
           T == {k \in 0 .. N : ~(f[k] \in 1 .. Len(bs) /\ bs[f[k]].number = N - k)}
<1> SUFFICES ASSUME T # {} PROVE FALSE
  BY Zenon
<1>0. N \in Nat /\ T \in SUBSET Nat
  BY TreeFields
<1>f. \A k \in 0 .. N : f[k] = IF k = 0 THEN b ELSE bs[f[k - 1]].parent
  BY Zenon DEF IsBack
<1> HIDE DEF T
<1>1. PICK k \in T : \A c \in T : k <= c
  BY <1>0, LeastNumber
<1>2. k \in 0 .. N /\ ~(f[k] \in 1 .. Len(bs) /\ bs[f[k]].number = N - k)
  BY <1>1 DEF T
<1>3. k # 0
  BY <1>f, <1>2, <1>0
<1>4. k - 1 \in 0 .. N /\ k - 1 \notin T
  BY <1>1, <1>2, <1>3, <1>0
<1>5. f[k - 1] \in 1 .. Len(bs) /\ bs[f[k - 1]].number = N - (k - 1)
  BY <1>4 DEF T
<1>6. f[k] = bs[f[k - 1]].parent
  BY <1>f, <1>2, <1>3
<1>7. bs[f[k - 1]].number > 0
  BY <1>5, <1>2, <1>0
<1> DEFINE c == f[k - 1]
<1>8. /\ bs[c].parent \in 1 .. Len(bs)
      /\ bs[c].number = bs[bs[c].parent].number + 1
      /\ bs[bs[c].parent].number \in Nat
  <2> HIDE DEF c, N
  <2> QED BY <1>5, <1>7, TreeFields DEF c
<1> DEFINE u == bs[c].number
           v == bs[f[k]].number
<1>9. u = N - (k - 1) /\ u = v + 1 /\ v \in Nat /\ f[k] \in 1 .. Len(bs)
  BY <1>5, <1>6, <1>8
<1>10. v # N - k
  BY <1>2, <1>9
<1> HIDE DEF N, u, v
<1> QED BY <1>9, <1>10, <1>2, <1>0

\* Walk is the path.
LEMMA WalkIsPath ==
  ASSUME NEW bs, TreeOK(bs), NEW b \in 1 .. Len(bs)
  PROVE  IsPath(bs, b, Walk(bs, b))
<1> DEFINE f == CHOOSE f : IsBack(bs, b, f)
           N == bs[b].number
           p == Walk(bs, b)
<1>1. IsBack(bs, b, f)
  BY BackExists, Zenon
<1>2. p = [n \in 1 .. N + 1 |-> f[N + 1 - n]]
  BY Zenon DEF Walk, IsBack
<1>3. N \in Nat
  BY TreeFields
<1> HIDE DEF f, p
<1>4. \A k \in 0 .. N : f[k] \in 1 .. Len(bs) /\ bs[f[k]].number = N - k
  BY <1>1, BackDown
<1>5. \A k \in 0 .. N : f[k] = IF k = 0 THEN b ELSE bs[f[k - 1]].parent
  BY <1>1, Zenon DEF IsBack
<1> HIDE DEF N
<1>6. p \in [1 .. N + 1 -> 1 .. Len(bs)]
  BY <1>2, <1>3, <1>4
<1>7. p[N + 1] = b
  BY <1>2, <1>3, <1>5
<1>8. \A n \in 1 .. N + 1 : bs[p[n]].number = n - 1
  BY <1>2, <1>3, <1>4
<1>9. \A n \in 1 .. N : p[n] = bs[p[n + 1]].parent
  <2> TAKE n \in 1 .. N
  <2>1. p[n] = f[N + 1 - n] /\ p[n + 1] = f[N - n]
    BY <1>2, <1>3
  <2>2. N + 1 - n \in 0 .. N /\ N + 1 - n # 0 /\ (N + 1 - n) - 1 = N - n
    BY <1>3
  <2> QED BY <2>1, <2>2, <1>5
<1> QED BY <1>6, <1>7, <1>8, <1>9 DEF IsPath, N, p

\* There is one path to a block: the highest difference would lie below a
\* common block.
LEMMA PathUnique ==
  ASSUME NEW bs, TreeOK(bs), NEW b \in 1 .. Len(bs),
         NEW p, IsPath(bs, b, p), NEW q, IsPath(bs, b, q)
  PROVE  p = q
<1> DEFINE N == bs[b].number
           T == {k \in 0 .. N : p[N + 1 - k] # q[N + 1 - k]}
<1>0. N \in Nat /\ T \in SUBSET Nat
  BY TreeFields
<1>1. p \in [1 .. N + 1 -> 1 .. Len(bs)] /\ q \in [1 .. N + 1 -> 1 .. Len(bs)]
  BY DEF IsPath
<1>2. CASE T = {}
  <2>1. \A n \in 1 .. N + 1 : p[n] = q[n]
    <3> TAKE n \in 1 .. N + 1
    <3>1. N + 1 - n \in 0 .. N /\ N + 1 - (N + 1 - n) = n
      BY <1>0
    <3> HIDE DEF N
    <3> QED BY <3>1, <1>2
  <2> HIDE DEF N
  <2>2. p = [n \in 1 .. N + 1 |-> p[n]] /\ q = [n \in 1 .. N + 1 |-> q[n]]
    BY <1>1
  <2>3. [n \in 1 .. N + 1 |-> p[n]] = [n \in 1 .. N + 1 |-> q[n]]
    BY <2>1, Zenon
  <2> QED BY <2>2, <2>3, Zenon
<1>3. CASE T # {}
  <2> HIDE DEF T
  <2>1. PICK k \in T : \A c \in T : k <= c
    BY <1>0, <1>3, LeastNumber
  <2>2. k \in 0 .. N /\ p[N + 1 - k] # q[N + 1 - k]
    BY <2>1 DEF T
  <2>3. k # 0
    <3>1. p[N + 1] = b /\ q[N + 1] = b
      BY DEF IsPath
    <3> QED BY <3>1, <2>2, <1>0
  <2>4. k - 1 \in 0 .. N /\ k - 1 \notin T
    BY <2>1, <2>2, <2>3, <1>0
  <2>5. p[N + 1 - (k - 1)] = q[N + 1 - (k - 1)]
    BY <2>4 DEF T
  <2>6. N + 1 - (k - 1) = (N + 1 - k) + 1 /\ N + 1 - k \in 1 .. N
    BY <2>2, <2>3, <1>0
  <2>7. p[N + 1 - k] = bs[p[(N + 1 - k) + 1]].parent
    BY <2>6 DEF IsPath
  <2>8. q[N + 1 - k] = bs[q[(N + 1 - k) + 1]].parent
    BY <2>6 DEF IsPath
  <2> QED BY <2>2, <2>5, <2>6, <2>7, <2>8
<1> QED BY <1>2, <1>3

\* Block n of a chain is at height n, and the chain up to it is the chain that
\* ends in it.
LEMMA AtFacts ==
  ASSUME NEW bs, TreeOK(bs), NEW b \in 1 .. Len(bs)
  PROVE  /\ At(bs, b, bs[b].number) = b
         /\ \A n \in 0 .. bs[b].number :
              /\ At(bs, b, n) \in 1 .. Len(bs)
              /\ bs[At(bs, b, n)].number = n
              /\ \A m \in 0 .. n : At(bs, At(bs, b, n), m) = At(bs, b, m)
<1> DEFINE N == bs[b].number
<1>0. N \in Nat /\ Len(bs) \in Nat
  BY TreeFields
<1>1. PICK p : p = Walk(bs, b)
  BY Zenon
<1>2. IsPath(bs, b, p)
  BY <1>1, WalkIsPath
<1>3. /\ p \in [1 .. N + 1 -> 1 .. Len(bs)]
      /\ p[N + 1] = b
      /\ \A n \in 1 .. N + 1 : bs[p[n]].number = n - 1
      /\ \A n \in 1 .. N : p[n] = bs[p[n + 1]].parent
  BY <1>2 DEF IsPath
<1>4. \A n : At(bs, b, n) = p[n + 1]
  BY <1>1 DEF At
<1> HIDE DEF N
<1>5. ASSUME NEW n \in 0 .. N
      PROVE  /\ p[n + 1] \in 1 .. Len(bs)
             /\ bs[p[n + 1]].number = n
             /\ \A m \in 0 .. n : At(bs, p[n + 1], m) = p[m + 1]
  <2>1. n + 1 \in 1 .. N + 1 /\ (n + 1) - 1 = n
    BY <1>0
  <2>2. p[n + 1] \in 1 .. Len(bs) /\ bs[p[n + 1]].number = n
    BY <2>1, <1>3
  <2>3. PICK c : c = p[n + 1]
    BY Zenon
  <2>4. PICK q : q = [k \in 1 .. n + 1 |-> p[k]]
    BY Zenon
  <2>5. IsPath(bs, c, q)
    <3>1. bs[c].number = n /\ c \in 1 .. Len(bs)
      BY <2>2, <2>3
    <3>2. q \in [1 .. n + 1 -> 1 .. Len(bs)]
      BY <2>4, <1>3, <1>0
    <3>3. q[n + 1] = c
      BY <2>4, <2>3
    <3>4. \A k \in 1 .. n + 1 : bs[q[k]].number = k - 1
      BY <2>4, <1>3, <1>0
    <3>5. \A k \in 1 .. n : q[k] = bs[q[k + 1]].parent
      BY <2>4, <1>3, <1>0, SMTT(30)
    <3> QED BY <3>1, <3>2, <3>3, <3>4, <3>5 DEF IsPath
  <2>6. IsPath(bs, c, Walk(bs, c))
    BY <2>2, <2>3, WalkIsPath
  <2>7. Walk(bs, c) = q
    BY <2>2, <2>3, <2>5, <2>6, PathUnique, Zenon
  <2>8. \A m \in 0 .. n : At(bs, c, m) = p[m + 1]
    BY <2>7, <2>4 DEF At
  <2> QED BY <2>2, <2>3, <2>8
<1>6. At(bs, b, N) = b
  BY <1>3, <1>4
<1> QED BY <1>4, <1>5, <1>6 DEF N

\* The parent of a block is the block below it on its chain.
LEMMA ParentAt ==
  ASSUME NEW bs, TreeOK(bs), NEW b \in 1 .. Len(bs), NEW n \in Nat,
         bs[b].number = n + 1
  PROVE  bs[b].parent = At(bs, b, n)
<1>1. IsPath(bs, b, Walk(bs, b))
  BY WalkIsPath
<1>2. n + 1 \in 1 .. n + 1 /\ (n + 1) + 1 = n + 2
  OBVIOUS
<1>3. Walk(bs, b)[n + 2] = b /\ Walk(bs, b)[n + 1] = bs[Walk(bs, b)[n + 2]].parent
  BY <1>1, <1>2 DEF IsPath
<1> QED BY <1>3 DEF At

\* Building on a block is reflexive and transitive, and every block builds on
\* the genesis block.
LEMMA BuildsOrder ==
  ASSUME NEW bs, TreeOK(bs)
  PROVE  /\ \A b \in 1 .. Len(bs) : Builds(bs, b, b) /\ Builds(bs, b, 1)
         /\ \A a, b, c \in 1 .. Len(bs) :
              Builds(bs, c, b) /\ Builds(bs, b, a) => Builds(bs, c, a)
         /\ \A a, b \in 1 .. Len(bs) :
              Builds(bs, b, a) /\ bs[a].number = bs[b].number => a = b
<1>0. /\ Len(bs) \in Nat
      /\ \A b \in 1 .. Len(bs) : bs[b].number \in Nat
      /\ \A b \in 1 .. Len(bs) : bs[b].number = 0 => b = 1
      /\ 1 \in 1 .. Len(bs) /\ bs[1].number = 0
  <2>1. \A b \in 2 .. Len(bs) : bs[b].parent \in 1 .. Len(bs)
                                /\ bs[b].number = bs[bs[b].parent].number + 1
    BY TreeFields, SMTT(30) DEF TreeOK
  <2>2. Len(bs) \in Nat /\ \A b \in 1 .. Len(bs) : bs[b].number \in Nat
    BY TreeFields
  <2>3. Len(bs) >= 1 /\ bs[1].number = 0
    BY DEF TreeOK
  <2> QED BY <2>1, <2>2, <2>3
<1>1. ASSUME NEW b \in 1 .. Len(bs)
      PROVE  Builds(bs, b, b) /\ Builds(bs, b, 1)
  <2>1. Builds(bs, b, b)
    BY <1>0, AtFacts DEF Builds
  <2>2. 0 \in 0 .. bs[b].number
    BY <1>0
  <2>3. At(bs, b, 0) \in 1 .. Len(bs) /\ bs[At(bs, b, 0)].number = 0
    BY <2>2, AtFacts
  <2>4. At(bs, b, 0) = 1
    BY <2>3, <1>0
  <2> QED BY <2>1, <2>2, <2>4, <1>0 DEF Builds
<1>2. ASSUME NEW a \in 1 .. Len(bs), NEW b \in 1 .. Len(bs), NEW c \in 1 .. Len(bs),
             Builds(bs, c, b), Builds(bs, b, a)
      PROVE  Builds(bs, c, a)
  <2>1. /\ bs[b].number \in 0 .. bs[c].number /\ At(bs, c, bs[b].number) = b
        /\ bs[a].number \in 0 .. bs[b].number /\ At(bs, b, bs[a].number) = a
    BY <1>2, <1>0 DEF Builds
  <2>2. At(bs, At(bs, c, bs[b].number), bs[a].number) = At(bs, c, bs[a].number)
    BY <2>1, AtFacts
  <2>3. bs[a].number <= bs[c].number
    BY <2>1, <1>0
  <2> QED BY <2>1, <2>2, <2>3 DEF Builds
<1>3. ASSUME NEW a \in 1 .. Len(bs), NEW b \in 1 .. Len(bs),
             Builds(bs, b, a), bs[a].number = bs[b].number
      PROVE  a = b
  BY <1>3, AtFacts DEF Builds
<1> QED BY <1>1, <1>2, <1>3

\* Block x can be imported into the tree bs.
Importable(bs, x) ==
  x \in Block /\ x.parent \in 1 .. Len(bs) /\ x.number = bs[x.parent].number + 1

\* The tree bt is bs and the block x: every chain is as it was, and the chain of
\* the new block is that of its parent and itself.
Grown(bs, x, bt) ==
  /\ TreeOK(bt) /\ Len(bt) = Len(bs) + 1
  /\ bt[Len(bs) + 1] = x
  /\ \A b \in 1 .. Len(bs) : bt[b] = bs[b]
  /\ \A b \in 1 .. Len(bs) : \A n \in 0 .. bs[b].number :
       At(bt, b, n) = At(bs, b, n)
  /\ \A n \in 0 .. bs[x.parent].number :
       At(bt, Len(bs) + 1, n) = At(bs, x.parent, n)

\* An import leaves every chain as it is.
LEMMA Grow ==
  ASSUME NEW bs, TreeOK(bs), NEW x, Importable(bs, x),
         NEW bt, bt = Append(bs, x)
  PROVE  Grown(bs, x, bt)
<1> USE DEF Importable
<1> DEFINE B == [parent : Nat, number : Nat, emits : Contents]
           L == Len(bs)
<1>0. /\ bs \in Seq(B) /\ L \in Nat /\ L >= 1 /\ x \in B
      /\ \A b \in 1 .. L : bs[b].number \in Nat
  BY TreeFields DEF TreeOK, Block
<1>1. /\ bt \in Seq(B) /\ Len(bt) = L + 1 /\ bt[L + 1] = x
      /\ \A b \in 1 .. L : bt[b] = bs[b]
  <2> HIDE DEF B
  <2> QED BY <1>0
<1>2. TreeOK(bt)
  <2>1. \A b \in 2 .. L : /\ bs[b].parent \in 1 .. b - 1
                          /\ bs[b].number = bs[bs[b].parent].number + 1
    BY DEF TreeOK
  <2>2. \A b \in 1 .. L : bs[b].number <= b - 1
    BY DEF TreeOK
  <2>3. bs[1].number = 0
    BY DEF TreeOK
  <2> HIDE DEF B, L
  <2>4. \A b \in 2 .. L + 1 : /\ bt[b].parent \in 1 .. b - 1
                              /\ bt[b].number = bt[bt[b].parent].number + 1
    <3> TAKE b \in 2 .. L + 1
    <3>1. CASE b = L + 1
      BY <3>1, <1>0, <1>1 DEF L
    <3>2. CASE b \in 2 .. L
      <4>1. bt[b] = bs[b] /\ bs[b].parent \in 1 .. L
        BY <3>2, <1>1, <2>1, <1>0
      <4> QED BY <4>1, <3>2, <1>1, <2>1
    <3>3. L \in Nat
      BY <1>0
    <3>4. b = L + 1 \/ b \in 2 .. L
      BY <3>3
    <3> QED BY <3>1, <3>2, <3>4, Zenon
  <2>5. \A b \in 1 .. L + 1 : bt[b].number <= b - 1
    <3> TAKE b \in 1 .. L + 1
    <3>1. CASE b = L + 1
      <4>1. x.parent \in 1 .. L /\ x.number = bs[x.parent].number + 1
        BY DEF L
      <4>2. bs[x.parent].number <= x.parent - 1 /\ bs[x.parent].number \in Nat
        BY <4>1, <2>2, <1>0
      <4> QED BY <3>1, <4>1, <4>2, <1>1, <1>0
    <3>2. CASE b \in 1 .. L
      BY <3>2, <2>2, <1>1
    <3>3. L \in Nat
      BY <1>0
    <3>4. b = L + 1 \/ b \in 1 .. L
      BY <3>3
    <3> QED BY <3>1, <3>2, <3>4, Zenon
  <2>6. Len(bt) >= 1 /\ bt[1].number = 0
    BY <1>0, <1>1, <2>3
  <2> QED BY <1>0, <1>1, <2>4, <2>5, <2>6 DEF TreeOK, B
<1> HIDE DEF B
<1>3. ASSUME NEW b \in 1 .. L
      PROVE  Walk(bt, b) = Walk(bs, b)
  <2>1. PICK p : p = Walk(bs, b)
    BY Zenon
  <2>2. IsPath(bs, b, p)
    BY <2>1, WalkIsPath
  <2>3. IsPath(bt, b, p)
    <3> DEFINE N == bs[b].number
    <3>1. /\ p \in [1 .. N + 1 -> 1 .. L]
          /\ p[N + 1] = b
          /\ \A n \in 1 .. N + 1 : bs[p[n]].number = n - 1
          /\ \A n \in 1 .. N : p[n] = bs[p[n + 1]].parent
      BY <2>2 DEF IsPath
    <3>2. N = bt[b].number /\ N \in Nat
      BY <1>0, <1>1
    <3> HIDE DEF N, L
    <3>3. \A n \in 1 .. N + 1 : p[n] \in 1 .. L /\ bt[p[n]] = bs[p[n]]
      BY <3>1, <3>2, <1>1
    <3>4. p \in [1 .. N + 1 -> 1 .. L + 1]
      BY <3>1, <1>0
    <3>5. \A n \in 1 .. N + 1 : bt[p[n]].number = n - 1
      BY <3>1, <3>3
    <3>6. \A n \in 1 .. N : p[n] = bt[p[n + 1]].parent
      <4> TAKE n \in 1 .. N
      <4>0. N \in Nat
        BY <3>2
      <4>1. n + 1 \in 1 .. N + 1
        BY <4>0
      <4>2. bt[p[n + 1]] = bs[p[n + 1]]
        BY <4>1, <3>3
      <4> QED BY <4>2, <3>1
    <3> QED BY <3>1, <3>2, <3>4, <3>5, <3>6, <1>1 DEF IsPath
  <2>4. b \in 1 .. Len(bt)
    BY <1>0, <1>1
  <2>5. IsPath(bt, b, Walk(bt, b))
    BY <2>4, <1>2, WalkIsPath
  <2> QED BY <1>2, <2>1, <2>3, <2>4, <2>5, PathUnique, Zenon
<1>4. \A b \in 1 .. L : \A n : At(bt, b, n) = At(bs, b, n)
  BY <1>3 DEF At
<1>5. ASSUME NEW n \in 0 .. bs[x.parent].number
      PROVE  At(bt, L + 1, n) = At(bs, x.parent, n)
  <2> DEFINE c == x.parent
             M == bs[c].number
             e == L + 1
  <2>1. /\ e \in 1 .. Len(bt) /\ c \in 1 .. L /\ M \in Nat
        /\ bt[e].number = M + 1 /\ bt[e].parent = c
    BY <1>0, <1>1
  <2>2. IsPath(bt, e, Walk(bt, e))
    BY <2>1, <1>2, WalkIsPath
  <2> HIDE DEF M, e
  <2>3. Walk(bt, e)[M + 1] = bt[Walk(bt, e)[M + 2]].parent /\ Walk(bt, e)[M + 2] = e
    <3>1. (M + 1) + 1 = M + 2 /\ M + 1 \in 1 .. M + 1
      BY <2>1
    <3> QED BY <3>1, <2>1, <2>2 DEF IsPath
  <2>4. At(bt, e, M) = c
    BY <2>3, <2>1 DEF At
  <2>5. M \in 0 .. bt[e].number /\ n \in 0 .. M
    BY <2>1 DEF M
  <2>6. At(bt, At(bt, e, M), n) = At(bt, e, n)
    BY <2>5, <2>1, <1>2, AtFacts
  <2> QED BY <2>4, <2>6, <2>1, <1>4 DEF e
<1> QED BY <1>1, <1>2, <1>4, <1>5 DEF Grown

\* PathTo and Extends are Walk and Builds over the tree of the state.
LEMMA OverState ==
  /\ \A b, n : PathTo(b)[n + 1] = At(blocks, b, n)
  /\ \A b, a : Extends(b, a) <=> Builds(blocks, b, a)
<1>1. \A b : PathTo(b) = Walk(blocks, b)
  BY Zenon DEF PathTo, Walk, Number
<1>2. \A b, n : PathTo(b)[n + 1] = At(blocks, b, n)
  BY <1>1 DEF At
<1> QED BY <1>2 DEF Extends, Builds, Number

-----------------------------------------------------------------------------
(* The invariant holds initially and every action keeps it.                *)

\* Hashes, numbers and the bound on them.
LEMMA TypedFacts ==
  ASSUME Typed
  PROVE  /\ Hashes = 1 .. Len(blocks) /\ Len(blocks) \in Nat /\ 1 \in Hashes
         /\ \A b \in Hashes : blocks[b].number \in 0 .. MaxBlocks
<1>1. TreeOK(blocks) /\ Len(blocks) <= MaxBlocks + 1
  BY DEF Typed
<1>2. /\ DOMAIN blocks = 1 .. Len(blocks) /\ Len(blocks) \in Nat /\ Len(blocks) >= 1
      /\ \A b \in 1 .. Len(blocks) :
           blocks[b].number \in Nat /\ blocks[b].number <= b - 1
  BY <1>1, TreeFields DEF TreeOK
<1>3. MaxBlocks \in Nat
  BY SubscriptionAssumption
<1> QED BY <1>1, <1>2, <1>3 DEF Hashes

\* Subscribing starts from a genesis block and empty lanes.
LEMMA InitInv ==
  ASSUME Init
  PROVE  Inv
<1>1. PICK c \in Contents : blocks = <<[parent |-> 0, number |-> 0, emits |-> c]>>
  BY DEF Init
<1>2. /\ blocks \in Seq([parent : Nat, number : Nat, emits : Contents])
      /\ Len(blocks) = 1 /\ blocks[1].number = 0
  BY <1>1
<1>3. TreeOK(blocks)
  BY <1>2 DEF TreeOK
<1>4. Hashes = {1} /\ MaxBlocks \in Nat /\ MaxHeads \in Nat /\ MaxFaults \in Nat
  BY <1>2, SubscriptionAssumption DEF Hashes
<1>5. Typed
  <2>1. Len(blocks) <= MaxBlocks + 1
    BY <1>2, <1>4
  <2>2. best \in Hashes /\ final \in Hashes /\ announced \in Hashes
        /\ seed \in Hashes /\ last \in Hashes /\ finalised \subseteq Hashes
    BY <1>4 DEF Init
  <2>3. heads \in Seq(Hashes) /\ yielded \in Seq(Item) /\ failed \subseteq 0 .. MaxBlocks
    BY DEF Init
  <2>4. notices \in 0 .. MaxHeads /\ finalAt \in 0 .. MaxBlocks /\ faults \in 0 .. MaxFaults
    BY <1>4 DEF Init
  <2>5. phase \in {"seed", "best", "finalised", "live"} /\ forked \in BOOLEAN
    BY DEF Init
  <2> QED BY <1>3, <2>1, <2>2, <2>3, <2>4, <2>5 DEF Typed
<1>6. Builds(blocks, 1, 1)
  <2>1. 1 \in 1 .. Len(blocks)
    BY <1>2
  <2> QED BY <1>3, <2>1, BuildsOrder, Zenon
<1>7. Above
  BY <1>2, <1>6 DEF Init, Above, Number
<1>8. Working /\ Opening /\ Covered
  BY DEF Init, Working, Opening, Covered
<1>9. Straight
  BY <1>6 DEF Init, Straight
<1>10. Exact
  <2>1. ExactTo(blocks, 1, 1, <<>>, 0)
    BY <1>2 DEF ExactTo
  <2> QED BY <2>1, <1>2 DEF Exact, Init, Number
<1> QED BY <1>5, <1>7, <1>8, <1>9, <1>10 DEF Inv

\* Importing a block leaves what the client has seen as it was.
LEMMA MineFacts ==
  ASSUME Typed, NEW parent \in Hashes, NEW c \in Contents, Mine(parent, c)
  PROVE  /\ TreeOK(blocks') /\ Len(blocks') = Len(blocks) + 1
         /\ Hashes' = 1 .. Len(blocks) + 1 /\ Hashes \subseteq Hashes'
         /\ best' = Len(blocks) + 1 /\ best' \in Hashes'
         /\ blocks'[best'].number = blocks[parent].number + 1
         /\ \A b \in Hashes : blocks'[b] = blocks[b]
         /\ \A b \in Hashes : \A n \in 0 .. blocks[b].number :
              At(blocks', b, n) = At(blocks, b, n)
         /\ \A a, b \in Hashes : Builds(blocks', b, a) <=> Builds(blocks, b, a)
         /\ \A n \in 0 .. blocks[parent].number :
              At(blocks', best', n) = At(blocks, parent, n)
         /\ Builds(blocks', best', parent)
<1>1. /\ Hashes = 1 .. Len(blocks) /\ Len(blocks) \in Nat
      /\ \A b \in Hashes : blocks[b].number \in Nat
      /\ TreeOK(blocks)
  BY TypedFacts, SubscriptionAssumption DEF Typed
<1>2. PICK x : x = [parent |-> parent, number |-> Number(parent) + 1, emits |-> c]
  BY Zenon
<1>3. /\ x \in [parent : Nat, number : Nat, emits : Contents]
      /\ x.parent = parent /\ x.number = blocks[parent].number + 1
  BY <1>1, <1>2 DEF Number
<1>4. blocks' = Append(blocks, x) /\ best' = Len(blocks) + 1
  BY <1>2 DEF Mine
<1>5. /\ TreeOK(blocks') /\ Len(blocks') = Len(blocks) + 1
      /\ blocks'[Len(blocks) + 1] = x
      /\ \A b \in 1 .. Len(blocks) : blocks'[b] = blocks[b]
      /\ \A b \in 1 .. Len(blocks) : \A n \in 0 .. blocks[b].number :
           At(blocks', b, n) = At(blocks, b, n)
      /\ \A n \in 0 .. blocks[x.parent].number :
           At(blocks', Len(blocks) + 1, n) = At(blocks, x.parent, n)
  <2>1. x.parent \in 1 .. Len(blocks) /\ x.number = blocks[x.parent].number + 1
    BY <1>1, <1>3
  <2>2. PICK bs, bt : bs = blocks /\ bt = blocks'
    BY Zenon
  <2>3. TreeOK(bs) /\ Importable(bs, x) /\ bt = Append(bs, x)
    BY <2>1, <2>2, <1>1, <1>3, <1>4 DEF Block, Importable
  <2>4. Grown(bs, x, bt)
    BY <2>3, Grow, Zenon
  <2> QED BY <2>2, <2>4, Zenon DEF Grown
<1>6. Hashes' = 1 .. Len(blocks) + 1 /\ Hashes \subseteq Hashes' /\ best' \in Hashes'
  <2>1. DOMAIN blocks' = 1 .. Len(blocks')
    BY <1>5, TreeFields
  <2> QED BY <2>1, <1>1, <1>4, <1>5 DEF Hashes
<1>7. ASSUME NEW a \in Hashes, NEW b \in Hashes
      PROVE  Builds(blocks', b, a) <=> Builds(blocks, b, a)
  <2>1. blocks'[a] = blocks[a] /\ blocks'[b] = blocks[b]
    BY <1>1, <1>5
  <2>2. CASE blocks[a].number <= blocks[b].number
    <3>1. blocks[a].number \in 0 .. blocks[b].number
      BY <2>2, <1>1
    <3>2. At(blocks', b, blocks[a].number) = At(blocks, b, blocks[a].number)
      BY <3>1, <1>1, <1>5
    <3> QED BY <2>1, <3>2 DEF Builds
  <2>3. CASE ~(blocks[a].number <= blocks[b].number)
    BY <2>1, <2>3 DEF Builds
  <2> QED BY <2>2, <2>3
<1>8. Builds(blocks', best', parent)
  <2>1. blocks'[parent].number = blocks[parent].number
    BY <1>1, <1>5
  <2>2. blocks'[best'].number = blocks[parent].number + 1
    BY <1>3, <1>4, <1>5
  <2>3. At(blocks', best', blocks[parent].number) = At(blocks, parent, blocks[parent].number)
    BY <1>1, <1>3, <1>4, <1>5
  <2>4. At(blocks, parent, blocks[parent].number) = parent
    BY <1>1, AtFacts
  <2> QED BY <2>1, <2>2, <2>3, <2>4, <1>1 DEF Builds
<1> QED BY <1>1, <1>3, <1>4, <1>5, <1>6, <1>7, <1>8

\* Exactness is about the heights up to m only.
LEMMA ExactMoves ==
  ASSUME NEW bs, NEW bt, NEW sd, NEW h, NEW g, NEW s, NEW m,
         ExactTo(bs, sd, h, s, m),
         bt[sd].number = bs[sd].number,
         \A n \in bs[sd].number + 1 .. m :
           At(bt, g, n) = At(bs, h, n) /\ bt[At(bs, h, n)] = bs[At(bs, h, n)]
  PROVE  ExactTo(bt, sd, g, s, m)
<1>1. \A n \in bs[sd].number + 1 .. m :
        Hit(bt, At(bt, g, n)) <=> Hit(bs, At(bs, h, n))
  BY DEF Hit
<1>2. \A i \in DOMAIN s : \E n \in bs[sd].number + 1 .. m :
        s[i] = BestItem(At(bs, h, n)) /\ Hit(bs, At(bs, h, n))
  BY DEF ExactTo
<1>3. \A i \in DOMAIN s : \E n \in bt[sd].number + 1 .. m :
        s[i] = BestItem(At(bt, g, n)) /\ Hit(bt, At(bt, g, n))
  BY <1>1, <1>2
<1>4. \A i \in DOMAIN s : bt[s[i].at] = bs[s[i].at]
  BY <1>2 DEF BestItem
<1>5. \A i, j \in DOMAIN s : i < j => bt[s[i].at].number < bt[s[j].at].number
  BY <1>4 DEF ExactTo
<1>6. \A n \in bt[sd].number + 1 .. m :
        Hit(bt, At(bt, g, n)) => Shown(s, At(bt, g, n))
  BY <1>1 DEF ExactTo
<1> QED BY <1>3, <1>5, <1>6 DEF ExactTo

\* A block imported on any branch keeps the invariant.
LEMMA MineInv ==
  ASSUME Inv, NEW parent \in Hashes, NEW c \in Contents, Mine(parent, c)
  PROVE  Inv'
<1> USE DEF Number
<1>0. Typed /\ Working /\ Above /\ Opening /\ Covered /\ Straight /\ Exact
  BY DEF Inv
<1>1. /\ Hashes = 1 .. Len(blocks) /\ Len(blocks) \in Nat
      /\ \A b \in Hashes : blocks[b].number \in Nat
      /\ best \in Hashes /\ final \in Hashes /\ announced \in Hashes
      /\ seed \in Hashes /\ last \in Hashes /\ heads \in Seq(Hashes)
      /\ TreeOK(blocks)
  BY <1>0, TypedFacts, SubscriptionAssumption, SMTT(30) DEF Typed
<1>2. /\ TreeOK(blocks') /\ Len(blocks') = Len(blocks) + 1
      /\ Hashes' = 1 .. Len(blocks) + 1 /\ Hashes \subseteq Hashes'
      /\ best' \in Hashes'
      /\ blocks'[best'].number = blocks[parent].number + 1
      /\ \A b \in Hashes : blocks'[b] = blocks[b]
      /\ \A b \in Hashes : \A n \in 0 .. blocks[b].number :
           At(blocks', b, n) = At(blocks, b, n)
      /\ \A a, b \in Hashes : Builds(blocks', b, a) <=> Builds(blocks, b, a)
      /\ \A n \in 0 .. blocks[parent].number :
           At(blocks', best', n) = At(blocks, parent, n)
      /\ Builds(blocks', best', parent)
  BY <1>0, MineFacts
<1>3. /\ Len(blocks) <= MaxBlocks /\ Builds(blocks, parent, final)
      /\ forked' = (forked \/ parent # best)
      /\ UNCHANGED <<final, heads, announced, notices, last, work, yielded, phase,
                     seed, finalAt, finalised, failed, faults>>
  BY OverState DEF Mine, lane
<1>4. Item \subseteq Item'
  BY <1>2 DEF Item
<1>5. Typed'
  <2>1. heads \in Seq(Hashes')
    BY <1>1, <1>2
  <2>2. yielded \in Seq(Item')
    <3>1. yielded \in Seq(Item)
      BY <1>0 DEF Typed
    <3> QED BY <3>1, <1>4
  <2>3. Len(blocks') <= MaxBlocks + 1
    BY <1>1, <1>2, <1>3, SubscriptionAssumption
  <2>4. forked' \in BOOLEAN
    BY <1>3
  <2>5. final \in Hashes' /\ announced \in Hashes' /\ seed \in Hashes' /\ last \in Hashes'
    BY <1>1, <1>2
  <2>6. finalised \subseteq Hashes'
    BY <1>0, <1>2 DEF Typed
  <2> QED BY <1>0, <1>2, <1>3, <2>1, <2>2, <2>3, <2>4, <2>5, <2>6 DEF Typed
<1>6. Working'
  <2>1. ASSUME NEW w, WorkOK(w)
        PROVE  WorkOK(w)'
    <3>1. /\ w \in [head : Hashes, reorged : SUBSET Hashes, next : Nat, to : Nat,
                    out : Seq(Item)]
          /\ w.head = last /\ w.to = blocks[last].number /\ w.next <= w.to + 1
          /\ \A d \in w.reorged :
               /\ d # last
               /\ \/ blocks[last].number <= blocks[d].number
                  \/ blocks[last].number = blocks[d].number + 1 /\ blocks[last].parent # d
      BY <2>1 DEF WorkOK
    <3>2. Seq(Item) \subseteq Seq(Item')
      BY <1>4
    <3>3. w \in [head : Hashes', reorged : SUBSET Hashes', next : Nat, to : Nat,
                 out : Seq(Item')]
      BY <3>1, <3>2, <1>2
    <3>4. \A d \in w.reorged : d \in Hashes
      BY <3>1
    <3> QED BY <3>1, <3>3, <3>4, <1>1, <1>2, <1>3 DEF WorkOK
  <2>2. work' = work
    BY <1>3
  <2> QED BY <1>0, <2>1, <2>2, Zenon DEF Working
<1>7. Above'
  <2>1. Builds(blocks', final, seed) /\ Builds(blocks', last, seed)
    BY <1>0, <1>1, <1>2 DEF Above
  <2>2. Builds(blocks', best', final)
    <3>1. Builds(blocks', parent, final)
      BY <1>1, <1>2, <1>3
    <3>2. best' \in 1 .. Len(blocks') /\ parent \in 1 .. Len(blocks')
          /\ final \in 1 .. Len(blocks')
      BY <1>1, <1>2
    <3> QED BY <3>1, <3>2, <1>2, BuildsOrder
  <2>3. \A i \in DOMAIN heads : Builds(blocks', heads[i], seed)
    <3> TAKE i \in DOMAIN heads
    <3>1. heads[i] \in Hashes
      BY <1>1
    <3> QED BY <3>1, <1>0, <1>1, <1>2 DEF Above
  <2>4. finalAt <= blocks'[final].number
    BY <1>0, <1>1, <1>2 DEF Above
  <2> QED BY <2>1, <2>2, <2>3, <2>4, <1>3 DEF Above
<1>8. Opening'
  BY <1>0, <1>3 DEF Opening
<1>9. Covered'
  <2> SUFFICES ASSUME phase' = "live",
                      NEW n \in blocks'[seed'].number + 1 .. finalAt'
               PROVE  Accounted(n)'
    BY DEF Covered
  <2>1. n \in blocks[seed].number + 1 .. finalAt /\ phase = "live"
    BY <1>1, <1>2, <1>3
  <2>2. Accounted(n)
    BY <2>1, <1>0 DEF Covered
  <2>3. n \in 0 .. blocks[final].number
    <3>1. finalAt <= blocks[final].number /\ finalAt \in Nat
      BY <1>0, SubscriptionAssumption DEF Above, Typed
    <3>2. blocks[final].number \in Nat /\ blocks[seed].number \in Nat
      BY <1>1
    <3> QED BY <2>1, <3>1, <3>2
  <2>4. PICK b : b = At(blocks, final, n)
    BY Zenon
  <2>5. b \in Hashes
    BY <2>3, <2>4, <1>1, AtFacts
  <2>6. At(blocks', final', n) = b
    BY <2>3, <2>4, <1>1, <1>2, <1>3
  <2>7. blocks'[b] = blocks[b] /\ blocks'[last'] = blocks[last]
    BY <2>5, <1>1, <1>2, <1>3
  <2> QED BY <2>2, <2>4, <2>6, <2>7, <1>3 DEF Accounted, Hit, Shown
<1>10. Straight'
  <2> SUFFICES ASSUME ~forked'
               PROVE  Straight'
    BY DEF Straight
  <2>1. ~forked /\ parent = best
    BY <1>3
  <2>2. ASSUME NEW a \in Hashes, Builds(blocks, best, a)
        PROVE  Builds(blocks', best', a)
    <3>1. Builds(blocks', parent, a)
      BY <2>1, <2>2, <1>1, <1>2
    <3>2. best' \in 1 .. Len(blocks') /\ parent \in 1 .. Len(blocks')
          /\ a \in 1 .. Len(blocks')
      BY <1>1, <1>2
    <3> QED BY <3>1, <3>2, <1>2, BuildsOrder
  <2>3. \A i \in DOMAIN heads : heads[i] \in Hashes
    BY <1>1
  <2>4. Builds(blocks', best', last)
    BY <2>1, <2>2, <1>0, <1>1 DEF Straight
  <2>5. \A i \in DOMAIN heads : /\ Builds(blocks', best', heads[i])
                                /\ blocks'[last].number < blocks'[heads[i]].number
                                /\ blocks'[heads[i]].number <= blocks'[announced].number
    <3> TAKE i \in DOMAIN heads
    <3>1. /\ Builds(blocks, best, heads[i])
          /\ blocks[last].number < blocks[heads[i]].number
          /\ blocks[heads[i]].number <= blocks[announced].number
      BY <2>1, <1>0 DEF Straight
    <3> QED BY <3>1, <2>2, <2>3, <1>1, <1>2
  <2>6. \A i, j \in DOMAIN heads :
          i < j => blocks'[heads[i]].number < blocks'[heads[j]].number
    <3> TAKE i, j \in DOMAIN heads
    <3>1. i < j => blocks[heads[i]].number < blocks[heads[j]].number
      BY <2>1, <1>0 DEF Straight
    <3> QED BY <3>1, <2>3, <1>2
  <2>7. phase \in {"finalised", "live"} =>
          /\ Builds(blocks', best', announced)
          /\ blocks'[last].number <= blocks'[announced].number
    <3>1. phase \in {"finalised", "live"} =>
            Builds(blocks, best, announced) /\ blocks[last].number <= blocks[announced].number
      BY <2>1, <1>0 DEF Straight
    <3> QED BY <3>1, <2>2, <1>1, <1>2
  <2> QED BY <2>4, <2>5, <2>6, <2>7, <1>3 DEF Straight
<1>11. Exact'
  <2> SUFFICES ASSUME ~forked', failed' = {}
               PROVE  Exact'
    BY DEF Exact
  <2>1. ~forked /\ parent = best /\ failed = {}
    BY <1>3
  <2>2. blocks[last].number <= blocks[best].number
    BY <2>1, <1>0 DEF Straight, Builds
  <2>3. ASSUME NEW s, NEW m, m \in Int, m <= blocks[best].number,
               ExactTo(blocks, seed, best, s, m)
        PROVE  ExactTo(blocks', seed', best', s, m)
    <3>0. blocks'[seed'].number = blocks[seed].number /\ blocks[seed].number \in Nat
      BY <1>1, <1>2, <1>3
    <3>1. ASSUME NEW n \in blocks[seed].number + 1 .. m
          PROVE  /\ At(blocks', best', n) = At(blocks, best, n)
                 /\ blocks'[At(blocks, best, n)] = blocks[At(blocks, best, n)]
      <4>1. n \in 0 .. blocks[best].number
        BY <2>3, <1>1, <3>0
      <4>2. At(blocks, best, n) \in Hashes
        BY <4>1, <1>1, AtFacts
      <4> QED BY <4>1, <4>2, <2>1, <1>2
    <3>2. PICK bs, bt, sd, h, g : bs = blocks /\ bt = blocks' /\ sd = seed
                                  /\ h = best /\ g = best'
      BY Zenon
    <3>3. /\ ExactTo(bs, sd, h, s, m)
          /\ bt[sd].number = bs[sd].number
          /\ \A n \in bs[sd].number + 1 .. m :
               At(bt, g, n) = At(bs, h, n) /\ bt[At(bs, h, n)] = bs[At(bs, h, n)]
      BY <2>3, <3>0, <3>1, <3>2, <1>3
    <3>4. ExactTo(bt, sd, g, s, m)
      BY <3>3, ExactMoves, Zenon
    <3> QED BY <3>4, <3>2, <1>3
  <2>4. ASSUME work' = {}
        PROVE  ExactTo(blocks', seed', best', yielded', blocks'[last'].number)
    <3>1. ExactTo(blocks, seed, best, yielded, blocks[last].number)
      BY <2>1, <2>4, <1>0, <1>3 DEF Exact
    <3>2. blocks[last].number \in Int
      BY <1>1
    <3>3. ExactTo(blocks', seed', best', yielded, blocks[last].number)
      BY <3>1, <3>2, <2>2, <2>3
    <3> QED BY <3>3, <1>1, <1>2, <1>3
  <2>5. ASSUME NEW w \in work'
        PROVE  /\ w.next > blocks'[seed'].number
               /\ ExactTo(blocks', seed', best', yielded' \o w.out, w.next - 1)
    <3>1. w \in work /\ WorkOK(w)
      BY <2>5, <1>0, <1>3 DEF Working
    <3>2. w.next - 1 \in Int /\ w.next - 1 <= blocks[last].number
      BY <3>1, <1>1 DEF WorkOK
    <3>3. w.next - 1 <= blocks[best].number
      BY <3>2, <2>2, <1>1
    <3>4. /\ w.next > blocks[seed].number
          /\ ExactTo(blocks, seed, best, yielded \o w.out, w.next - 1)
      BY <2>1, <3>1, <1>0 DEF Exact
    <3>5. ExactTo(blocks', seed', best', yielded \o w.out, w.next - 1)
      BY <3>2, <3>3, <3>4, <2>3
    <3>6. blocks'[seed'].number = blocks[seed].number
      BY <1>1, <1>2, <1>3
    <3> QED BY <3>4, <3>5, <3>6, <1>3
  <2> QED BY <2>4, <2>5 DEF Exact
<1> QED BY <1>5, <1>6, <1>7, <1>8, <1>9, <1>10, <1>11 DEF Inv

\* What the proofs of the other actions use of the invariant.
LEMMA InvFacts ==
  ASSUME Inv
  PROVE  /\ Typed /\ Working /\ Above /\ Opening /\ Covered /\ Straight /\ Exact
         /\ TreeOK(blocks) /\ Hashes = 1 .. Len(blocks) /\ Len(blocks) \in Nat
         /\ 1 \in Hashes
         /\ \A b \in Hashes : blocks[b].number \in Nat
         /\ \A b \in Hashes : blocks[b].number \in 0 .. MaxBlocks
         /\ best \in Hashes /\ final \in Hashes /\ announced \in Hashes
         /\ seed \in Hashes /\ last \in Hashes /\ heads \in Seq(Hashes)
         /\ finalAt \in Nat /\ yielded \in Seq(Item) /\ failed \subseteq 0 .. MaxBlocks
         /\ MaxBlocks \in Nat /\ MaxHeads \in Nat /\ MaxFaults \in Nat
         /\ \A w \in work : WorkOK(w) /\ work = {w}
<1>1. Typed /\ Working
  BY DEF Inv
<1>2. MaxBlocks \in Nat
  BY SubscriptionAssumption
<1>3. /\ TreeOK(blocks) /\ Hashes = 1 .. Len(blocks) /\ Len(blocks) \in Nat
      /\ 1 \in Hashes
      /\ \A b \in Hashes : blocks[b].number \in 0 .. MaxBlocks
  BY <1>1, TypedFacts DEF Typed
<1>4. \A w \in work : WorkOK(w) /\ work = {w}
  BY <1>1 DEF Working
<1> QED BY <1>1, <1>2, <1>3, <1>4, SubscriptionAssumption DEF Inv, Typed

\* The best block moves to another branch that finality allows.
LEMMA SetHeadInv ==
  ASSUME Inv, NEW b \in Hashes, SetHead(b)
  PROVE  Inv'
<1>0. Builds(blocks, b, final) /\ best' = b /\ forked' = TRUE
      /\ UNCHANGED <<blocks, final, heads, announced, notices, last, work, yielded,
                     phase, seed, finalAt, finalised, failed, faults>>
  BY OverState DEF SetHead, lane
<1>1. Typed'
  BY <1>0, InvFacts DEF Typed, Hashes, Item
<1>2. Working'
  BY <1>0, InvFacts DEF Working, WorkOK, Hashes, Item, Number
<1>3. Above' /\ Opening'
  BY <1>0, InvFacts DEF Above, Opening, Number
<1>4. Covered'
  BY <1>0, InvFacts DEF Covered, Accounted, Shown, Number
<1>5. Straight' /\ Exact'
  BY <1>0 DEF Straight, Exact
<1> QED BY <1>1, <1>2, <1>3, <1>4, <1>5 DEF Inv

\* Finality moves up the best chain: the finalised blocks stay finalised.
LEMMA FinaliseInv ==
  ASSUME Inv, NEW b \in Hashes, Finalise(b)
  PROVE  Inv'
<1>0. Builds(blocks, b, final) /\ Builds(blocks, best, b) /\ final' = b
      /\ UNCHANGED <<blocks, best, heads, announced, notices, last, work, yielded,
                     phase, seed, finalAt, finalised, failed, faults, forked>>
  BY OverState DEF Finalise, lane
<1>1. Typed'
  BY <1>0, InvFacts DEF Typed, Hashes, Item
<1>2. Working'
  BY <1>0, InvFacts DEF Working, WorkOK, Hashes, Item, Number
<1>3. blocks[final].number <= blocks[b].number
  BY <1>0 DEF Builds
<1>4. Above'
  <2>1. Builds(blocks, final, seed)
    BY InvFacts DEF Above
  <2>2. Builds(blocks, b, seed)
    <3>1. b \in 1 .. Len(blocks) /\ final \in 1 .. Len(blocks) /\ seed \in 1 .. Len(blocks)
      BY InvFacts
    <3> QED BY <3>1, <2>1, <1>0, InvFacts, BuildsOrder
  <2>3. finalAt <= blocks[b].number
    <3>1. finalAt <= blocks[final].number
      BY InvFacts DEF Above, Number
    <3>2. finalAt \in Nat /\ blocks[final].number \in Nat /\ blocks[b].number \in Nat
      BY InvFacts
    <3> QED BY <3>1, <3>2, <1>3
  <2> QED BY <2>2, <2>3, <1>0, InvFacts DEF Above, Number
<1>5. Opening' /\ Straight'
  BY <1>0, InvFacts DEF Opening, Straight, Number
<1>6. Covered'
  <2> SUFFICES ASSUME phase' = "live",
                      NEW n \in blocks'[seed'].number + 1 .. finalAt'
               PROVE  Accounted(n)'
    BY DEF Covered, Number
  <2>1. n \in blocks[seed].number + 1 .. finalAt /\ phase = "live"
    BY <1>0
  <2>2. Accounted(n)
    BY <2>1, InvFacts DEF Covered, Number
  <2>3. At(blocks, b, n) = At(blocks, final, n)
    <3>1. finalAt <= blocks[final].number
      BY InvFacts DEF Above, Number
    <3>2. finalAt \in Nat /\ blocks[final].number \in Nat /\ blocks[b].number \in Nat
          /\ blocks[seed].number \in Nat
      BY InvFacts
    <3>3. n \in 0 .. blocks[final].number /\ blocks[final].number \in 0 .. blocks[b].number
      BY <3>1, <3>2, <2>1, <1>3
    <3>4. At(blocks, b, blocks[final].number) = final
      BY <1>0 DEF Builds
    <3>5. b \in 1 .. Len(blocks) /\ TreeOK(blocks)
      BY InvFacts
    <3>6. At(blocks, At(blocks, b, blocks[final].number), n) = At(blocks, b, n)
      BY <3>3, <3>5, AtFacts
    <3> QED BY <3>4, <3>6
  <2> QED BY <2>2, <2>3, <1>0 DEF Accounted, Shown, Number
<1>7. Exact'
  BY <1>0, InvFacts DEF Exact, Number
<1> QED BY <1>1, <1>2, <1>4, <1>5, <1>6, <1>7 DEF Inv

\* The head that is announced builds on the seed, and lies above the heads
\* announced before while the best chain only grows.
LEMMA AnnounceInv ==
  ASSUME Inv, Announce
  PROVE  Inv'
<1>0. phase \in {"finalised", "live"} /\ best # announced /\ notices < MaxHeads
      /\ heads' = Append(heads, best) /\ announced' = best /\ notices' = notices + 1
      /\ UNCHANGED <<blocks, best, final, forked, phase, seed, last, work, yielded,
                     finalAt, finalised, failed, faults>>
  BY DEF Announce, chain
<1>1. /\ heads \in Seq(Hashes) /\ best \in Hashes
      /\ Len(heads') = Len(heads) + 1 /\ Len(heads) \in Nat
      /\ DOMAIN heads' = 1 .. Len(heads) + 1 /\ DOMAIN heads = 1 .. Len(heads)
      /\ heads'[Len(heads) + 1] = best
      /\ \A i \in 1 .. Len(heads) : heads'[i] = heads[i]
      /\ heads' \in Seq(Hashes)
  BY <1>0, InvFacts
<1>2. Typed'
  <2>1. notices' \in 0 .. MaxHeads
    <3>1. notices \in 0 .. MaxHeads /\ MaxHeads \in Nat
      BY InvFacts DEF Typed
    <3> QED BY <3>1, <1>0
  <2> QED BY <1>0, <1>1, <2>1, InvFacts DEF Typed, Hashes, Item
<1>3. Working'
  BY <1>0, InvFacts DEF Working, WorkOK, Hashes, Item, Number
<1>4. Builds(blocks, best, seed)
  <2>1. Builds(blocks, best, final) /\ Builds(blocks, final, seed)
    BY InvFacts DEF Above
  <2>2. best \in 1 .. Len(blocks) /\ final \in 1 .. Len(blocks) /\ seed \in 1 .. Len(blocks)
    BY InvFacts
  <2> QED BY <2>1, <2>2, InvFacts, BuildsOrder
<1>5. Above'
  <2>1. \A i \in DOMAIN heads' : Builds(blocks, heads'[i], seed)
    <3> TAKE i \in DOMAIN heads'
    <3>1. CASE i = Len(heads) + 1
      BY <3>1, <1>1, <1>4
    <3>2. CASE i \in 1 .. Len(heads)
      BY <3>2, <1>1, InvFacts DEF Above
    <3> QED BY <3>1, <3>2, <1>1
  <2> QED BY <2>1, <1>0, InvFacts DEF Above, Number
<1>6. Opening' /\ Covered'
  <2>1. Opening'
    BY <1>0, InvFacts DEF Opening
  <2>2. Covered'
    BY <1>0, InvFacts DEF Covered, Accounted, Shown, Number
  <2> QED BY <2>1, <2>2
<1>7. Straight'
  <2> SUFFICES ASSUME ~forked'
               PROVE  Straight'
    BY DEF Straight
  <2>1. /\ Builds(blocks, best, last) /\ Builds(blocks, best, announced)
        /\ blocks[last].number <= blocks[announced].number
        /\ \A i \in DOMAIN heads : /\ Builds(blocks, best, heads[i])
                                   /\ blocks[last].number < blocks[heads[i]].number
                                   /\ blocks[heads[i]].number <= blocks[announced].number
        /\ \A i, j \in DOMAIN heads :
             i < j => blocks[heads[i]].number < blocks[heads[j]].number
    BY <1>0, InvFacts DEF Straight, Number
  <2>2. /\ blocks[last].number \in Nat /\ blocks[announced].number \in Nat
        /\ blocks[best].number \in Nat
        /\ \A i \in DOMAIN heads : blocks[heads[i]].number \in Nat
    <3>1. \A i \in DOMAIN heads : heads[i] \in Hashes
      BY <1>1
    <3> QED BY <3>1, InvFacts
  <2>3. best \in 1 .. Len(blocks) /\ announced \in 1 .. Len(blocks) /\ TreeOK(blocks)
    BY InvFacts
  <2>4. Builds(blocks, best, best) /\ blocks[announced].number # blocks[best].number
    BY <2>1, <2>3, <1>0, BuildsOrder
  <2>5. blocks[announced].number < blocks[best].number
    BY <2>1, <2>2, <2>4 DEF Builds
  <2>6. \A i \in DOMAIN heads' : /\ Builds(blocks, best, heads'[i])
                                 /\ blocks[last].number < blocks[heads'[i]].number
                                 /\ blocks[heads'[i]].number <= blocks[best].number
    <3> TAKE i \in DOMAIN heads'
    <3>1. CASE i = Len(heads) + 1
      BY <3>1, <1>1, <2>1, <2>2, <2>4, <2>5
    <3>2. CASE i \in 1 .. Len(heads)
      <4>1. i \in DOMAIN heads /\ heads'[i] = heads[i]
        BY <3>2, <1>1
      <4> QED BY <4>1, <2>1, <2>2, <2>5
    <3> QED BY <3>1, <3>2, <1>1
  <2>7. \A i, j \in DOMAIN heads' :
          i < j => blocks[heads'[i]].number < blocks[heads'[j]].number
    <3> SUFFICES ASSUME NEW i \in DOMAIN heads', NEW j \in DOMAIN heads', i < j
                 PROVE  blocks[heads'[i]].number < blocks[heads'[j]].number
      OBVIOUS
    <3>1. i \in DOMAIN heads /\ heads'[i] = heads[i]
      BY <1>1
    <3>2. CASE j = Len(heads) + 1
      BY <3>1, <3>2, <1>1, <2>1, <2>2, <2>5
    <3>3. CASE j \in 1 .. Len(heads)
      BY <3>1, <3>3, <1>1, <2>1
    <3> QED BY <3>2, <3>3, <1>1
  <2>8. blocks[last].number <= blocks[best].number
    BY <2>1, <2>2, <2>5
  <2> QED BY <2>1, <2>4, <2>6, <2>7, <2>8, <1>0 DEF Straight, Number
<1>8. Exact'
  BY <1>0, InvFacts DEF Exact, Number
<1> QED BY <1>2, <1>3, <1>5, <1>6, <1>7, <1>8 DEF Inv

\* The scan starts from the finalised block.
LEMMA ReadSeedInv ==
  ASSUME Inv, ReadSeed
  PROVE  Inv'
<1>0. phase = "seed" /\ seed' = final /\ last' = final /\ phase' = "best"
      /\ UNCHANGED <<blocks, best, final, forked, heads, announced, notices, work,
                     yielded, finalAt, finalised, failed, faults>>
  BY DEF ReadSeed, chain
<1>1. work = {} /\ heads = <<>> /\ yielded = <<>> /\ finalised = {} /\ failed = {}
      /\ finalAt = 0
  BY <1>0, InvFacts DEF Opening
<1>2. Typed'
  BY <1>0, InvFacts DEF Typed, Hashes, Item
<1>3. Working' /\ Opening' /\ Covered'
  BY <1>0, <1>1 DEF Working, Opening, Covered
<1>4. Builds(blocks, final, final) /\ Builds(blocks, best, final)
  <2>1. final \in 1 .. Len(blocks)
    BY InvFacts
  <2> QED BY <2>1, InvFacts, BuildsOrder DEF Above
<1>5. Above'
  <2>1. blocks[final].number \in Nat
    BY InvFacts
  <2> QED BY <1>0, <1>1, <1>4, <2>1 DEF Above, Number
<1>6. Straight'
  BY <1>0, <1>1, <1>4 DEF Straight
<1>7. Exact'
  <2>1. blocks[final].number \in Nat
    BY InvFacts
  <2>2. ExactTo(blocks, final, best, <<>>, blocks[final].number)
    BY <2>1 DEF ExactTo
  <2> QED BY <2>2, <1>0, <1>1 DEF Exact, Number
<1> QED BY <1>2, <1>3, <1>5, <1>6, <1>7 DEF Inv

\* The stream of best heads opens at the best block, which is above the seed.
LEMMA OpenBestInv ==
  ASSUME Inv, OpenBest
  PROVE  Inv'
<1>0. phase = "best" /\ announced' = best /\ phase' = "finalised"
      /\ UNCHANGED <<blocks, best, final, forked, heads, notices, seed, last, work,
                     yielded, finalAt, finalised, failed, faults>>
  BY DEF OpenBest, chain
<1>1. work = {} /\ heads = <<>> /\ yielded = <<>> /\ finalised = {} /\ failed = {}
      /\ finalAt = 0 /\ last = seed
  BY <1>0, InvFacts DEF Opening
<1>2. Typed'
  BY <1>0, InvFacts DEF Typed, Hashes, Item
<1>3. Working' /\ Opening' /\ Covered' /\ Above'
  <2>1. Working' /\ Opening' /\ Covered'
    BY <1>0, <1>1 DEF Working, Opening, Covered
  <2> QED BY <2>1, <1>0, InvFacts DEF Above, Number
<1>4. Straight'
  <2>1. Builds(blocks, best, final) /\ Builds(blocks, final, seed)
    BY InvFacts DEF Above
  <2>2. best \in 1 .. Len(blocks) /\ final \in 1 .. Len(blocks) /\ seed \in 1 .. Len(blocks)
    BY InvFacts
  <2>3. Builds(blocks, best, seed) /\ Builds(blocks, best, best)
    BY <2>1, <2>2, InvFacts, BuildsOrder
  <2>4. blocks[last].number <= blocks[best].number
    BY <2>3, <1>1 DEF Builds
  <2> QED BY <2>3, <2>4, <1>0, <1>1 DEF Straight, Number
<1>5. Exact'
  BY <1>0, InvFacts DEF Exact, Number
<1> QED BY <1>2, <1>3, <1>4, <1>5 DEF Inv

\* The finalised stream starts after the blocks finalised so far: those above
\* the seed are still above the last head of the best lane.
LEMMA OpenFinalisedInv ==
  ASSUME Inv, OpenFinalised
  PROVE  Inv'
<1>0. phase = "finalised" /\ finalAt' = blocks[final].number /\ phase' = "live"
      /\ UNCHANGED <<blocks, best, final, forked, heads, announced, notices, seed,
                     last, work, yielded, finalised, failed, faults>>
  BY DEF OpenFinalised, chain, lane, Number
<1>1. work = {} /\ yielded = <<>> /\ finalised = {} /\ failed = {} /\ last = seed
  BY <1>0, InvFacts DEF Opening
<1>2. Typed'
  <2>1. finalAt' \in 0 .. MaxBlocks
    BY <1>0, InvFacts
  <2> QED BY <1>0, <2>1, InvFacts DEF Typed, Hashes, Item
<1>3. Working' /\ Opening'
  BY <1>0, <1>1 DEF Working, Opening
<1>4. Above'
  <2>1. finalAt' <= blocks[final].number
    BY <1>0, InvFacts
  <2> QED BY <2>1, <1>0, InvFacts DEF Above, Number
<1>5. Covered'
  <2> SUFFICES ASSUME NEW n \in blocks'[seed'].number + 1 .. finalAt'
               PROVE  Accounted(n)'
    BY DEF Covered, Number
  <2>1. blocks[seed].number \in Nat /\ blocks[final].number \in Nat
    BY InvFacts
  <2>2. n > blocks'[last'].number
    BY <2>1, <1>0, <1>1
  <2> QED BY <2>2 DEF Accounted, Number
<1>6. Straight' /\ Exact'
  BY <1>0, InvFacts DEF Straight, Exact, Number
<1> QED BY <1>2, <1>3, <1>4, <1>5, <1>6 DEF Inv

\* Taking the head of a queue.
LEMMA TailFacts ==
  ASSUME NEW S, NEW q \in Seq(S), q # <<>>
  PROVE  /\ Len(q) \in Nat /\ Len(q) >= 1 /\ 1 \in DOMAIN q
         /\ Head(q) = q[1] /\ q[1] \in S
         /\ Tail(q) \in Seq(S) /\ DOMAIN Tail(q) = 1 .. Len(q) - 1
         /\ \A i \in DOMAIN Tail(q) : /\ i \in Int /\ 1 < i + 1 /\ i + 1 \in DOMAIN q
                                      /\ Tail(q)[i] = q[i + 1]
         /\ \A i \in DOMAIN q : q[i] \in S
<1>1. Len(q) \in Nat /\ Len(q) >= 1 /\ DOMAIN q = 1 .. Len(q)
  OBVIOUS
<1>2. \A i \in DOMAIN q : q[i] \in S
  OBVIOUS
<1>3. Tail(q) \in Seq(S) /\ DOMAIN Tail(q) = 1 .. Len(q) - 1
      /\ \A i \in 1 .. Len(q) - 1 : Tail(q)[i] = q[i + 1]
  BY <1>1
<1>4. Head(q) = q[1]
  OBVIOUS
<1> QED BY <1>1, <1>2, <1>3, <1>4

\* A head that is polled: it is skipped, or becomes the last head with a
\* ScanStep that looks up every height between the two that is not below it.
LEMMA ScanHeadInv ==
  ASSUME Inv, ScanHead
  PROVE  Inv'
<1>0. phase = "live" /\ work = {} /\ heads # <<>> /\ heads' = Tail(heads)
      /\ UNCHANGED <<blocks, best, final, forked, announced, notices, phase, seed,
                     yielded, finalAt, finalised, failed, faults>>
  BY DEF ScanHead, chain
<1>1. PICK h : h = Head(heads)
  BY Zenon
<1>2. /\ heads \in Seq(Hashes) /\ Len(heads) \in Nat /\ Len(heads) >= 1
      /\ h = heads[1] /\ h \in Hashes /\ 1 \in DOMAIN heads
      /\ heads' \in Seq(Hashes) /\ DOMAIN heads' = 1 .. Len(heads) - 1
      /\ \A i \in DOMAIN heads' : i + 1 \in DOMAIN heads /\ heads'[i] = heads[i + 1]
      /\ \A i \in DOMAIN heads : heads[i] \in Hashes
  <2>1. heads \in Seq(Hashes)
    BY InvFacts
  <2>2. heads # <<>> /\ heads' = Tail(heads)
    BY <1>0
  <2> QED BY <2>1, <2>2, <1>1, TailFacts
<1>3. last' = h /\ (h = last => work' = {}) /\ (h # last => work' = {Step(last, h)})
  BY <1>0, <1>1 DEF ScanHead
<1>4. /\ blocks[last].number \in Nat /\ blocks[h].number \in Nat
      /\ blocks[seed].number \in Nat /\ blocks[announced].number \in Nat
  BY <1>2, InvFacts
<1>5. Typed'
  BY <1>0, <1>2, <1>3, InvFacts DEF Typed, Hashes, Item
<1>6. Working'
  <2>1. CASE h = last
    BY <2>1, <1>3 DEF Working
  <2>2. CASE h # last
    <3>1. PICK w : w = Step(last, h)
      BY Zenon
    <3>2. /\ w.head = h /\ w.to = blocks[h].number /\ w.reorged = Reorged(last, h)
          /\ w.next = From(last, h)
          /\ w.out = IF Reorged(last, h) = {} THEN <<>> ELSE <<ReorgItem(last)>>
          /\ w = [head |-> w.head, reorged |-> w.reorged, next |-> w.next,
                  to |-> w.to, out |-> w.out]
      BY <3>1 DEF Step, Number
    <3>3. w.next \in Nat /\ w.next <= w.to + 1 /\ w.to \in Nat
      BY <3>2, <1>4 DEF From, Number
    <3>4. last \in Hashes /\ w.reorged \subseteq {last}
      BY <3>2, InvFacts DEF Reorged
    <3>5. w.out \in Seq(Item)
      <4>1. ReorgItem(last) \in Item
        BY <3>4 DEF Item, ReorgItem
      <4> QED BY <4>1, <3>2
    <3>6. w \in [head : Hashes, reorged : SUBSET Hashes, next : Nat, to : Nat,
                 out : Seq(Item)]
      BY <3>2, <3>3, <3>4, <3>5, <1>2
    <3>7. \A d \in w.reorged :
            /\ d # h
            /\ \/ blocks[h].number <= blocks[d].number
               \/ blocks[h].number = blocks[d].number + 1 /\ blocks[h].parent # d
      BY <3>2, <2>2 DEF Reorged, Number
    <3>8. WorkOK(w)'
      BY <3>2, <3>3, <3>6, <3>7, <1>0, <1>3 DEF WorkOK, Number, Hashes, Item
    <3>9. work' = {w}
      BY <3>1, <2>2, <1>3
    <3> QED BY <3>8, <3>9, Zenon DEF Working
  <2> QED BY <2>1, <2>2
<1>7. Above'
  <2>1. Builds(blocks, h, seed)
    BY <1>2, InvFacts DEF Above
  <2>2. \A i \in DOMAIN heads' : Builds(blocks, heads'[i], seed)
    BY <1>2, InvFacts DEF Above
  <2> QED BY <2>1, <2>2, <1>0, <1>3, InvFacts DEF Above, Number
<1>8. Opening'
  BY <1>0 DEF Opening
<1>9. Covered'
  <2> SUFFICES ASSUME NEW n \in blocks'[seed'].number + 1 .. finalAt'
               PROVE  Accounted(n)'
    BY DEF Covered, Number
  <2>0. n \in blocks[seed].number + 1 .. finalAt /\ n \in Int
    BY <1>0
  <2>1. Accounted(n)
    BY <2>0, <1>0, InvFacts DEF Covered, Number
  <2>2. CASE h = last
    BY <2>1, <2>2, <1>0, <1>3 DEF Accounted, Number, Shown
  <2>3. CASE h # last
    <3>1. PICK w : w = Step(last, h)
      BY Zenon
    <3>2. work' = {w} /\ w.next = From(last, h) /\ w.to = blocks[h].number
      BY <3>1, <2>3, <1>3 DEF Step, Number
    <3>3. CASE n > blocks[h].number
      BY <3>3, <1>0, <1>3 DEF Accounted, Number
    <3>4. CASE n \in w.next .. w.to
      BY <3>4, <3>2, <1>0 DEF Accounted, Number
    <3>5. CASE ~(n > blocks[h].number) /\ n \notin w.next .. w.to
      <4>1. ~(n > blocks[last].number)
        BY <3>5, <3>2, <1>4, <2>0 DEF From, Number
      <4> QED BY <4>1, <2>1, <1>0 DEF Accounted, Number, Shown
    <3> QED BY <3>3, <3>4, <3>5
  <2> QED BY <2>2, <2>3
<1>10. Straight'
  <2> SUFFICES ASSUME ~forked'
               PROVE  Straight'
    BY DEF Straight
  <2>1. /\ Builds(blocks, best, announced)
        /\ \A i \in DOMAIN heads : /\ Builds(blocks, best, heads[i])
                                   /\ blocks[heads[i]].number <= blocks[announced].number
        /\ \A i, j \in DOMAIN heads :
             i < j => blocks[heads[i]].number < blocks[heads[j]].number
    BY <1>0, InvFacts DEF Straight, Number
  <2>2. Builds(blocks, best, h) /\ blocks[h].number <= blocks[announced].number
    BY <2>1, <1>2
  <2>3. \A i \in DOMAIN heads' : /\ Builds(blocks, best, heads'[i])
                                 /\ blocks[h].number < blocks[heads'[i]].number
                                 /\ blocks[heads'[i]].number <= blocks[announced].number
    <3> TAKE i \in DOMAIN heads'
    <3>1. i + 1 \in DOMAIN heads /\ heads'[i] = heads[i + 1] /\ 1 < i + 1
      BY <1>2
    <3> QED BY <3>1, <2>1, <1>2
  <2>4. \A i, j \in DOMAIN heads' :
          i < j => blocks[heads'[i]].number < blocks[heads'[j]].number
    <3> TAKE i, j \in DOMAIN heads'
    <3>1. /\ i + 1 \in DOMAIN heads /\ heads'[i] = heads[i + 1]
          /\ j + 1 \in DOMAIN heads /\ heads'[j] = heads[j + 1]
          /\ i < j => i + 1 < j + 1
      BY <1>2
    <3> QED BY <3>1, <2>1
  <2> QED BY <2>1, <2>2, <2>3, <2>4, <1>0, <1>3 DEF Straight, Number
<1>11. Exact'
  <2> SUFFICES ASSUME ~forked', failed' = {}
               PROVE  Exact'
    BY DEF Exact
  <2>1. /\ ExactTo(blocks, seed, best, yielded, blocks[last].number)
        /\ Builds(blocks, best, last) /\ Builds(blocks, best, h)
        /\ blocks[last].number < blocks[h].number
    BY <1>0, <1>2, InvFacts DEF Exact, Straight, Number
  <2>2. h # last
    BY <2>1, <1>4
  <2>3. Reorged(last, h) = {}
    <3>1. CASE blocks[h].number = blocks[last].number + 1
      <4>1. h \in 1 .. Len(blocks) /\ last \in 1 .. Len(blocks) /\ best \in 1 .. Len(blocks)
        BY <1>2, InvFacts
      <4>2. At(blocks, h, blocks[last].number) = last
        <5>1. At(blocks, best, blocks[last].number) = last
              /\ At(blocks, best, blocks[h].number) = h
              /\ blocks[h].number <= blocks[best].number
          BY <2>1 DEF Builds
        <5>2. blocks[h].number \in 0 .. blocks[best].number
              /\ blocks[last].number \in 0 .. blocks[h].number
          <6>1. blocks[best].number \in Nat
            BY InvFacts
          <6> QED BY <6>1, <5>1, <2>1, <1>4
        <5>3. At(blocks, At(blocks, best, blocks[h].number), blocks[last].number)
                = At(blocks, best, blocks[last].number)
          BY <4>1, <5>2, InvFacts, AtFacts
        <5> QED BY <5>1, <5>3
      <4>3. blocks[h].parent = At(blocks, h, blocks[last].number)
        BY <4>1, <3>1, <1>4, InvFacts, ParentAt
      <4> QED BY <4>2, <4>3, <2>1, <1>4 DEF Reorged, Number
    <3>2. CASE blocks[h].number # blocks[last].number + 1
      BY <3>2, <2>1, <1>4 DEF Reorged, Number
    <3> QED BY <3>1, <3>2
  <2>4. PICK w : w = Step(last, h)
    BY Zenon
  <2>5. work' = {w} /\ w.next = blocks[last].number + 1 /\ w.out = <<>>
    BY <2>1, <2>2, <2>3, <2>4, <1>3, <1>4 DEF Step, From, Number
  <2>6. yielded \o w.out = yielded /\ w.next - 1 = blocks[last].number
    <3>1. yielded \in Seq(Item) /\ blocks[last].number \in Nat
      BY <1>4, InvFacts
    <3>2. yielded \o <<>> = yielded
      BY <3>1
    <3> QED BY <2>5, <3>1, <3>2
  <2>7. w.next > blocks[seed].number
    <3>1. blocks[seed].number <= blocks[last].number
      BY InvFacts DEF Above, Builds
    <3> QED BY <3>1, <2>5, <1>4
  <2> QED BY <2>1, <2>5, <2>6, <2>7, <1>0 DEF Exact, Number
<1> QED BY <1>5, <1>6, <1>7, <1>8, <1>9, <1>10, <1>11 DEF Inv

\* A head lost to an error changes nothing but the queue.
LEMMA HeadFailsInv ==
  ASSUME Inv, HeadFails
  PROVE  Inv'
<1>0. phase = "live" /\ heads # <<>> /\ heads' = Tail(heads)
      /\ faults < MaxFaults /\ faults' = faults + 1
      /\ UNCHANGED <<blocks, best, final, forked, announced, notices, phase, seed, last,
                     work, yielded, finalAt, finalised, failed>>
  BY DEF HeadFails, chain
<1>2. /\ heads' \in Seq(Hashes)
      /\ \A i \in DOMAIN heads' : /\ i \in Int
                                  /\ i + 1 \in DOMAIN heads /\ heads'[i] = heads[i + 1]
  BY <1>0, InvFacts, SMTT(30)
<1>3. Typed'
  <2>1. faults' \in 0 .. MaxFaults
    <3>1. faults \in 0 .. MaxFaults /\ MaxFaults \in Nat
      BY InvFacts DEF Typed
    <3> QED BY <3>1, <1>0
  <2> QED BY <1>0, <1>2, <2>1, InvFacts DEF Typed, Hashes, Item
<1>4. Working'
  BY <1>0, InvFacts DEF Working, WorkOK, Hashes, Item, Number
<1>5. Above'
  <2>1. \A i \in DOMAIN heads' : Builds(blocks, heads'[i], seed)
    BY <1>2, InvFacts DEF Above
  <2> QED BY <2>1, <1>0, InvFacts DEF Above, Number
<1>6. Opening' /\ Covered'
  <2>1. Opening'
    BY <1>0, InvFacts DEF Opening
  <2>2. Covered'
    BY <1>0, InvFacts DEF Covered, Accounted, Shown, Number
  <2> QED BY <2>1, <2>2
<1>7. Straight'
  <2> SUFFICES ASSUME ~forked'
               PROVE  Straight'
    BY DEF Straight
  <2>1. Straight /\ ~forked
    BY <1>0, InvFacts
  <2>2. \A i, j \in DOMAIN heads' :
          i < j => blocks[heads'[i]].number < blocks[heads'[j]].number
    <3> TAKE i, j \in DOMAIN heads'
    <3>1. /\ i + 1 \in DOMAIN heads /\ heads'[i] = heads[i + 1]
          /\ j + 1 \in DOMAIN heads /\ heads'[j] = heads[j + 1]
          /\ i < j => i + 1 < j + 1
      BY <1>2
    <3> QED BY <3>1, <2>1 DEF Straight, Number
  <2>3. \A i \in DOMAIN heads' : /\ Builds(blocks, best, heads'[i])
                                 /\ blocks[last].number < blocks[heads'[i]].number
                                 /\ blocks[heads'[i]].number <= blocks[announced].number
    BY <1>2, <2>1 DEF Straight, Number
  <2> QED BY <2>1, <2>2, <2>3, <1>0 DEF Straight, Number
<1>8. Exact'
  BY <1>0, InvFacts DEF Exact, Number
<1> QED BY <1>3, <1>4, <1>5, <1>6, <1>7, <1>8 DEF Inv

\* One more height of the chain looked up.
LEMMA ExactNext ==
  ASSUME NEW bs, TreeOK(bs), NEW sd \in 1 .. Len(bs), NEW h \in 1 .. Len(bs),
         NEW S, NEW s \in Seq(S), NEW m \in Nat, m >= bs[sd].number + 1,
         m <= bs[h].number,
         ExactTo(bs, sd, h, s, m - 1),
         NEW t, t = IF Hit(bs, At(bs, h, m)) THEN <<BestItem(At(bs, h, m))>> ELSE <<>>
  PROVE  ExactTo(bs, sd, h, s \o t, m)
<1>0. bs[sd].number \in Nat /\ bs[h].number \in Nat
  BY TreeFields
<1>1. \A n \in bs[sd].number + 1 .. m : n \in bs[sd].number + 1 .. m - 1 \/ n = m
  BY <1>0
<1>2. m \in bs[sd].number + 1 .. m
      /\ \A n \in bs[sd].number + 1 .. m - 1 : n \in bs[sd].number + 1 .. m /\ n < m
  BY <1>0
<1>3. \A n \in bs[sd].number + 1 .. m : bs[At(bs, h, n)].number = n
  BY <1>0, AtFacts, SMTT(30)
<1>4. \A i \in DOMAIN s : \E n \in bs[sd].number + 1 .. m - 1 :
        s[i] = BestItem(At(bs, h, n)) /\ Hit(bs, At(bs, h, n))
  BY DEF ExactTo
<1>5. \A i \in DOMAIN s : bs[s[i].at].number < m
  BY <1>2, <1>3, <1>4 DEF BestItem
<1>6. CASE ~Hit(bs, At(bs, h, m))
  <2>1. t = <<>> /\ s \o t = s
    BY <1>6
  <2>2. \A i \in DOMAIN s : \E n \in bs[sd].number + 1 .. m :
          s[i] = BestItem(At(bs, h, n)) /\ Hit(bs, At(bs, h, n))
    BY <1>2, <1>4
  <2>3. \A n \in bs[sd].number + 1 .. m :
          Hit(bs, At(bs, h, n)) => Shown(s, At(bs, h, n))
    BY <1>1, <1>6 DEF ExactTo
  <2> QED BY <2>1, <2>2, <2>3 DEF ExactTo
<1>7. CASE Hit(bs, At(bs, h, m))
  <2>1. PICK b : b = At(bs, h, m)
    BY Zenon
  <2>2. PICK e : e = BestItem(b)
    BY Zenon
  <2>3. t = <<e>>
    BY <1>7, <2>1, <2>2
  <2>4. PICK u : u = s \o t
    BY Zenon
  <2>5. /\ Len(s) \in Nat /\ DOMAIN s = 1 .. Len(s)
        /\ DOMAIN u = 1 .. Len(s) + 1 /\ u[Len(s) + 1] = e
        /\ \A i \in 1 .. Len(s) : u[i] = s[i]
    BY <2>3, <2>4
  <2>6. e.at = b /\ bs[b].number = m
    BY <2>1, <2>2, <1>2, <1>3 DEF BestItem
  <2>7. \A i \in DOMAIN u : i \in DOMAIN s \/ i = Len(s) + 1
    BY <2>5
  <2>8. \A i \in DOMAIN u : \E n \in bs[sd].number + 1 .. m :
          u[i] = BestItem(At(bs, h, n)) /\ Hit(bs, At(bs, h, n))
    <3> TAKE i \in DOMAIN u
    <3>1. CASE i \in DOMAIN s
      BY <3>1, <2>5, <1>4, <1>2
    <3>2. CASE i = Len(s) + 1
      BY <3>2, <2>5, <2>1, <2>2, <1>2, <1>7
    <3> QED BY <3>1, <3>2, <2>7
  <2>9. \A i, j \in DOMAIN u : i < j => bs[u[i].at].number < bs[u[j].at].number
    <3> SUFFICES ASSUME NEW i \in DOMAIN u, NEW j \in DOMAIN u, i < j
                 PROVE  bs[u[i].at].number < bs[u[j].at].number
      OBVIOUS
    <3>1. i \in DOMAIN s /\ u[i] = s[i]
      BY <2>5
    <3>2. CASE j \in DOMAIN s
      <4>1. u[j] = s[j]
        BY <3>2, <2>5
      <4> QED BY <4>1, <3>1, <3>2 DEF ExactTo
    <3>3. CASE j = Len(s) + 1
      BY <3>1, <3>3, <2>5, <2>6, <1>5
    <3> QED BY <3>2, <3>3, <2>7
  <2>10. \A n \in bs[sd].number + 1 .. m :
           Hit(bs, At(bs, h, n)) => Shown(u, At(bs, h, n))
    <3> SUFFICES ASSUME NEW n \in bs[sd].number + 1 .. m, Hit(bs, At(bs, h, n))
                 PROVE  \E i \in DOMAIN u : u[i] = BestItem(At(bs, h, n))
      BY DEF Shown
    <3>1. CASE n = m
      <4>1. Len(s) + 1 \in DOMAIN u
        BY <2>5
      <4> QED BY <4>1, <3>1, <2>1, <2>2, <2>5
    <3>2. CASE n \in bs[sd].number + 1 .. m - 1
      <4>1. PICK i \in DOMAIN s : s[i] = BestItem(At(bs, h, n))
        BY <3>2 DEF ExactTo, Shown
      <4>2. i \in DOMAIN u /\ u[i] = s[i]
        BY <2>5
      <4> QED BY <4>1, <4>2
    <3> QED BY <3>1, <3>2, <1>1
  <2> QED BY <2>4, <2>8, <2>9, <2>10 DEF ExactTo
<1> QED BY <1>6, <1>7

\* One height of the ScanStep looked up on the chain that is best now: at a
\* height that finality has reached that is the finalised block.
LEMMA LookUpInv ==
  ASSUME Inv, NEW w \in work, LookUp(w)
  PROVE  Inv'
<1>0. /\ w.next <= w.to
      /\ UNCHANGED <<blocks, best, final, forked, heads, announced, notices, phase,
                     seed, last, yielded, finalAt, finalised>>
  BY DEF LookUp, chain
<1>1. /\ WorkOK(w) /\ work = {w}
      /\ w \in [head : Hashes, reorged : SUBSET Hashes, next : Nat, to : Nat,
                out : Seq(Item)]
      /\ w.to = blocks[last].number
  BY InvFacts DEF WorkOK, Number
<1>2. phase = "live"
  BY <1>1, InvFacts DEF Opening
<1> DEFINE b == At(blocks, best, w.next)
<1>3. PICK v : work' = {v} /\ LET good == /\ w.next <= blocks[best].number
                                         /\ v = [w EXCEPT !.next = @ + 1,
                                                          !.out = @ \o ItemsOf(b)]
                                         /\ failed' = failed /\ faults' = faults
                              IN good \/ (/\ v = [w EXCEPT !.next = @ + 1]
                                          /\ failed' = failed \cup {w.next}
                                          /\ \/ faults' = faults
                                             \/ faults < MaxFaults /\ faults' = faults + 1)
  <2>1. CASE /\ w.next <= Number(best)
             /\ LET c == PathTo(best)[w.next + 1]
                IN work' = {[w EXCEPT !.next = @ + 1, !.out = @ \o ItemsOf(c)]}
             /\ UNCHANGED <<failed, faults>>
    <3>1. PathTo(best)[w.next + 1] = b
      BY OverState
    <3> QED BY <2>1, <3>1, Zenon DEF Number
  <2>2. CASE /\ w.next > Number(best)
             /\ work' = {[w EXCEPT !.next = @ + 1]}
             /\ failed' = failed \cup {w.next}
             /\ UNCHANGED faults
    BY <2>2, Zenon
  <2>3. CASE /\ faults < MaxFaults /\ faults' = faults + 1
             /\ work' = {[w EXCEPT !.next = @ + 1]}
             /\ failed' = failed \cup {w.next}
    BY <2>3, Zenon
  <2> QED BY <2>1, <2>2, <2>3 DEF LookUp
<1>4. /\ b \in Hashes \/ w.next > blocks[best].number
      /\ ItemsOf(b) = IF Hit(blocks, b) THEN <<BestItem(b)>> ELSE <<>>
  <2>1. w.next \in Nat /\ blocks[best].number \in Nat /\ best \in 1 .. Len(blocks)
    BY <1>1, InvFacts
  <2>2. w.next <= blocks[best].number => b \in Hashes
    BY <2>1, InvFacts, AtFacts, SMTT(30)
  <2> HIDE DEF b
  <2>3. Matching(b) = {} <=> ~Hit(blocks, b)
    BY DEF Matching, Hit
  <2> QED BY <2>1, <2>2, <2>3 DEF ItemsOf
<1> HIDE DEF b
<1>5. /\ v.next = w.next + 1 /\ v.to = w.to /\ v.head = w.head /\ v.reorged = w.reorged
      /\ \/ v.out = w.out
         \/ v.out = w.out \o ItemsOf(b) /\ w.next <= blocks[best].number
      /\ \/ w.next \in failed'
         \/ /\ v.out = w.out \o ItemsOf(b)
            /\ w.next <= blocks[best].number /\ failed' = failed
      /\ failed \subseteq failed' /\ failed' \subseteq failed \cup {w.next}
      /\ \/ faults' = faults
         \/ faults < MaxFaults /\ faults' = faults + 1
  BY <1>1, <1>3
<1>6. w.next <= blocks[best].number => ItemsOf(b) \in Seq(Item)
  <2> SUFFICES ASSUME w.next <= blocks[best].number
               PROVE  ItemsOf(b) \in Seq(Item)
    OBVIOUS
  <2>1. w.next \in Nat /\ blocks[best].number \in Nat
    BY <1>1, InvFacts
  <2>2. BestItem(b) \in Item
    <3>1. b \in Hashes
      BY <1>4, <2>1
    <3> QED BY <3>1 DEF BestItem, Item
  <2> QED BY <2>2, <1>4
<1>61. v \in [head : Hashes, reorged : SUBSET Hashes, next : Nat, to : Nat,
              out : Seq(Item)]
  <2>1. CASE v = [w EXCEPT !.next = @ + 1]
    BY <2>1, <1>1
  <2>2. CASE /\ w.next <= blocks[best].number
             /\ v = [w EXCEPT !.next = @ + 1, !.out = @ \o ItemsOf(b)]
    <3>1. w.out \o ItemsOf(b) \in Seq(Item)
      BY <2>2, <1>1, <1>6
    <3>2. PICK o : o = w.out \o ItemsOf(b)
      BY Zenon
    <3>3. v = [w EXCEPT !.next = @ + 1, !.out = o]
      BY <2>2, <3>2, Zenon
    <3>4. o \in Seq(Item)
      BY <3>1, <3>2, Zenon
    <3>5. PICK u : u = [w EXCEPT !.next = @ + 1]
      BY Zenon
    <3>6. u \in [head : Hashes, reorged : SUBSET Hashes, next : Nat, to : Nat,
                out : Seq(Item)]
      BY <3>5, <1>1
    <3>7. v = [u EXCEPT !.out = o]
      BY <3>3, <3>5, Zenon
    <3> QED BY <3>4, <3>6, <3>7
  <2> QED BY <2>1, <2>2, <1>3
<1>7. Typed'
  <2>1. failed' \subseteq 0 .. MaxBlocks
    <3>1. w.next \in 0 .. MaxBlocks
      <4>1. blocks[last].number \in 0 .. MaxBlocks /\ MaxBlocks \in Nat
        BY InvFacts
      <4> QED BY <4>1, <1>0, <1>1
    <3> QED BY <3>1, <1>5, InvFacts
  <2>2. faults' \in 0 .. MaxFaults
    <3>1. faults \in 0 .. MaxFaults /\ MaxFaults \in Nat
      BY InvFacts DEF Typed
    <3> QED BY <3>1, <1>5
  <2> QED BY <2>1, <2>2, <1>0, InvFacts DEF Typed, Hashes, Item
<1>8. Working'
  <2>2. v.next <= v.to + 1
    BY <1>0, <1>1, <1>5
  <2>3. WorkOK(v)'
    BY <1>61, <2>2, <1>0, <1>1, <1>5 DEF WorkOK, Number, Hashes, Item
  <2> QED BY <2>3, <1>3, Zenon DEF Working
<1>9. Above' /\ Opening' /\ Straight'
  BY <1>0, <1>2, InvFacts DEF Above, Opening, Straight, Number
<1>10. Covered'
  <2> SUFFICES ASSUME NEW n \in blocks'[seed'].number + 1 .. finalAt'
               PROVE  Accounted(n)'
    BY DEF Covered, Number
  <2>0. n \in blocks[seed].number + 1 .. finalAt /\ n \in Int
    BY <1>0
  <2>1. Accounted(n)
    BY <2>0, <1>2, InvFacts DEF Covered, Number
  <2>2. CASE n = w.next /\ w.next \notin failed'
    <3>1. v.out = w.out \o ItemsOf(b) /\ w.next <= blocks[best].number
      BY <2>2, <1>5
    <3>2. At(blocks, final, n) = b
      <4>1. finalAt <= blocks[final].number /\ Builds(blocks, best, final)
        BY InvFacts DEF Above, Number
      <4>2. blocks[final].number \in Nat /\ blocks[best].number \in Nat
            /\ blocks[seed].number \in Nat /\ finalAt \in Nat
        BY InvFacts
      <4>3. n \in 0 .. blocks[final].number
            /\ blocks[final].number \in 0 .. blocks[best].number
        BY <4>1, <4>2, <2>0 DEF Builds
      <4>4. At(blocks, best, blocks[final].number) = final
        BY <4>1 DEF Builds
      <4>5. best \in 1 .. Len(blocks) /\ TreeOK(blocks)
        BY InvFacts
      <4>6. At(blocks, At(blocks, best, blocks[final].number), n) = At(blocks, best, n)
        BY <4>3, <4>5, AtFacts
      <4> QED BY <4>4, <4>6, <2>2 DEF b
    <3>3. CASE ~Hit(blocks, b)
      BY <3>2, <3>3, <1>0 DEF Accounted
    <3>4. CASE Hit(blocks, b)
      <4>1. w.out \in Seq(Item) /\ ItemsOf(b) = <<BestItem(b)>>
        BY <1>1, <1>4, <3>4
      <4>2. PICK e : e = BestItem(b)
        BY Zenon
      <4>3. Len(w.out) + 1 \in DOMAIN v.out /\ v.out[Len(w.out) + 1] = e
        BY <3>1, <4>1, <4>2
      <4>4. Shown(v.out, b)
        BY <4>2, <4>3 DEF Shown
      <4> QED BY <4>4, <3>2, <1>0, <1>3 DEF Accounted
    <3> QED BY <3>3, <3>4
  <2>3. CASE n \in failed'
    BY <2>3 DEF Accounted
  <2>4. CASE ~(n = w.next) /\ n \notin failed'
    <3>1. n \in w.next .. w.to => n \in v.next .. v.to
      BY <2>0, <2>4, <1>1, <1>5
    <3>2. \A c : Shown(w.out, c) => Shown(v.out, c)
      <4> SUFFICES ASSUME NEW c, NEW i \in DOMAIN w.out, w.out[i] = BestItem(c)
                   PROVE  Shown(v.out, c)
        BY DEF Shown
      <4>1. i \in DOMAIN v.out /\ v.out[i] = w.out[i]
        <5>1. CASE v.out = w.out
          BY <5>1
        <5>2. CASE v.out = w.out \o ItemsOf(b)
          <6>1. ItemsOf(b) \in {<<>>, <<BestItem(b)>>} /\ w.out \in Seq(Item)
            BY <1>1, <1>4
          <6>2. CASE ItemsOf(b) = <<>>
            BY <5>2, <6>1, <6>2
          <6>3. CASE ItemsOf(b) = <<BestItem(b)>>
            <7>1. PICK e : e = BestItem(b)
              BY Zenon
            <7> QED BY <7>1, <5>2, <6>1, <6>3
          <6> QED BY <6>1, <6>2, <6>3
        <5> QED BY <5>1, <5>2, <1>5
      <4> QED BY <4>1 DEF Shown
    <3>3. n \notin failed
      BY <2>4, <1>5
    <3> QED BY <2>1, <3>1, <3>2, <3>3, <1>0, <1>1, <1>3 DEF Accounted, Number
  <2> QED BY <2>2, <2>3, <2>4
<1>11. Exact'
  <2> SUFFICES ASSUME ~forked', failed' = {}
               PROVE  /\ v.next > blocks[seed].number
                      /\ ExactTo(blocks, seed, best, yielded \o v.out, v.next - 1)
    BY <1>0, <1>3 DEF Exact, Number
  <2>1. v.out = w.out \o ItemsOf(b) /\ failed = {} /\ w.next <= blocks[best].number
    BY <1>5
  <2>2. /\ w.next > blocks[seed].number
        /\ ExactTo(blocks, seed, best, yielded \o w.out, w.next - 1)
    BY <2>1, <1>0, InvFacts DEF Exact, Number
  <2>3. PICK s, t, m : s = yielded \o w.out /\ t = ItemsOf(b) /\ m = w.next
    BY Zenon
  <2>4. s \in Seq(Item) /\ m \in Nat /\ m <= blocks[best].number
    BY <2>1, <2>3, <1>1, InvFacts
  <2>5. t = IF Hit(blocks, At(blocks, best, m)) THEN <<BestItem(At(blocks, best, m))>> ELSE <<>>
    BY <2>3, <1>4 DEF b
  <2>6. blocks[seed].number \in Nat /\ m >= blocks[seed].number + 1
    <3>1. blocks[seed].number \in Nat
      BY InvFacts
    <3> QED BY <3>1, <2>2, <2>3, <2>4
  <2>7. ExactTo(blocks, seed, best, s \o t, m)
    BY <2>2, <2>3, <2>4, <2>5, <2>6, InvFacts, ExactNext
  <2>8. yielded \o v.out = s \o t
    <3>1. yielded \in Seq(Item) /\ w.out \in Seq(Item) /\ ItemsOf(b) \in Seq(Item)
      BY <2>1, <1>1, <1>6, InvFacts
    <3>2. (yielded \o w.out) \o ItemsOf(b) = yielded \o (w.out \o ItemsOf(b))
      <4>1. PICK S, x, y, z : S = Item /\ x = yielded /\ y = w.out /\ z = ItemsOf(b)
        BY Zenon
      <4>2. x \in Seq(S) /\ y \in Seq(S) /\ z \in Seq(S)
        BY <4>1, <3>1
      <4>3. (x \o y) \o z = x \o (y \o z)
        BY <4>2, ConcatAssociative, SMTT(30)
      <4> QED BY <4>1, <4>3
    <3> QED BY <2>1, <2>3, <3>2
  <2>9. v.next - 1 = m
    BY <2>3, <1>1, <1>5
  <2>10. v.next > blocks[seed].number
    BY <2>3, <2>4, <2>6, <1>5
  <2> QED BY <2>7, <2>8, <2>9, <2>10
<1> QED BY <1>7, <1>8, <1>9, <1>10, <1>11 DEF Inv

\* The items collected for a head reach the consumer.
LEMMA YieldInv ==
  ASSUME Inv, NEW w \in work, Yield(w)
  PROVE  Inv'
<1>0. /\ w.next > w.to /\ yielded' = yielded \o w.out /\ work' = {}
      /\ UNCHANGED <<blocks, best, final, forked, heads, announced, notices, phase,
                     seed, last, finalAt, finalised, failed, faults>>
  BY DEF Yield, chain
<1>1. /\ work = {w} /\ w.out \in Seq(Item) /\ yielded \in Seq(Item)
      /\ w.to = blocks[last].number /\ w.next \in Nat /\ w.to \in Nat
      /\ w.next <= w.to + 1
  BY InvFacts DEF WorkOK, Number
<1>2. phase = "live"
  BY <1>1, InvFacts DEF Opening
<1>3. yielded' \in Seq(Item)
  BY <1>0, <1>1
<1>4. Typed'
  BY <1>0, <1>3, InvFacts DEF Typed, Hashes, Item
<1>5. Working' /\ Above' /\ Opening' /\ Straight'
  BY <1>0, <1>2, InvFacts DEF Working, Above, Opening, Straight, Number
<1>6. \A b : Shown(yielded, b) \/ Shown(w.out, b) => Shown(yielded', b)
  <2>1. /\ Len(yielded) \in Nat /\ DOMAIN yielded = 1 .. Len(yielded)
        /\ Len(w.out) \in Nat /\ DOMAIN w.out = 1 .. Len(w.out)
        /\ DOMAIN yielded' = 1 .. Len(yielded) + Len(w.out)
        /\ \A i \in 1 .. Len(yielded) : yielded'[i] = yielded[i]
        /\ \A i \in 1 .. Len(w.out) : yielded'[Len(yielded) + i] = w.out[i]
    BY <1>0, <1>1
  <2>2. \A i \in DOMAIN yielded : i \in DOMAIN yielded'
    BY <2>1
  <2>3. \A i \in DOMAIN w.out : Len(yielded) + i \in DOMAIN yielded'
    BY <2>1
  <2>4. ASSUME NEW b, Shown(yielded, b) PROVE Shown(yielded', b)
    BY <2>1, <2>2, <2>4 DEF Shown
  <2>5. ASSUME NEW b, Shown(w.out, b) PROVE Shown(yielded', b)
    <3>1. PICK i \in DOMAIN w.out : w.out[i] = BestItem(b)
      BY <2>5 DEF Shown
    <3>2. yielded'[Len(yielded) + i] = BestItem(b)
      BY <3>1, <2>1
    <3> QED BY <3>1, <3>2, <2>3 DEF Shown
  <2> QED BY <2>4, <2>5
<1>7. Covered'
  <2> SUFFICES ASSUME NEW n \in blocks'[seed'].number + 1 .. finalAt'
               PROVE  Accounted(n)'
    BY DEF Covered, Number
  <2>1. Accounted(n)
    BY <1>0, <1>2, InvFacts DEF Covered, Number
  <2>2. n \notin w.next .. w.to
    BY <1>0, <1>1
  <2>3. PICK b : b = At(blocks, final, n)
    BY Zenon
  <2>4. \/ ~Hit(blocks, b) \/ b \in finalised \/ n \in failed
        \/ n > blocks[last].number \/ Shown(yielded, b) \/ Shown(w.out, b)
    BY <2>1, <2>2, <2>3, <1>1 DEF Accounted, Number
  <2>5. \/ ~Hit(blocks, b) \/ b \in finalised \/ n \in failed
        \/ n > blocks[last].number \/ Shown(yielded', b)
    BY <2>4, <1>6
  <2> QED BY <2>3, <2>5, <1>0 DEF Accounted, Number
<1>8. Exact'
  <2> SUFFICES ASSUME ~forked', failed' = {}
               PROVE  Exact'
    BY DEF Exact
  <2>1. ExactTo(blocks, seed, best, yielded \o w.out, w.next - 1)
    BY <1>0, InvFacts DEF Exact
  <2>2. w.next - 1 = blocks[last].number
    BY <1>0, <1>1
  <2> QED BY <2>1, <2>2, <1>0 DEF Exact, Number
<1> QED BY <1>4, <1>5, <1>7, <1>8 DEF Inv

\* The next finalised block is shown, holds nothing to show, or is an error.
LEMMA PollFinalisedInv ==
  ASSUME Inv, PollFinalised
  PROVE  Inv'
<1> DEFINE b == At(blocks, final, finalAt + 1)
<1>0. /\ phase = "live" /\ finalAt < blocks[final].number /\ finalAt' = finalAt + 1
      /\ UNCHANGED <<blocks, best, final, forked, heads, announced, notices, last,
                     work, yielded, phase, seed>>
  BY DEF PollFinalised, chain, lane, Number
<1>1. PathTo(final)[finalAt + 2] = b
  <2>1. finalAt + 2 = (finalAt + 1) + 1
    BY InvFacts
  <2> QED BY <2>1, OverState
<1>2. \/ /\ finalised' = IF Matching(b) = {} THEN finalised ELSE finalised \cup {b}
         /\ failed' = failed /\ faults' = faults
      \/ /\ faults < MaxFaults /\ faults' = faults + 1
         /\ failed' = failed \cup {finalAt + 1}
         /\ finalised' = finalised
  <2> HIDE DEF b
  <2> QED BY <1>1, Zenon DEF PollFinalised
<1>3. /\ finalAt \in Nat /\ blocks[final].number \in 0 .. MaxBlocks
      /\ blocks[seed].number \in Nat /\ MaxBlocks \in Nat
  BY InvFacts
<1>4. b \in Hashes
  <2>1. finalAt + 1 \in 0 .. blocks[final].number /\ final \in 1 .. Len(blocks)
    BY <1>0, <1>3, InvFacts, SMTT(30)
  <2> QED BY <2>1, InvFacts, AtFacts
<1> HIDE DEF b
<1>5. Matching(b) = {} <=> ~Hit(blocks, b)
  BY DEF Matching, Hit
<1>6. Typed'
  <2>1. finalised' \subseteq Hashes
    BY <1>2, <1>4, InvFacts DEF Typed
  <2>2. finalAt' \in 0 .. MaxBlocks
    BY <1>0, <1>3
  <2>3. failed' \subseteq 0 .. MaxBlocks
    <3>1. finalAt + 1 \in 0 .. MaxBlocks
      BY <1>0, <1>3
    <3> QED BY <3>1, <1>2, InvFacts
  <2>4. faults' \in 0 .. MaxFaults
    <3>1. faults \in 0 .. MaxFaults /\ MaxFaults \in Nat
      BY InvFacts DEF Typed
    <3> QED BY <3>1, <1>2
  <2> QED BY <2>1, <2>2, <2>3, <2>4, <1>0, InvFacts DEF Typed, Hashes, Item
<1>7. Working'
  BY <1>0, InvFacts DEF Working, WorkOK, Hashes, Item, Number
<1>8. Above'
  <2>1. finalAt' <= blocks[final].number
    BY <1>0, <1>3
  <2> QED BY <2>1, <1>0, InvFacts DEF Above, Number
<1>9. Opening' /\ Straight'
  BY <1>0, InvFacts DEF Opening, Straight, Number
<1>10. Covered'
  <2> SUFFICES ASSUME NEW n \in blocks'[seed'].number + 1 .. finalAt'
               PROVE  Accounted(n)'
    BY DEF Covered, Number
  <2>1. n \in blocks[seed].number + 1 .. finalAt \/ n = finalAt + 1
    BY <1>0, <1>3
  <2>2. CASE n = finalAt + 1
    <3>1. At(blocks', final', n) = b
      BY <2>2, <1>0 DEF b
    <3>2. ~Hit(blocks', b) \/ b \in finalised' \/ n \in failed'
      BY <2>2, <1>0, <1>2, <1>5
    <3> QED BY <3>1, <3>2 DEF Accounted
  <2>3. CASE n \in blocks[seed].number + 1 .. finalAt
    <3>1. Accounted(n)
      BY <2>3, <1>0, InvFacts DEF Covered, Number
    <3>2. finalised \subseteq finalised' /\ failed \subseteq failed'
      BY <1>2
    <3> QED BY <3>1, <3>2, <1>0 DEF Accounted, Shown, Number
  <2> QED BY <2>1, <2>2, <2>3
<1>11. Exact'
  <2>1. failed' = {} => failed = {}
    BY <1>2
  <2> QED BY <2>1, <1>0, InvFacts DEF Exact, Number
<1> QED BY <1>6, <1>7, <1>8, <1>9, <1>10, <1>11 DEF Inv

\* Every step keeps the invariant.
LEMMA StepInv ==
  ASSUME Inv, [Next]_vars
  PROVE  Inv'
<1>1. ASSUME NEW b \in Hashes, NEW c \in Contents, Mine(b, c) PROVE Inv'
  BY <1>1, MineInv
<1>2. ASSUME NEW b \in Hashes, SetHead(b) PROVE Inv'
  BY <1>2, SetHeadInv
<1>3. ASSUME NEW b \in Hashes, Finalise(b) PROVE Inv'
  BY <1>3, FinaliseInv
<1>4. ASSUME Announce PROVE Inv'
  BY <1>4, AnnounceInv
<1>5. ASSUME ReadSeed PROVE Inv'
  BY <1>5, ReadSeedInv
<1>6. ASSUME OpenBest PROVE Inv'
  BY <1>6, OpenBestInv
<1>7. ASSUME OpenFinalised PROVE Inv'
  BY <1>7, OpenFinalisedInv
<1>8. ASSUME ScanHead PROVE Inv'
  BY <1>8, ScanHeadInv
<1>9. ASSUME HeadFails PROVE Inv'
  BY <1>9, HeadFailsInv
<1>10. ASSUME NEW w \in work, LookUp(w) PROVE Inv'
  BY <1>10, LookUpInv
<1>11. ASSUME NEW w \in work, Yield(w) PROVE Inv'
  BY <1>11, YieldInv
<1>12. ASSUME PollFinalised PROVE Inv'
  BY <1>12, PollFinalisedInv
<1>13. ASSUME UNCHANGED vars PROVE Inv'
  <2>1. UNCHANGED <<blocks, best, final, forked, heads, announced, notices, phase, seed,
                    last, work, yielded, finalAt, finalised, failed, faults>>
    BY <1>13 DEF vars
  <2>2. Typed' /\ Working'
    BY <2>1, InvFacts DEF Typed, Working, WorkOK, Hashes, Item, Number
  <2>3. Above' /\ Opening' /\ Straight'
    BY <2>1, InvFacts DEF Above, Opening, Straight, Number
  <2>4. Covered' /\ Exact'
    BY <2>1, InvFacts DEF Covered, Accounted, Shown, Exact, Number
  <2> QED BY <2>2, <2>3, <2>4 DEF Inv
<1> QED BY <1>1, <1>2, <1>3, <1>4, <1>5, <1>6, <1>7, <1>8, <1>9, <1>10, <1>11,
           <1>12, <1>13 DEF Next

\* The invariant holds in every state.
LEMMA Invariance == Spec => []Inv
<1>1. Init => Inv
  BY InitInv
<1>2. Inv /\ [Next]_vars => Inv'
  BY StepInv
<1> QED BY <1>1, <1>2, PTL DEF Spec

-----------------------------------------------------------------------------
(* Theorems.                                                               *)

\* The tree is a tree, the lanes hold hashes of it, and a look-up never leaves
\* the heights up to the new head (client.rs, best_lane and finalised_lane).
THEOREM SubscriptionTyped == Spec => []TypeOK
<1>1. Inv => TypeOK
  <2> SUFFICES ASSUME Inv PROVE TypeOK
    OBVIOUS
  <2>1. ASSUME NEW b \in Hashes
        PROVE  /\ blocks[b].emits \in Contents
               /\ IF b = 1 THEN Number(b) = 0
                  ELSE /\ blocks[b].parent \in 1 .. b - 1
                       /\ Number(b) = Number(blocks[b].parent) + 1
    <3>1. TreeOK(blocks) /\ b \in 1 .. Len(blocks) /\ Len(blocks) \in Nat
      BY InvFacts
    <3>2. blocks[b].emits \in Contents
      <4> DEFINE B == [parent : Nat, number : Nat, emits : Contents]
      <4>1. blocks \in Seq(B)
        BY <3>1 DEF TreeOK
      <4> HIDE DEF B
      <4>2. blocks[b] \in B
        BY <4>1, <3>1
      <4> QED BY <4>2 DEF B
    <3>3. CASE b = 1
      BY <3>1, <3>2, <3>3 DEF TreeOK, Number
    <3>4. CASE b # 1
      <4>1. b \in 2 .. Len(blocks)
        BY <3>1, <3>4
      <4> QED BY <4>1, <3>1, <3>2, <3>4 DEF TreeOK, Number
    <3> QED BY <3>3, <3>4
  <2>2. Cardinality(work) <= 1
    <3>1. CASE work = {}
      BY <3>1, FS_EmptySet
    <3>2. CASE \E w : work = {w}
      BY <3>2, FS_Singleton
    <3> QED BY <3>1, <3>2, InvFacts DEF Working
  <2>3. ASSUME NEW w \in work
        PROVE  /\ w.head \in Hashes /\ w.reorged \subseteq Hashes
               /\ w.next \in 0 .. w.to + 1 /\ w.to <= MaxBlocks
               /\ w.out \in Seq(Item)
    <3>1. WorkOK(w) /\ blocks[last].number \in 0 .. MaxBlocks
      BY InvFacts
    <3> QED BY <3>1, InvFacts, SMTT(30) DEF WorkOK, Number
  <2>4. {best, final, announced, seed, last} \cup finalised \subseteq Hashes
    BY InvFacts DEF Typed
  <2> QED BY <2>1, <2>2, <2>3, <2>4, InvFacts DEF TypeOK, Typed
<1> QED BY <1>1, Invariance, PTL

\* Reorged never names a block that the new head builds on (client.rs:368-376).
THEOREM ReorgsAreReal == Spec => []NoFalseReorg
<1>1. Inv => NoFalseReorg
  <2> SUFFICES ASSUME Inv, NEW w \in work, NEW d \in w.reorged, Extends(w.head, d)
               PROVE  FALSE
    BY DEF NoFalseReorg
  <2>1. /\ w.head = last /\ d \in Hashes /\ d # last
        /\ \/ blocks[last].number <= blocks[d].number
           \/ blocks[last].number = blocks[d].number + 1 /\ blocks[last].parent # d
    BY InvFacts DEF WorkOK, Number
  <2>2. Builds(blocks, last, d)
    BY <2>1, OverState
  <2>3. /\ TreeOK(blocks) /\ last \in 1 .. Len(blocks) /\ d \in 1 .. Len(blocks)
        /\ blocks[last].number \in Nat /\ blocks[d].number \in Nat
    BY <2>1, InvFacts
  <2>4. blocks[d].number # blocks[last].number
    BY <2>1, <2>2, <2>3, BuildsOrder
  <2>5. blocks[last].number = blocks[d].number + 1 /\ blocks[last].parent # d
    BY <2>1, <2>2, <2>3, <2>4 DEF Builds
  <2>6. blocks[last].parent = At(blocks, last, blocks[d].number)
    BY <2>3, <2>5, ParentAt
  <2> QED BY <2>2, <2>5, <2>6 DEF Builds
<1> QED BY <1>1, Invariance, PTL

\* The two lanes lose no event between them: when both have caught up, every
\* registry event in a finalised block above the seed has been yielded, or an
\* error was yielded for its height, whatever forks, rewinds, skipped heads and
\* failed requests came before.
THEOREM LanesLoseNothing == Spec => []NoEventLost
<1>1. Inv => NoEventLost
  <2> SUFFICES ASSUME Inv, Quiet, NEW n \in Number(seed) + 1 .. Number(final),
                      Matching(PathTo(final)[n + 1]) # {}
               PROVE  \/ PathTo(final)[n + 1] \in finalised
                      \/ n \in failed
                      \/ \E i \in DOMAIN yielded :
                           yielded[i] = BestItem(PathTo(final)[n + 1])
    BY DEF NoEventLost
  <2>1. PICK b : b = PathTo(final)[n + 1]
    BY Zenon
  <2>2. b = At(blocks, final, n)
    BY <2>1, OverState
  <2>3. Hit(blocks, b)
    BY <2>1 DEF Matching, Hit
  <2>4. phase = "live" /\ work = {} /\ last = best /\ finalAt = blocks[final].number
    BY DEF Quiet, Number
  <2>5. Accounted(n)
    BY <2>4, InvFacts DEF Covered, Number
  <2>6. ~(n > blocks[last].number)
    <3>1. blocks[final].number <= blocks[best].number
      BY InvFacts DEF Above, Builds
    <3>2. blocks[final].number \in Nat /\ blocks[best].number \in Nat
          /\ blocks[seed].number \in Nat
      BY InvFacts
    <3> QED BY <3>1, <3>2, <2>4 DEF Number
  <2> QED BY <2>1, <2>2, <2>3, <2>4, <2>5, <2>6 DEF Accounted, Shown, Number
<1> QED BY <1>1, Invariance, PTL

\* While the best chain only grows and nothing fails, the best lane yields
\* exactly the blocks with a watched event above the seed, in order, each once.
THEOREM BestLaneIsExact == Spec => []BestLaneExact
<1>1. Inv => BestLaneExact
  <2> SUFFICES ASSUME Inv, ~forked, failed = {}
               PROVE  BestLaneExact
    BY DEF BestLaneExact
  <2>1. PICK y, m : /\ y \in Seq(Item) /\ m \in Int /\ m <= blocks[best].number
                    /\ ExactTo(blocks, seed, best, y, m)
                    /\ DOMAIN yielded \subseteq DOMAIN y
                    /\ \A i \in DOMAIN yielded : y[i] = yielded[i]
                    /\ Quiet => y = yielded /\ m = blocks[best].number
    <3>1. blocks[last].number <= blocks[best].number /\ blocks[last].number \in Nat
          /\ blocks[best].number \in Nat
      BY InvFacts DEF Straight, Builds
    <3>2. CASE work = {}
      <4>1. ExactTo(blocks, seed, best, yielded, blocks[last].number)
        BY <3>2, InvFacts DEF Exact, Number
      <4>2. Quiet => last = best
        BY DEF Quiet
      <4>3. yielded \in Seq(Item) /\ blocks[last].number \in Int
        BY <3>1, InvFacts
      <4> QED BY <4>1, <4>2, <4>3, <3>1, Zenon
    <3>3. CASE work # {}
      <4>1. PICK w \in work : TRUE
        BY <3>3
      <4>2. /\ ExactTo(blocks, seed, best, yielded \o w.out, w.next - 1)
            /\ w.next \in Nat /\ w.next <= w.to + 1 /\ w.to = blocks[last].number
            /\ w.out \in Seq(Item) /\ yielded \in Seq(Item)
        BY <4>1, InvFacts DEF Exact, WorkOK, Number
      <4>3. PICK u, m : u = yielded \o w.out /\ m = w.next - 1
        BY Zenon
      <4>4. /\ u \in Seq(Item) /\ DOMAIN yielded \subseteq DOMAIN u
            /\ \A i \in DOMAIN yielded : u[i] = yielded[i]
        BY <4>2, <4>3
      <4>5. m \in Int /\ m <= blocks[best].number
        BY <4>2, <4>3, <3>1
      <4>6. ~Quiet
        BY <3>3 DEF Quiet
      <4> QED BY <4>2, <4>3, <4>4, <4>5, <4>6, Zenon
    <3> QED BY <3>2, <3>3
  <2>2. /\ blocks[seed].number \in Nat /\ blocks[best].number \in Nat
        /\ best \in 1 .. Len(blocks) /\ TreeOK(blocks)
        /\ DOMAIN yielded \subseteq Int
    <3>1. yielded \in Seq(Item)
      BY InvFacts
    <3> QED BY <3>1, InvFacts
  <2>3. \A n : PathTo(best)[n + 1] = At(blocks, best, n)
    BY OverState
  <2>4. \A c : Matching(c) # {} <=> Hit(blocks, c)
    BY DEF Matching, Hit
  <2>5. \A n \in blocks[seed].number + 1 .. m :
          n \in blocks[seed].number + 1 .. blocks[best].number
    BY <2>1, <2>2
  <2>6. \A n \in blocks[seed].number + 1 .. blocks[best].number :
          blocks[At(blocks, best, n)].number = n
    BY <2>2, AtFacts
  <2>7. ASSUME NEW i \in DOMAIN yielded
        PROVE  \E n \in blocks[seed].number + 1 .. m :
                 yielded[i] = BestItem(At(blocks, best, n)) /\ Hit(blocks, At(blocks, best, n))
    BY <2>1 DEF ExactTo
  <2>8. \A i \in DOMAIN yielded : \E n \in blocks[seed].number + 1 .. blocks[best].number :
          yielded[i] = BestItem(PathTo(best)[n + 1]) /\ Matching(PathTo(best)[n + 1]) # {}
    BY <2>3, <2>4, <2>5, <2>7
  <2>9. \A i, j \in DOMAIN yielded :
          i < j => blocks[yielded[i].at].number < blocks[yielded[j].at].number
    BY <2>1 DEF ExactTo
  <2>10. ASSUME NEW n \in blocks[seed].number + 1 .. blocks[best].number,
                Matching(PathTo(best)[n + 1]) # {},
                Quiet \/ \E i \in DOMAIN yielded : n <= blocks[yielded[i].at].number
         PROVE  \E i \in DOMAIN yielded : yielded[i] = BestItem(PathTo(best)[n + 1])
    <3>1. PICK b : b = At(blocks, best, n)
      BY Zenon
    <3>2. PathTo(best)[n + 1] = b /\ Hit(blocks, b) /\ blocks[b].number = n
      BY <3>1, <2>3, <2>4, <2>6, <2>10
    <3>3. CASE Quiet
      <4>1. y = yielded /\ n \in blocks[seed].number + 1 .. m
        BY <3>3, <2>1
      <4>2. Shown(y, b)
        BY <4>1, <3>1, <3>2, <2>1 DEF ExactTo
      <4> QED BY <4>1, <4>2, <3>2 DEF Shown
    <3>4. ASSUME NEW i \in DOMAIN yielded, n <= blocks[yielded[i].at].number
          PROVE  \E j \in DOMAIN yielded : yielded[j] = BestItem(b)
      <4>1. PICK k \in blocks[seed].number + 1 .. m : yielded[i] = BestItem(At(blocks, best, k))
        BY <2>7
      <4>2. blocks[yielded[i].at].number = k
        BY <4>1, <2>5, <2>6 DEF BestItem
      <4>3. n \in blocks[seed].number + 1 .. m
        BY <4>1, <4>2, <3>4, <2>1, <2>2
      <4>4. PICK j \in DOMAIN y : y[j] = BestItem(b)
        BY <4>3, <3>1, <3>2, <2>1 DEF ExactTo, Shown
      <4>5. blocks[y[j].at].number = n /\ blocks[y[i].at].number = k /\ n <= k
        BY <4>2, <4>4, <3>2, <3>4, <2>1 DEF BestItem
      <4>6. ~(i < j)
        <5>1. i \in DOMAIN y
          BY <2>1
        <5>2. i < j => blocks[y[i].at].number < blocks[y[j].at].number
          BY <5>1, <2>1 DEF ExactTo
        <5>3. k \in Int /\ n \in Int
          BY <2>1, <2>2
        <5> QED BY <5>2, <5>3, <4>5
      <4>7. j \in DOMAIN yielded
        <5>1. yielded \in Seq(Item) /\ y \in Seq(Item)
          BY <2>1, InvFacts
        <5>2. DOMAIN yielded = 1 .. Len(yielded) /\ Len(yielded) \in Nat
              /\ DOMAIN y = 1 .. Len(y) /\ Len(y) \in Nat
          BY <5>1
        <5> QED BY <5>2, <4>4, <4>6, <3>4
      <4> QED BY <4>4, <4>7, <2>1
    <3> QED BY <3>2, <3>3, <3>4, <2>10
  <2> QED BY <2>8, <2>9, <2>10 DEF BestLaneExact, Number
<1> QED BY <1>1, Invariance, PTL

=============================================================================
