-------------------------- MODULE OrgMembersProofs --------------------------
(***************************************************************************)
(* Lemmas about the operators of OrgMembers, for any members, handles and  *)
(* confusability relation: what insertion, removal, update, recalculation  *)
(* and deltas do to a trie whose lookup maps, count and cached hash agree  *)
(* with its tree.  OrgTrieProofs and DeltaWireProofs rest on them.         *)
(***************************************************************************)
EXTENDS OrgMembers, FiniteSetTheorems, TLAPS

-----------------------------------------------------------------------------
(* Partial functions.                                                      *)

\* A partial function from S to T is a function from a part of S to T.
LEMMA PartialFunction ==
  ASSUME NEW S, NEW T, NEW f
  PROVE  f \in PartialFunctions(S, T) <=> DOMAIN f \subseteq S /\ f \in [DOMAIN f -> T]
BY DEF PartialFunctions

\* HashMap::insert.
LEMMA PutIs ==
  ASSUME NEW f, NEW k, NEW v
  PROVE  /\ DOMAIN Put(f, k, v) = DOMAIN f \cup {k}
         /\ Put(f, k, v)[k] = v
         /\ \A x \in DOMAIN f \ {k} : Put(f, k, v)[x] = f[x]
BY DEF Put

\* Insertion keeps a map within its type.
LEMMA PutType ==
  ASSUME NEW S, NEW T, NEW f \in PartialFunctions(S, T), NEW k \in S, NEW v \in T
  PROVE  Put(f, k, v) \in PartialFunctions(S, T)
<1>1. DOMAIN f \subseteq S /\ f \in [DOMAIN f -> T]
  BY PartialFunction
<1>2. DOMAIN Put(f, k, v) = DOMAIN f \cup {k}
  BY PutIs
<1>3. Put(f, k, v) \in [DOMAIN f \cup {k} -> T]
  BY <1>1 DEF Put
<1>. QED  BY <1>1, <1>2, <1>3, PartialFunction

\* HashMap::remove.
LEMMA DropIs ==
  ASSUME NEW f, NEW k
  PROVE  /\ DOMAIN Drop(f, k) = DOMAIN f \ {k}
         /\ \A x \in DOMAIN f \ {k} : Drop(f, k)[x] = f[x]
BY DEF Drop, Restrict

\* A restricted map stays within its type and keeps its values.
LEMMA RestrictType ==
  ASSUME NEW S, NEW T, NEW f \in PartialFunctions(S, T), NEW D \in SUBSET DOMAIN f
  PROVE  /\ Restrict(f, D) \in PartialFunctions(S, T)
         /\ DOMAIN Restrict(f, D) = D
         /\ \A x \in D : Restrict(f, D)[x] = f[x]
<1>1. DOMAIN f \subseteq S /\ f \in [DOMAIN f -> T]
  BY PartialFunction
<1>2. Restrict(f, D) \in [D -> T] /\ DOMAIN Restrict(f, D) = D
  BY <1>1 DEF Restrict
<1>3. \A x \in D : Restrict(f, D)[x] = f[x]
  BY DEF Restrict
<1>. QED  BY <1>1, <1>2, <1>3, PartialFunction

\* Removal keeps a map within its type.
LEMMA DropType ==
  ASSUME NEW S, NEW T, NEW f \in PartialFunctions(S, T), NEW k
  PROVE  Drop(f, k) \in PartialFunctions(S, T)
BY RestrictType DEF Drop

\* HashMap::extend.
LEMMA OverlayIs ==
  ASSUME NEW f, NEW g
  PROVE  /\ DOMAIN Overlay(f, g) = DOMAIN f \cup DOMAIN g
         /\ \A x \in DOMAIN g : Overlay(f, g)[x] = g[x]
         /\ \A x \in DOMAIN f \ DOMAIN g : Overlay(f, g)[x] = f[x]
BY DEF Overlay

\* Extension keeps a map within its type.
LEMMA OverlayType ==
  ASSUME NEW S, NEW T, NEW f \in PartialFunctions(S, T), NEW g \in PartialFunctions(S, T)
  PROVE  Overlay(f, g) \in PartialFunctions(S, T)
<1>1. /\ DOMAIN f \subseteq S /\ f \in [DOMAIN f -> T]
      /\ DOMAIN g \subseteq S /\ g \in [DOMAIN g -> T]
  BY PartialFunction
<1>2. Overlay(f, g) \in [DOMAIN f \cup DOMAIN g -> T]
  BY <1>1 DEF Overlay
<1>3. DOMAIN Overlay(f, g) = DOMAIN f \cup DOMAIN g
  BY OverlayIs
<1>. QED  BY <1>1, <1>2, <1>3, PartialFunction

-----------------------------------------------------------------------------
(* Roots and their indexes.                                                *)

\* What a root is, in the form the proofs below use.
LEMMA RootIs ==
  ASSUME NEW root \in Roots
  PROVE  /\ DOMAIN root \subseteq MemberIds /\ DOMAIN root \subseteq Nat
         /\ IsFiniteSet(DOMAIN root)
         /\ \A i \in DOMAIN root :
              /\ root[i] \in MemberLeaf /\ root[i].handle \in Handles
              /\ Skeleton[root[i].handle] \in Skeletons
<1>1. DOMAIN root \subseteq MemberIds /\ root \in [DOMAIN root -> MemberLeaf]
  BY PartialFunction DEF Roots
<1>2. IsFiniteSet(DOMAIN root)
  BY <1>1, MemberIdsAssumption, FS_Subset
<1>3. \A i \in DOMAIN root :
        root[i] \in MemberLeaf /\ root[i].handle \in Handles
  BY <1>1 DEF MemberLeaf
<1>. QED  BY <1>1, <1>2, <1>3, MemberIdsAssumption, SkeletonAssumption

\* The part of IndexesAgree that is about the two maps.
Agree(root, hindex, sindex) ==
  /\ DOMAIN hindex = HandlesOf(root, DOMAIN root)
  /\ \A i \in DOMAIN root : hindex[root[i].handle] = i
  /\ DOMAIN sindex = SkeletonsOf(root, DOMAIN root)
  /\ \A i \in DOMAIN root : sindex[Skeleton[root[i].handle]] = root[i].handle

\* Maps that agree with a root show that its skeletons are distinct.
LEMMA AgreeDistinct ==
  ASSUME NEW root, NEW hindex, NEW sindex, Agree(root, hindex, sindex)
  PROVE  GenesisOk(root)
BY DEF Agree, GenesisOk

\* The indexes that genesis builds agree with its root.
LEMMA GenesisAgrees ==
  ASSUME NEW root, GenesisOk(root)
  PROVE  Agree(root, HandleIndexOf(root), SkeletonIndexOf(root))
<1>1. /\ DOMAIN HandleIndexOf(root) = HandlesOf(root, DOMAIN root)
      /\ DOMAIN SkeletonIndexOf(root) = SkeletonsOf(root, DOMAIN root)
  BY DEF HandleIndexOf, SkeletonIndexOf, HandlesOf, SkeletonsOf
<1>2. ASSUME NEW i \in DOMAIN root  PROVE HandleIndexOf(root)[root[i].handle] = i
  <2>. DEFINE h == root[i].handle
              c == CHOOSE j \in DOMAIN root : root[j].handle = h
  <2>1. h \in {root[j].handle : j \in DOMAIN root}
    OBVIOUS
  <2>2. HandleIndexOf(root)[h] = c
    BY <2>1 DEF HandleIndexOf
  <2>3. c \in DOMAIN root /\ root[c].handle = h
    OBVIOUS
  <2>4. c = i
    BY <2>3 DEF GenesisOk
  <2>. QED  BY <2>2, <2>4
<1>3. ASSUME NEW i \in DOMAIN root
      PROVE  SkeletonIndexOf(root)[Skeleton[root[i].handle]] = root[i].handle
  <2>. DEFINE s == Skeleton[root[i].handle]
              c == CHOOSE j \in DOMAIN root : Skeleton[root[j].handle] = s
  <2>1. s \in {Skeleton[root[j].handle] : j \in DOMAIN root}
    OBVIOUS
  <2>2. SkeletonIndexOf(root)[s] = root[c].handle
    BY <2>1 DEF SkeletonIndexOf
  <2>3. c \in DOMAIN root /\ Skeleton[root[c].handle] = s
    OBVIOUS
  <2>4. c = i
    BY <2>3 DEF GenesisOk
  <2>. QED  BY <2>2, <2>4
<1>. QED  BY <1>1, <1>2, <1>3 DEF Agree

\* The two maps are determined by the root they agree with.
LEMMA AgreeUnique ==
  ASSUME NEW root \in Roots,
         NEW hindex \in PartialFunctions(Handles, MemberIds),
         NEW sindex \in PartialFunctions(Skeletons, Handles),
         Agree(root, hindex, sindex)
  PROVE  hindex = HandleIndexOf(root) /\ sindex = SkeletonIndexOf(root)
<1>1. Agree(root, HandleIndexOf(root), SkeletonIndexOf(root))
  BY AgreeDistinct, GenesisAgrees
<1>2. hindex \in [DOMAIN hindex -> MemberIds] /\ sindex \in [DOMAIN sindex -> Handles]
  BY PartialFunction
<1>3. hindex = HandleIndexOf(root)
  <2>1. DOMAIN hindex = DOMAIN HandleIndexOf(root)
    BY <1>1 DEF Agree
  <2>2. ASSUME NEW h \in DOMAIN hindex  PROVE hindex[h] = HandleIndexOf(root)[h]
    <3>1. PICK i \in DOMAIN root : h = root[i].handle
      BY DEF Agree, HandlesOf
    <3>. QED  BY <1>1, <3>1 DEF Agree
  <2>3. HandleIndexOf(root) = [h \in DOMAIN HandleIndexOf(root) |-> HandleIndexOf(root)[h]]
    BY DEF HandleIndexOf
  <2>4. hindex = [h \in DOMAIN hindex |-> hindex[h]]
    BY <1>2
  <2>. QED  BY <2>1, <2>2, <2>3, <2>4
<1>4. sindex = SkeletonIndexOf(root)
  <2>1. DOMAIN sindex = DOMAIN SkeletonIndexOf(root)
    BY <1>1 DEF Agree
  <2>2. ASSUME NEW s \in DOMAIN sindex  PROVE sindex[s] = SkeletonIndexOf(root)[s]
    <3>1. PICK i \in DOMAIN root : s = Skeleton[root[i].handle]
      BY DEF Agree, SkeletonsOf
    <3>. QED  BY <1>1, <3>1 DEF Agree
  <2>3. SkeletonIndexOf(root) =
          [s \in DOMAIN SkeletonIndexOf(root) |-> SkeletonIndexOf(root)[s]]
    BY DEF SkeletonIndexOf
  <2>4. sindex = [s \in DOMAIN sindex |-> sindex[s]]
    BY <1>2
  <2>. QED  BY <2>1, <2>2, <2>3, <2>4
<1>. QED  BY <1>3, <1>4

\* The indexes of genesis have the types of the maps.
LEMMA IndexTypes ==
  ASSUME NEW root \in Roots
  PROVE  /\ HandleIndexOf(root) \in PartialFunctions(Handles, MemberIds)
         /\ SkeletonIndexOf(root) \in PartialFunctions(Skeletons, Handles)
<1>1. HandleIndexOf(root) \in [{root[i].handle : i \in DOMAIN root} -> MemberIds]
  <2>1. ASSUME NEW h \in {root[i].handle : i \in DOMAIN root}
        PROVE  (CHOOSE i \in DOMAIN root : root[i].handle = h) \in DOMAIN root
    OBVIOUS
  <2>. QED  BY <2>1, RootIs DEF HandleIndexOf
<1>2. SkeletonIndexOf(root)
        \in [{Skeleton[root[i].handle] : i \in DOMAIN root} -> Handles]
  <2>1. ASSUME NEW s \in {Skeleton[root[i].handle] : i \in DOMAIN root}
        PROVE  (CHOOSE i \in DOMAIN root : Skeleton[root[i].handle] = s) \in DOMAIN root
    OBVIOUS
  <2>. QED  BY <2>1, RootIs DEF SkeletonIndexOf
<1>3. /\ {root[i].handle : i \in DOMAIN root} \subseteq Handles
      /\ {Skeleton[root[i].handle] : i \in DOMAIN root} \subseteq Skeletons
  BY RootIs
<1>. QED  BY <1>1, <1>2, <1>3 DEF PartialFunctions

-----------------------------------------------------------------------------
(* What the mutations do to maps that agree with the root.                 *)

\* Agreement is about handles only: other fields of a leaf may change.
LEMMA SameHandlesAgree ==
  ASSUME NEW root, NEW hindex, NEW sindex, Agree(root, hindex, sindex),
         NEW other, DOMAIN other = DOMAIN root,
         \A i \in DOMAIN root : other[i].handle = root[i].handle
  PROVE  Agree(other, hindex, sindex)
<1>1. /\ HandlesOf(other, DOMAIN other) = HandlesOf(root, DOMAIN root)
      /\ SkeletonsOf(other, DOMAIN other) = SkeletonsOf(root, DOMAIN root)
  BY DEF HandlesOf, SkeletonsOf
<1>. QED  BY <1>1 DEF Agree

\* Removing members with their handles and skeletons keeps the agreement.
LEMMA RestrictAgrees ==
  ASSUME NEW root, NEW hindex, NEW sindex, Agree(root, hindex, sindex),
         NEW R \in SUBSET DOMAIN root
  PROVE  Agree(Restrict(root, DOMAIN root \ R),
               Restrict(hindex, DOMAIN hindex \ HandlesOf(root, R)),
               Restrict(sindex, DOMAIN sindex \ SkeletonsOf(root, R)))
<1>. DEFINE r == Restrict(root, DOMAIN root \ R)
            h == Restrict(hindex, DOMAIN hindex \ HandlesOf(root, R))
            s == Restrict(sindex, DOMAIN sindex \ SkeletonsOf(root, R))
<1>1. /\ DOMAIN r = DOMAIN root \ R /\ \A i \in DOMAIN r : r[i] = root[i]
      /\ DOMAIN h = DOMAIN hindex \ HandlesOf(root, R)
      /\ \A x \in DOMAIN h : h[x] = hindex[x]
      /\ DOMAIN s = DOMAIN sindex \ SkeletonsOf(root, R)
      /\ \A x \in DOMAIN s : s[x] = sindex[x]
  BY DEF Restrict
<1>2. \A i, j \in DOMAIN root : i # j => /\ root[i].handle # root[j].handle
                                         /\ Skeleton[root[i].handle] # Skeleton[root[j].handle]
  BY DEF Agree
<1>3. DOMAIN h = HandlesOf(r, DOMAIN r) /\ DOMAIN s = SkeletonsOf(r, DOMAIN r)
  <2>1. \A i \in DOMAIN r : /\ root[i].handle \notin HandlesOf(root, R)
                            /\ Skeleton[root[i].handle] \notin SkeletonsOf(root, R)
    BY <1>1, <1>2 DEF HandlesOf, SkeletonsOf
  <2>. HIDE DEF r, h, s
  <2>2. DOMAIN h = HandlesOf(r, DOMAIN r)
    BY <1>1, <2>1 DEF HandlesOf, Agree
  <2>3. DOMAIN s = SkeletonsOf(r, DOMAIN r)
    BY <1>1, <2>1 DEF SkeletonsOf, Agree
  <2>. QED  BY <2>2, <2>3
<1>4. \A i \in DOMAIN r : /\ r[i].handle \in DOMAIN h
                          /\ Skeleton[r[i].handle] \in DOMAIN s
  <2>. HIDE DEF r, h, s
  <2>. QED  BY <1>3 DEF HandlesOf, SkeletonsOf
<1>. HIDE DEF r, h, s
<1>5. \A i \in DOMAIN r : /\ h[r[i].handle] = i
                          /\ s[Skeleton[r[i].handle]] = r[i].handle
  BY <1>1, <1>4 DEF Agree
<1>6. Agree(r, h, s)
  BY <1>3, <1>5 DEF Agree
<1>. QED  BY <1>6 DEF r, h, s

\* Adding members whose skeletons are all new keeps the agreement.
LEMMA OverlayAgrees ==
  ASSUME NEW r1, NEW h1, NEW s1, Agree(r1, h1, s1),
         NEW r2, NEW h2, NEW s2, Agree(r2, h2, s2),
         DOMAIN r1 \cap DOMAIN r2 = {}, DOMAIN s1 \cap DOMAIN s2 = {}
  PROVE  Agree(Overlay(r1, r2), Overlay(h1, h2), Overlay(s1, s2))
<1>. DEFINE r == Overlay(r1, r2)
            h == Overlay(h1, h2)
            s == Overlay(s1, s2)
<1>1. /\ DOMAIN r = DOMAIN r1 \cup DOMAIN r2
      /\ \A i \in DOMAIN r1 : r[i] = r1[i]
      /\ \A i \in DOMAIN r2 : r[i] = r2[i]
  BY DEF Overlay
<1>2. \A i \in DOMAIN r1, j \in DOMAIN r2 :
        /\ Skeleton[r1[i].handle] # Skeleton[r2[j].handle]
        /\ r1[i].handle # r2[j].handle
  BY DEF Agree, SkeletonsOf
<1>3. DOMAIN h1 \cap DOMAIN h2 = {}
  BY <1>2 DEF Agree, HandlesOf
<1>4. /\ DOMAIN h = DOMAIN h1 \cup DOMAIN h2
      /\ \A x \in DOMAIN h1 : h[x] = h1[x]
      /\ \A x \in DOMAIN h2 : h[x] = h2[x]
      /\ DOMAIN s = DOMAIN s1 \cup DOMAIN s2
      /\ \A x \in DOMAIN s1 : s[x] = s1[x]
      /\ \A x \in DOMAIN s2 : s[x] = s2[x]
  <2>1. /\ DOMAIN h = DOMAIN h1 \cup DOMAIN h2
        /\ \A x \in DOMAIN h1 : h[x] = h1[x]
        /\ \A x \in DOMAIN h2 : h[x] = h2[x]
    BY <1>3 DEF Overlay
  <2>2. /\ DOMAIN s = DOMAIN s1 \cup DOMAIN s2
        /\ \A x \in DOMAIN s1 : s[x] = s1[x]
        /\ \A x \in DOMAIN s2 : s[x] = s2[x]
    BY DEF Overlay
  <2>. HIDE DEF h, s
  <2>. QED  BY <2>1, <2>2
<1>. HIDE DEF r, h, s
<1>5. DOMAIN h = HandlesOf(r, DOMAIN r) /\ DOMAIN s = SkeletonsOf(r, DOMAIN r)
  BY <1>1, <1>4 DEF Agree, HandlesOf, SkeletonsOf
<1>6. /\ \A i \in DOMAIN r1 : r1[i].handle \in DOMAIN h1 /\ Skeleton[r1[i].handle] \in DOMAIN s1
      /\ \A i \in DOMAIN r2 : r2[i].handle \in DOMAIN h2 /\ Skeleton[r2[i].handle] \in DOMAIN s2
  BY DEF Agree, HandlesOf, SkeletonsOf
<1>7. \A i \in DOMAIN r : /\ h[r[i].handle] = i
                          /\ s[Skeleton[r[i].handle]] = r[i].handle
  BY <1>1, <1>4, <1>6 DEF Agree
<1>8. Agree(r, h, s)
  BY <1>5, <1>7 DEF Agree
<1>. QED  BY <1>8 DEF r, h, s

\* insert_leaf's three insertions.
LEMMA PutAgrees ==
  ASSUME NEW root, NEW hindex, NEW sindex, Agree(root, hindex, sindex),
         NEW id, id \notin DOMAIN root, NEW leaf,
         Skeleton[leaf.handle] \notin DOMAIN sindex
  PROVE  Agree(Put(root, id, leaf), Put(hindex, leaf.handle, id),
               Put(sindex, Skeleton[leaf.handle], leaf.handle))
<1>. DEFINE r == Put(root, id, leaf)
            h == Put(hindex, leaf.handle, id)
            s == Put(sindex, Skeleton[leaf.handle], leaf.handle)
<1>0. \A i \in DOMAIN root : /\ root[i].handle \in DOMAIN hindex
                             /\ Skeleton[root[i].handle] \in DOMAIN sindex
  BY DEF Agree, HandlesOf, SkeletonsOf
<1>1. \A i \in DOMAIN root : /\ Skeleton[root[i].handle] # Skeleton[leaf.handle]
                             /\ root[i].handle # leaf.handle
  BY <1>0
<1>2. /\ DOMAIN r = DOMAIN root \cup {id} /\ r[id] = leaf
      /\ \A i \in DOMAIN root : r[i] = root[i]
      /\ DOMAIN h = DOMAIN hindex \cup {leaf.handle} /\ h[leaf.handle] = id
      /\ \A x \in DOMAIN hindex \ {leaf.handle} : h[x] = hindex[x]
      /\ DOMAIN s = DOMAIN sindex \cup {Skeleton[leaf.handle]}
      /\ s[Skeleton[leaf.handle]] = leaf.handle
      /\ \A x \in DOMAIN sindex \ {Skeleton[leaf.handle]} : s[x] = sindex[x]
  <2>1. /\ DOMAIN r = DOMAIN root \cup {id} /\ r[id] = leaf
        /\ \A i \in DOMAIN root : r[i] = root[i]
    BY DEF Put
  <2>2. /\ DOMAIN h = DOMAIN hindex \cup {leaf.handle} /\ h[leaf.handle] = id
        /\ \A x \in DOMAIN hindex \ {leaf.handle} : h[x] = hindex[x]
    BY DEF Put
  <2>3. /\ DOMAIN s = DOMAIN sindex \cup {Skeleton[leaf.handle]}
        /\ s[Skeleton[leaf.handle]] = leaf.handle
        /\ \A x \in DOMAIN sindex \ {Skeleton[leaf.handle]} : s[x] = sindex[x]
    BY DEF Put
  <2>. HIDE DEF r, h, s
  <2>. QED  BY <2>1, <2>2, <2>3
<1>. HIDE DEF r, h, s
<1>3. DOMAIN h = HandlesOf(r, DOMAIN r) /\ DOMAIN s = SkeletonsOf(r, DOMAIN r)
  BY <1>2 DEF Agree, HandlesOf, SkeletonsOf
<1>4. \A i \in DOMAIN r : /\ h[r[i].handle] = i
                          /\ s[Skeleton[r[i].handle]] = r[i].handle
  BY <1>0, <1>1, <1>2 DEF Agree
<1>5. Agree(r, h, s)
  BY <1>3, <1>4 DEF Agree
<1>. QED  BY <1>5 DEF r, h, s

\* delete_by_id's three removals.
LEMMA DropAgrees ==
  ASSUME NEW root, NEW hindex, NEW sindex, Agree(root, hindex, sindex),
         NEW id \in DOMAIN root
  PROVE  Agree(Drop(root, id), Drop(hindex, root[id].handle),
               Drop(sindex, Skeleton[root[id].handle]))
<1>1. /\ HandlesOf(root, {id}) = {root[id].handle}
      /\ SkeletonsOf(root, {id}) = {Skeleton[root[id].handle]}
  BY DEF HandlesOf, SkeletonsOf
<1>2. Agree(Restrict(root, DOMAIN root \ {id}),
            Restrict(hindex, DOMAIN hindex \ HandlesOf(root, {id})),
            Restrict(sindex, DOMAIN sindex \ SkeletonsOf(root, {id})))
  BY RestrictAgrees
<1>. QED  BY <1>1, <1>2 DEF Drop

-----------------------------------------------------------------------------
(* The mutations of a whole trie.                                          *)

\* A well-typed trie whose maps, counter and cached hash can be trusted.
TrieOK(t) ==
  /\ t \in OrgTrie
  /\ IndexesAgree(t)
  /\ CacheFresh(t)

\* The fields of such a trie.
LEMMA TrieFields ==
  ASSUME NEW t, TrieOK(t)
  PROVE  /\ t.root \in Roots /\ t.last_calculated_root \in Roots
         /\ t.member_count = Cardinality(DOMAIN t.root) /\ t.member_count \in Nat
         /\ t.cached_root_hash \in {NoHash} \cup {{h} : h \in Roots}
         /\ t.handle_index \in PartialFunctions(Handles, MemberIds)
         /\ t.skeleton_index \in PartialFunctions(Skeletons, Handles)
         /\ Agree(t.root, t.handle_index, t.skeleton_index)
BY DEF TrieOK, OrgTrie, IndexesAgree, Agree

\* A trie assembled from well-typed fields that agree with each other.
LEMMA TrieFrom ==
  ASSUME NEW root \in Roots, NEW last \in Roots, NEW count,
         NEW cache \in {NoHash} \cup {{h} : h \in Roots},
         NEW hindex \in PartialFunctions(Handles, MemberIds),
         NEW sindex \in PartialFunctions(Skeletons, Handles),
         Agree(root, hindex, sindex), count = Cardinality(DOMAIN root),
         cache # NoHash => cache = {root} /\ last = root
  PROVE  TrieOK([root |-> root, member_count |-> count, cached_root_hash |-> cache,
                 last_calculated_root |-> last, skeleton_index |-> sindex,
                 handle_index |-> hindex])
<1>. DEFINE t == [root |-> root, member_count |-> count, cached_root_hash |-> cache,
                  last_calculated_root |-> last, skeleton_index |-> sindex,
                  handle_index |-> hindex]
<1>1. count \in Nat
  BY RootIs, FS_CardinalityType
<1>2. t \in OrgTrie
  BY <1>1 DEF OrgTrie
<1>3. IndexesAgree(t)
  BY DEF IndexesAgree, Agree
<1>4. CacheFresh(t)
  BY DEF CacheFresh, RootHash
<1>. QED  BY <1>2, <1>3, <1>4 DEF TrieOK

\* The same for a trie that keeps its diff base and has lost its cached hash.
LEMMA TrieEdited ==
  ASSUME NEW t, t \in OrgTrie, NEW root \in Roots, NEW count,
         NEW hindex \in PartialFunctions(Handles, MemberIds),
         NEW sindex \in PartialFunctions(Skeletons, Handles),
         Agree(root, hindex, sindex), count = Cardinality(DOMAIN root)
  PROVE  TrieOK([t EXCEPT !.root = root, !.member_count = count,
                          !.cached_root_hash = NoHash,
                          !.skeleton_index = sindex, !.handle_index = hindex])
<1>. DEFINE w == [t EXCEPT !.root = root, !.member_count = count,
                           !.cached_root_hash = NoHash,
                           !.skeleton_index = sindex, !.handle_index = hindex]
<1>1. count \in Nat
  BY RootIs, FS_CardinalityType
<1>2. NoHash \in {NoHash} \cup {{h} : h \in Roots}
  OBVIOUS
<1>3. w \in OrgTrie
  BY <1>1, <1>2 DEF OrgTrie
<1>4. /\ w.root = root /\ w.member_count = count /\ w.cached_root_hash = NoHash
      /\ w.skeleton_index = sindex /\ w.handle_index = hindex
  BY DEF OrgTrie
<1>. HIDE DEF w
<1>5. IndexesAgree(w)
  BY <1>4 DEF IndexesAgree, Agree
<1>6. CacheFresh(w)
  BY <1>4 DEF CacheFresh
<1>. QED  BY <1>3, <1>5, <1>6 DEF TrieOK, w

\* genesis produces such a trie.
LEMMA GenesisTrie ==
  ASSUME NEW root \in Roots, GenesisOk(root)
  PROVE  TrieOK(Genesis(root))
<1>1. {root} \in {NoHash} \cup {{h} : h \in Roots}
  OBVIOUS
<1>2. Agree(root, HandleIndexOf(root), SkeletonIndexOf(root))
  BY GenesisAgrees
<1>. QED  BY <1>1, <1>2, IndexTypes, TrieFrom DEF Genesis, RootHash

\* The collision check of a handle passes only when its skeleton is free.
LEMMA VerdictOk ==
  ASSUME NEW sindex, NEW handle, HandleVerdict(sindex, handle) = "Ok"
  PROVE  Skeleton[handle] \notin DOMAIN sindex
BY DEF HandleVerdict

\* insert_leaf keeps the trie trustworthy.
LEMMA InsertTrie ==
  ASSUME NEW t, TrieOK(t), NEW id \in MemberIds, NEW leaf \in MemberLeaf,
         InsertLeafVerdict(t, id, leaf) = "Ok"
  PROVE  TrieOK(InsertLeaf(t, id, leaf))
<1>. DEFINE root   == Put(t.root, id, leaf)
            hindex == Put(t.handle_index, leaf.handle, id)
            sindex == Put(t.skeleton_index, Skeleton[leaf.handle], leaf.handle)
<1>1. id \notin DOMAIN t.root /\ Skeleton[leaf.handle] \notin DOMAIN t.skeleton_index
  BY VerdictOk DEF InsertLeafVerdict
<1>2. leaf.handle \in Handles /\ Skeleton[leaf.handle] \in Skeletons
  BY SkeletonAssumption DEF MemberLeaf
<1>3. root \in Roots
  BY TrieFields, PutType DEF Roots
<1>4. hindex \in PartialFunctions(Handles, MemberIds)
  BY <1>2, TrieFields, PutType
<1>5. sindex \in PartialFunctions(Skeletons, Handles)
  BY <1>2, TrieFields, PutType
<1>6. Agree(root, hindex, sindex)
  BY <1>1, TrieFields, PutAgrees
<1>7. t.member_count + 1 = Cardinality(DOMAIN root)
  <2>1. DOMAIN root = DOMAIN t.root \cup {id}
    BY PutIs
  <2>2. IsFiniteSet(DOMAIN t.root) /\ t.member_count = Cardinality(DOMAIN t.root)
    BY TrieFields, RootIs
  <2>. QED  BY <1>1, <2>1, <2>2, FS_AddElement
<1>8. InsertLeaf(t, id, leaf) =
        [t EXCEPT !.root = root, !.member_count = t.member_count + 1,
                  !.cached_root_hash = NoHash,
                  !.skeleton_index = sindex, !.handle_index = hindex]
  BY DEF InsertLeaf
<1>. HIDE DEF root, hindex, sindex
<1>9. t \in OrgTrie
  BY DEF TrieOK
<1>10. TrieOK([t EXCEPT !.root = root, !.member_count = t.member_count + 1,
                        !.cached_root_hash = NoHash,
                        !.skeleton_index = sindex, !.handle_index = hindex])
  BY <1>3, <1>4, <1>5, <1>6, <1>7, <1>9, TrieEdited
<1>. QED  BY <1>8, <1>10

\* delete_by_id keeps the trie trustworthy.
LEMMA DeleteTrie ==
  ASSUME NEW t, TrieOK(t), NEW id, DeleteByIdVerdict(t, id) = "Ok"
  PROVE  TrieOK(DeleteById(t, id))
<1>. DEFINE root   == Drop(t.root, id)
            hindex == Drop(t.handle_index, t.root[id].handle)
            sindex == Drop(t.skeleton_index, Skeleton[t.root[id].handle])
<1>1. id \in DOMAIN t.root
  BY DEF DeleteByIdVerdict
<1>3. root \in Roots
  BY TrieFields, DropType DEF Roots
<1>4. hindex \in PartialFunctions(Handles, MemberIds)
  BY TrieFields, DropType
<1>5. sindex \in PartialFunctions(Skeletons, Handles)
  BY TrieFields, DropType
<1>6. Agree(root, hindex, sindex)
  BY <1>1, TrieFields, DropAgrees
<1>7. t.member_count - 1 = Cardinality(DOMAIN root)
  <2>1. DOMAIN root = DOMAIN t.root \ {id}
    BY DropIs
  <2>2. IsFiniteSet(DOMAIN t.root) /\ t.member_count = Cardinality(DOMAIN t.root)
    BY TrieFields, RootIs
  <2>. QED  BY <1>1, <2>1, <2>2, FS_RemoveElement
<1>8. DeleteById(t, id) =
        [t EXCEPT !.root = root, !.member_count = t.member_count - 1,
                  !.cached_root_hash = NoHash,
                  !.skeleton_index = sindex, !.handle_index = hindex]
  BY DEF DeleteById
<1>. HIDE DEF root, hindex, sindex
<1>9. t \in OrgTrie
  BY DEF TrieOK
<1>10. TrieOK([t EXCEPT !.root = root, !.member_count = t.member_count - 1,
                        !.cached_root_hash = NoHash,
                        !.skeleton_index = sindex, !.handle_index = hindex])
  BY <1>3, <1>4, <1>5, <1>6, <1>7, <1>9, TrieEdited
<1>. QED  BY <1>8, <1>10

\* update_leaf keeps the trie trustworthy, whether the handle moves or not.
LEMMA UpdateTrie ==
  ASSUME NEW t, TrieOK(t), NEW id, NEW leaf \in MemberLeaf,
         UpdateLeafVerdict(t, id, leaf) = "Ok"
  PROVE  TrieOK(UpdateLeaf(t, id, leaf))
<1>. DEFINE root   == Put(t.root, id, leaf)
            old    == t.root[id].handle
            less   == Drop(t.root, id)
            hless  == Drop(t.handle_index, old)
            sless  == Drop(t.skeleton_index, Skeleton[old])
            hindex == IF old # leaf.handle THEN Put(hless, leaf.handle, id)
                      ELSE t.handle_index
            sindex == IF old # leaf.handle
                      THEN Put(sless, Skeleton[leaf.handle], leaf.handle)
                      ELSE t.skeleton_index
<1>1. id \in DOMAIN t.root /\ id \in MemberIds
  BY TrieFields, RootIs DEF UpdateLeafVerdict
<1>2. leaf.handle \in Handles /\ Skeleton[leaf.handle] \in Skeletons
  BY SkeletonAssumption DEF MemberLeaf
<1>3. root \in Roots
  BY <1>1, TrieFields, PutType DEF Roots
<1>4. hindex \in PartialFunctions(Handles, MemberIds)
  BY <1>1, <1>2, TrieFields, PutType, DropType
<1>5. sindex \in PartialFunctions(Skeletons, Handles)
  BY <1>2, TrieFields, PutType, DropType
<1>6. Agree(root, hindex, sindex)
  <2>1. CASE old = leaf.handle
    <3>1. /\ DOMAIN root = DOMAIN t.root
          /\ \A i \in DOMAIN t.root : root[i].handle = t.root[i].handle
      BY <1>1, <2>1 DEF Put
    <3>2. Agree(root, t.handle_index, t.skeleton_index)
      BY <3>1, TrieFields, SameHandlesAgree
    <3>. QED  BY <2>1, <3>2
  <2>2. CASE old # leaf.handle
    <3>1. Agree(less, hless, sless)
      BY <1>1, TrieFields, DropAgrees
    <3>2. id \notin DOMAIN less
      BY DropIs
    <3>3. Skeleton[leaf.handle] \notin DOMAIN sless
      BY <1>1, <2>2, VerdictOk DEF UpdateLeafVerdict
    <3>4. Agree(Put(less, id, leaf), Put(hless, leaf.handle, id),
                Put(sless, Skeleton[leaf.handle], leaf.handle))
      <4>. HIDE DEF less, hless, sless
      <4>. QED  BY <3>1, <3>2, <3>3, PutAgrees
    <3>5. Put(less, id, leaf) = root
      BY DEF Put, Drop, Restrict
    <3>. QED  BY <2>2, <3>4, <3>5
  <2>. QED  BY <2>1, <2>2
<1>7. t.member_count = Cardinality(DOMAIN root)
  <2>1. DOMAIN root = DOMAIN t.root
    BY <1>1 DEF Put
  <2>. QED  BY <2>1, TrieFields
<1>8. UpdateLeaf(t, id, leaf) =
        [t EXCEPT !.root = root, !.member_count = t.member_count,
                  !.cached_root_hash = NoHash,
                  !.skeleton_index = sindex, !.handle_index = hindex]
  BY DEF UpdateLeaf, TrieOK, OrgTrie
<1>. HIDE DEF root, hindex, sindex
<1>9. t \in OrgTrie
  BY DEF TrieOK
<1>10. TrieOK([t EXCEPT !.root = root, !.member_count = t.member_count,
                        !.cached_root_hash = NoHash,
                        !.skeleton_index = sindex, !.handle_index = hindex])
  BY <1>3, <1>4, <1>5, <1>6, <1>7, <1>9, TrieEdited
<1>. QED  BY <1>8, <1>10

\* recalculate keeps the trie trustworthy.
LEMMA RecalculateTrie ==
  ASSUME NEW t, TrieOK(t)
  PROVE  TrieOK(Recalculate(t))
<1>1. {t.root} \in {NoHash} \cup {{h} : h \in Roots}
  BY TrieFields
<1>. DEFINE w == Recalculate(t)
<1>2. w \in OrgTrie
  BY <1>1, TrieFields DEF Recalculate, TrieOK, OrgTrie, RootHash
<1>3. /\ w.root = t.root /\ w.member_count = t.member_count
      /\ w.cached_root_hash = {t.root} /\ w.last_calculated_root = t.root
      /\ w.skeleton_index = t.skeleton_index /\ w.handle_index = t.handle_index
  BY DEF Recalculate, TrieOK, OrgTrie, RootHash
<1>. HIDE DEF w
<1>4. IndexesAgree(w)
  BY <1>3 DEF IndexesAgree, TrieOK
<1>5. CacheFresh(w)
  BY <1>3 DEF CacheFresh, RootHash
<1>. QED  BY <1>2, <1>4, <1>5 DEF TrieOK, w

-----------------------------------------------------------------------------
(* apply_delta.                                                            *)

\* The ids that a delta releases and takes, in terms of its base.
LEMMA DeltaIds ==
  ASSUME NEW t, TrieOK(t), NEW d \in Delta, CanonicalDelta(t, d)
  PROVE  /\ d.upserted \in Roots /\ DOMAIN d.upserted \subseteq MemberIds
         /\ Rehandled(t, d) \subseteq DOMAIN d.upserted
         /\ Rehandled(t, d) \subseteq Nat
         /\ d.removed \subseteq DOMAIN t.root
         /\ d.removed \cap DOMAIN d.upserted = {}
         /\ Released(t, d, MemberIds) = d.removed \cup (Rehandled(t, d) \cap DOMAIN t.root)
         /\ \A i \in DOMAIN d.upserted \ Rehandled(t, d) :
              i \in DOMAIN t.root /\ t.root[i].handle = d.upserted[i].handle
<1>1. d.upserted \in Roots
  BY DEF Delta
<1>2. DOMAIN d.upserted \subseteq MemberIds /\ DOMAIN d.upserted \subseteq Nat
  BY <1>1, RootIs
<1>3. /\ Rehandled(t, d) \subseteq DOMAIN d.upserted
      /\ \A i \in DOMAIN d.upserted \ Rehandled(t, d) :
           i \in DOMAIN t.root /\ t.root[i].handle = d.upserted[i].handle
  BY DEF Rehandled
<1>4. d.removed \subseteq DOMAIN t.root /\ d.removed \cap DOMAIN d.upserted = {}
  BY DEF CanonicalDelta
<1>5. Released(t, d, MemberIds) = d.removed \cup (Rehandled(t, d) \cap DOMAIN t.root)
  BY <1>2, <1>3 DEF Released
<1>. QED  BY <1>1, <1>2, <1>3, <1>4, <1>5

\* Accepted upserts take skeletons that are pairwise distinct, and distinct from
\* those of the members whose handles the delta does not release.
LEMMA AcceptedDistinct ==
  ASSUME NEW t, TrieOK(t), NEW d \in Delta, CanonicalDelta(t, d),
         \A i \in Rehandled(t, d) : UpsertAccepted(t, d, i)
  PROVE  /\ \A i, j \in Rehandled(t, d) :
              i # j => Skeleton[d.upserted[i].handle] # Skeleton[d.upserted[j].handle]
         /\ \A i \in Rehandled(t, d), j \in DOMAIN t.root \ Released(t, d, MemberIds) :
              Skeleton[d.upserted[i].handle] # Skeleton[t.root[j].handle]
<1>. DEFINE C == Rehandled(t, d)
            sk(i) == Skeleton[d.upserted[i].handle]
            earlier(i) == {j \in C : j < i}
            out(i) == Released(t, d, earlier(i) \cup {i})
<1>1. ASSUME NEW i \in C
      PROVE  /\ sk(i) \notin SkeletonsOf(d.upserted, earlier(i))
             /\ sk(i) \in DOMAIN t.skeleton_index => sk(i) \in SkeletonsOf(t.root, out(i))
  <2>1. UpsertAccepted(t, d, i)
    OBVIOUS
  <2>2. sk(i) \notin (DOMAIN t.skeleton_index \ SkeletonsOf(t.root, out(i)))
                     \cup SkeletonsOf(d.upserted, earlier(i))
    BY <2>1 DEF UpsertAccepted
  <2>. QED  BY <2>2
<1>2. ASSUME NEW i \in C, NEW j \in C, j < i  PROVE sk(i) # sk(j)
  BY <1>1, <1>2 DEF SkeletonsOf
<1>3. \A i, j \in C : i # j => i < j \/ j < i
  BY DeltaIds
<1>4. ASSUME NEW i \in C, NEW j \in DOMAIN t.root \ Released(t, d, MemberIds),
             sk(i) = Skeleton[t.root[j].handle]
      PROVE  FALSE
  <2>1. sk(i) \in DOMAIN t.skeleton_index
    BY <1>4, TrieFields DEF Agree, SkeletonsOf
  <2>2. PICK k \in out(i) : sk(i) = Skeleton[t.root[k].handle]
    BY <1>1, <2>1 DEF SkeletonsOf
  <2>3. k \in Released(t, d, MemberIds) /\ k \in DOMAIN t.root
    BY DeltaIds DEF Released
  <2>4. GenesisOk(t.root)
    BY TrieFields, AgreeDistinct
  <2>. QED  BY <1>4, <2>2, <2>3, <2>4 DEF GenesisOk
<1>. QED  BY <1>2, <1>3, <1>4

\* The maps of the candidate agree with its root.
LEMMA ApplyAgrees ==
  ASSUME NEW t, TrieOK(t), NEW d \in Delta, CanonicalDelta(t, d),
         \A i \in Rehandled(t, d) : UpsertAccepted(t, d, i)
  PROVE  LET c == ApplyDelta(t, d) IN
         /\ c.root \in Roots
         /\ c.handle_index \in PartialFunctions(Handles, MemberIds)
         /\ c.skeleton_index \in PartialFunctions(Skeletons, Handles)
         /\ Agree(c.root, c.handle_index, c.skeleton_index)
<1>. DEFINE C == Rehandled(t, d)
            R == Released(t, d, MemberIds)
            kept  == Restrict(t.root, DOMAIN t.root \ R)
            hkept == Restrict(t.handle_index, DOMAIN t.handle_index \ HandlesOf(t.root, R))
            skept == Restrict(t.skeleton_index,
                              DOMAIN t.skeleton_index \ SkeletonsOf(t.root, R))
            added == Restrict(d.upserted, C)
            hadd  == HandleIndexOf(added)
            sadd  == SkeletonIndexOf(added)
            root  == Patch(t.root, d)
<1>1. ApplyDelta(t, d).root = root
  BY DEF ApplyDelta
<1>2. ApplyDelta(t, d).handle_index = Overlay(hkept, hadd)
  BY DEF ApplyDelta
<1>3. ApplyDelta(t, d).skeleton_index = Overlay(skept, sadd)
  BY DEF ApplyDelta
<1>4. R \subseteq DOMAIN t.root /\ C \subseteq DOMAIN d.upserted
  BY DeltaIds
<1>5. added \in Roots /\ DOMAIN added = C /\ \A i \in C : added[i] = d.upserted[i]
  BY <1>4, DeltaIds, RestrictType DEF Roots
<1>6. GenesisOk(added)
  BY <1>5, AcceptedDistinct DEF GenesisOk
<1>7. Agree(added, hadd, sadd)
  BY <1>6, GenesisAgrees
<1>8. Agree(kept, hkept, skept)
  BY <1>4, TrieFields, RestrictAgrees
<1>9. DOMAIN kept = DOMAIN t.root \ R /\ \A i \in DOMAIN kept : kept[i] = t.root[i]
  BY DEF Restrict
<1>10. hkept \in PartialFunctions(Handles, MemberIds)
  BY TrieFields, RestrictType
<1>11. skept \in PartialFunctions(Skeletons, Handles)
  BY TrieFields, RestrictType
<1>12. /\ hadd \in PartialFunctions(Handles, MemberIds)
       /\ sadd \in PartialFunctions(Skeletons, Handles)
  BY <1>5, IndexTypes
<1>13. root \in Roots
  <2>1. Restrict(t.root, DOMAIN t.root \ d.removed) \in Roots
    BY TrieFields, RestrictType DEF Roots
  <2>. QED  BY <2>1, DeltaIds, OverlayType DEF Roots, Patch
<1>14. DOMAIN kept \cap DOMAIN added = {}
  BY <1>5, <1>9, DeltaIds
<1>15. DOMAIN skept \cap DOMAIN sadd = {}
  <2>1. /\ DOMAIN skept = SkeletonsOf(kept, DOMAIN kept)
        /\ DOMAIN sadd = SkeletonsOf(added, DOMAIN added)
    BY <1>7, <1>8 DEF Agree
  <2>2. \A i \in DOMAIN added, j \in DOMAIN kept :
          Skeleton[added[i].handle] # Skeleton[kept[j].handle]
    <3>1. \A i \in C, j \in DOMAIN t.root \ R :
            Skeleton[d.upserted[i].handle] # Skeleton[t.root[j].handle]
      BY AcceptedDistinct
    <3>. HIDE DEF kept, added, C, R
    <3>. QED  BY <1>5, <1>9, <3>1
  <2>. HIDE DEF kept, added, skept, sadd
  <2>. QED  BY <2>1, <2>2 DEF SkeletonsOf
<1>16. /\ DOMAIN root = DOMAIN Overlay(kept, added)
       /\ \A i \in DOMAIN root : root[i].handle = Overlay(kept, added)[i].handle
  <2>1. /\ DOMAIN root = (DOMAIN t.root \ d.removed) \cup DOMAIN d.upserted
        /\ \A i \in DOMAIN d.upserted : root[i] = d.upserted[i]
        /\ \A i \in DOMAIN t.root \ (d.removed \cup DOMAIN d.upserted) : root[i] = t.root[i]
    BY DEF Patch, Overlay, Restrict
  <2>2. /\ DOMAIN Overlay(kept, added) = DOMAIN kept \cup C
        /\ \A i \in C : Overlay(kept, added)[i] = d.upserted[i]
        /\ \A i \in DOMAIN kept : Overlay(kept, added)[i] = t.root[i]
    <3>. HIDE DEF kept, added
    <3>. QED  BY <1>5, <1>9, <1>14 DEF Overlay
  <2>3. DOMAIN kept = (DOMAIN t.root \ d.removed) \ C
    BY <1>9, DeltaIds
  <2>4. DOMAIN root = DOMAIN Overlay(kept, added)
    <3>. HIDE DEF kept, added, root, C
    <3>1. DOMAIN d.upserted \ C \subseteq DOMAIN t.root \ d.removed
      BY DeltaIds DEF C
    <3>2. C \subseteq DOMAIN d.upserted
      BY <1>4
    <3>. QED  BY <2>1, <2>2, <2>3, <3>1, <3>2
  <2>5. ASSUME NEW i \in DOMAIN root
        PROVE  root[i].handle = Overlay(kept, added)[i].handle
    <3>1. CASE i \in C
      BY <1>4, <2>1, <2>2, <3>1
    <3>2. CASE i \in DOMAIN d.upserted \ C
      <4>1. i \in DOMAIN t.root /\ t.root[i].handle = d.upserted[i].handle
        BY <3>2, DeltaIds
      <4>2. i \in DOMAIN kept
        BY <2>3, <3>2, <4>1, DeltaIds
      <4>. HIDE DEF kept, added, root, C
      <4>. QED  BY <2>1, <2>2, <3>2, <4>1, <4>2
    <3>3. CASE i \notin DOMAIN d.upserted
      <4>1. i \in DOMAIN kept /\ i \in DOMAIN t.root \ (d.removed \cup DOMAIN d.upserted)
        BY <1>4, <2>1, <2>3, <3>3
      <4>. HIDE DEF kept, added, root, C
      <4>. QED  BY <2>1, <2>2, <4>1
    <3>. QED  BY <3>1, <3>2, <3>3
  <2>. QED  BY <2>4, <2>5
<1>. HIDE DEF kept, hkept, skept, added, hadd, sadd, root
<1>17. Agree(Overlay(kept, added), Overlay(hkept, hadd), Overlay(skept, sadd))
  BY <1>7, <1>8, <1>14, <1>15, OverlayAgrees
<1>18. Agree(root, Overlay(hkept, hadd), Overlay(skept, sadd))
  BY <1>16, <1>17, SameHandlesAgree
<1>19. Overlay(hkept, hadd) \in PartialFunctions(Handles, MemberIds)
  BY <1>10, <1>12, OverlayType
<1>20. Overlay(skept, sadd) \in PartialFunctions(Skeletons, Handles)
  BY <1>11, <1>12, OverlayType
<1>. QED  BY <1>1, <1>2, <1>3, <1>13, <1>18, <1>19, <1>20

\* The candidate's counter is the number of its members.
LEMMA ApplyCount ==
  ASSUME NEW t, TrieOK(t), NEW d \in Delta, CanonicalDelta(t, d)
  PROVE  t.member_count - Cardinality(d.removed)
           + Cardinality(DOMAIN d.upserted \ DOMAIN t.root)
         = Cardinality(DOMAIN Patch(t.root, d))
<1>. DEFINE D == DOMAIN t.root
            N == DOMAIN d.upserted \ D
            K == D \ d.removed
<1>1. DOMAIN Patch(t.root, d) = K \cup N
  <2>1. DOMAIN Patch(t.root, d) = K \cup DOMAIN d.upserted
    BY DEF Patch, Overlay, Restrict
  <2>. QED  BY <2>1, DeltaIds
<1>2. IsFiniteSet(D) /\ IsFiniteSet(DOMAIN d.upserted)
  BY TrieFields, DeltaIds, RootIs
<1>3. IsFiniteSet(K) /\ IsFiniteSet(N) /\ IsFiniteSet(d.removed)
  BY <1>2, DeltaIds, FS_Subset
<1>4. K \cap N = {} /\ K \cap d.removed = {} /\ K \cup d.removed = D
  BY DeltaIds
<1>. HIDE DEF K, N, D
<1>5. Cardinality(K \cup N) = Cardinality(K) + Cardinality(N) - Cardinality(K \cap N)
  BY <1>3, FS_Union
<1>6. Cardinality(D) = Cardinality(K) + Cardinality(d.removed) - Cardinality(K \cap d.removed)
  BY <1>3, <1>4, FS_Union
<1>7. Cardinality(K \cap N) = 0 /\ Cardinality(K \cap d.removed) = 0
  BY <1>4, FS_EmptySet
<1>8. /\ Cardinality(K) \in Nat /\ Cardinality(N) \in Nat /\ Cardinality(d.removed) \in Nat
      /\ t.member_count = Cardinality(D)
  BY <1>3, FS_CardinalityType, TrieFields DEF D
<1>9. /\ Cardinality(K \cup N) = Cardinality(K) + Cardinality(N)
      /\ Cardinality(D) = Cardinality(K) + Cardinality(d.removed)
  BY <1>5, <1>6, <1>7, <1>8
<1>10. t.member_count - Cardinality(d.removed) + Cardinality(N) = Cardinality(K \cup N)
  BY <1>8, <1>9
<1>. QED  BY <1>1, <1>10 DEF N, D

\* What an "Ok" of apply_delta has checked.
LEMMA ApplyAccepted ==
  ASSUME NEW t, NEW d, ApplyDeltaVerdict(t, d) = "Ok"
  PROVE  /\ t.cached_root_hash = {d.base_root}
         /\ CanonicalDelta(t, d)
         /\ \A i \in Rehandled(t, d) : UpsertAccepted(t, d, i)
BY DEF ApplyDeltaVerdict

\* apply_delta produces a trustworthy trie from a trustworthy one.
LEMMA ApplyTrie ==
  ASSUME NEW t, TrieOK(t), NEW d \in Delta, ApplyDeltaVerdict(t, d) = "Ok"
  PROVE  TrieOK(ApplyDelta(t, d))
<1>1. CanonicalDelta(t, d) /\ \A i \in Rehandled(t, d) : UpsertAccepted(t, d, i)
  BY ApplyAccepted
<1>. DEFINE c == ApplyDelta(t, d)
<1>2. /\ c.root \in Roots
      /\ c.handle_index \in PartialFunctions(Handles, MemberIds)
      /\ c.skeleton_index \in PartialFunctions(Skeletons, Handles)
      /\ Agree(c.root, c.handle_index, c.skeleton_index)
  BY <1>1, ApplyAgrees
<1>3. /\ c.last_calculated_root = c.root /\ c.cached_root_hash = {c.root}
      /\ c.root = Patch(t.root, d)
      /\ c.member_count = t.member_count - Cardinality(d.removed)
                            + Cardinality(DOMAIN d.upserted \ DOMAIN t.root)
  BY DEF ApplyDelta, RootHash
<1>4. c.member_count = Cardinality(DOMAIN c.root)
  BY <1>1, <1>3, ApplyCount
<1>5. c = [root |-> c.root, member_count |-> c.member_count,
           cached_root_hash |-> c.cached_root_hash,
           last_calculated_root |-> c.last_calculated_root,
           skeleton_index |-> c.skeleton_index, handle_index |-> c.handle_index]
  BY DEF ApplyDelta
<1>6. c.cached_root_hash \in {NoHash} \cup {{h} : h \in Roots}
  BY <1>2, <1>3
<1>. HIDE DEF c
<1>7. TrieOK([root |-> c.root, member_count |-> c.member_count,
              cached_root_hash |-> c.cached_root_hash,
              last_calculated_root |-> c.last_calculated_root,
              skeleton_index |-> c.skeleton_index, handle_index |-> c.handle_index])
  BY <1>2, <1>3, <1>4, <1>6, TrieFrom
<1>. QED  BY <1>5, <1>7 DEF c
=============================================================================
