---------------------- MODULE HierarchicalKeyListProofs ----------------------
(***************************************************************************)
(* Proofs about HierarchicalKeyList, for any set of certificates, any      *)
(* issuers, and issuers that are found when the certificate is already in  *)
(* the model.                                                              *)
(***************************************************************************)
EXTENDS HierarchicalKeyList, FiniteSetTheorems, TLAPS

\* No two certificates issued each other, or one itself.
NoLoop == \A f \in Fpr : issuerOf[f] # NoIssuer => issuerOf[issuerOf[f]] # f

\* The invariant.  A record is what gpgsm says now, or older: then it has no
\* issuer yet.
Current(k) == k = KeyOf(k.fpr)
KeysInv ==
    /\ \A k \in mKeysByFingerprint \cup mTopLevels : k.issuer \in {NoIssuer, issuerOf[k.fpr]}
    /\ \A j, k \in mKeysByFingerprint : j.fpr = k.fpr => j = k

\* Subjects are below an issuer that is there, ...
SubjectsInv ==
    \A p \in Fpr : \A k \in mKeysByExistingParent[p] :
        k \in Placed /\ Current(k) /\ k.issuer = p /\ p \in Fprs(Placed)

\* ... or at the top level and wait for one that is not, ...
WaitingInv ==
    \A p \in Fpr : \A k \in mKeysByNonExistingParent[p] :
        /\ k \in Placed /\ Current(k) /\ k.issuer = p /\ p \notin Fprs(Placed)
        /\ k \in mTopLevels

\* ... and nobody else who is there has an issuer.
TopInv ==
    \A k \in mTopLevels :
        k.fpr \in Fprs(Placed) /\ (k.issuer # NoIssuer => k \in mKeysByNonExistingParent[k.issuer])

ShownInv ==
    \A f \in Fprs(Placed) :
        f \in Fprs(mTopLevels) \/ \E p \in Fpr : f \in Fprs(mKeysByExistingParent[p])

\* A key that comes again with an issuer is put there when the loop comes to it.
AttachedInv ==
    \A k \in Placed : k.issuer # NoIssuer /\ (k \in toAdd => ~relisted) =>
        k \in mKeysByExistingParent[k.issuer] \cup mKeysByNonExistingParent[k.issuer]

StaleInv == ~relisted => \A k \in mKeysByFingerprint \cup mTopLevels : Current(k)

TreeInv == /\ KeysInv /\ SubjectsInv /\ WaitingInv /\ TopInv /\ ShownInv
           /\ AttachedInv /\ StaleInv

IInv == TypeOK /\ NoLoop /\ TreeInv

-----------------------------------------------------------------------------
(* Lemmas *)

\* Ranks exclude short loops.
LEMMA NoShortLoop ==
    ASSUME NEW issuer \in [Fpr -> Fpr \cup {NoIssuer}], Acyclic(issuer),
           NEW f \in Fpr, issuer[f] # NoIssuer
    PROVE  issuer[issuer[f]] # f
<1>1. PICK rank \in [Fpr -> 1 .. Cardinality(Fpr)] :
         \A g \in Fpr : issuer[g] # NoIssuer => rank[issuer[g]] < rank[g]
  BY DEF Acyclic
<1>2. \A g \in Fpr : rank[g] \in Nat
  BY <1>1, FS_CardinalityType, FprAssumption
<1>3. issuer[f] \in Fpr /\ f # NoIssuer
  BY FprAssumption
<1>4. ASSUME issuer[issuer[f]] = f PROVE FALSE
  <2>1. rank[issuer[f]] < rank[f] /\ rank[f] < rank[issuer[f]]
    BY <1>1, <1>3, <1>4
  <2> QED
    BY <1>2, <1>3, <2>1
<1> QED
  BY <1>4

LEMMA InFprs == \A a, f : f \in Fprs(a) <=> \E j \in a : j.fpr = f
BY DEF Fprs

LEMMA InWithout ==
    \A a, fs, j : j \in Without(a, fs) <=> j \in a /\ j.fpr \notin fs
BY DEF Without

LEMMA InWith ==
    \A a, b, j : j \in With(a, b) <=> j \in b \/ (j \in a /\ j.fpr \notin Fprs(b))
BY DEF With, Without

LEMMA WithTypes ==
    ASSUME NEW a \in SUBSET Key, NEW b \in SUBSET Key, NEW fs
    PROVE  With(a, b) \in SUBSET Key /\ Without(a, fs) \in SUBSET Key
BY DEF With, Without

LEMMA KeyParts ==
    ASSUME TypeOK, NEW k \in Key
    PROVE  /\ k.fpr \in Fpr /\ k.issuer \in Fpr \cup {NoIssuer}
           /\ Current(k) <=> k.issuer = issuerOf[k.fpr]
BY DEF TypeOK, Key, KeyOf, Current

LEMMA PlacedParts ==
    ASSUME TypeOK
    PROVE  /\ Placed \subseteq mKeysByFingerprint /\ Fprs(Placed) \subseteq Fpr
           /\ NoIssuer \notin Fprs(Placed)
           /\ toAdd = {} => Placed = mKeysByFingerprint
BY FprAssumption DEF TypeOK, Placed, Fprs, Key

LEMMA ParentRowType ==
    ASSUME NEW f, NEW keys, NEW top, NEW existing
    PROVE  ParentRow(f, keys, top, existing) \in {f, NoIssuer}
BY DEF ParentRow

\* index() finds every key that is not about to be placed: where it looks is
\* where that key is.
LEMMA SettledIsIndexed ==
    ASSUME IInv, NEW j \in mKeysByFingerprint, j \notin toAdd
    PROVE  /\ IsIndexed(j, mTopLevels, mKeysByExistingParent)
           /\ j.issuer = NoIssuer \/ mKeysByExistingParent[j.issuer] = {} => j.fpr \in Fprs(mTopLevels)
           /\ j.issuer # NoIssuer /\ mKeysByExistingParent[j.issuer] # {}
                => j.fpr \in Fprs(mKeysByExistingParent[j.issuer])
<1> USE DEF IInv, TreeInv
<1>1. j \in Placed /\ j.fpr \in Fprs(Placed) /\ j \in Key
  BY DEF Placed, Fprs, TypeOK
<1>2. j.fpr \in Fpr /\ j.issuer \in Fpr \cup {NoIssuer}
  BY <1>1, KeyParts
<1>3. CASE j.issuer = NoIssuer
  <2>1. ASSUME NEW p \in Fpr, NEW i \in mKeysByExistingParent[p], i.fpr = j.fpr PROVE FALSE
    <3>1. i \in mKeysByFingerprint /\ i.issuer = p
      BY PlacedParts DEF SubjectsInv
    <3> QED
      BY <1>3, <2>1, <3>1, FprAssumption DEF KeysInv
  <2>2. j.fpr \in Fprs(mTopLevels)
    BY <1>1, <2>1, InFprs DEF ShownInv
  <2> QED
    BY <1>3, <2>2 DEF IsIndexed, Siblings
<1>4. CASE j.issuer # NoIssuer /\ j \in mKeysByExistingParent[j.issuer]
  <2>1. j.fpr \in Fprs(mKeysByExistingParent[j.issuer])
    BY <1>4, InFprs
  <2> QED
    BY <1>4, <2>1 DEF IsIndexed, Siblings
<1>5. CASE j.issuer # NoIssuer /\ j \in mKeysByNonExistingParent[j.issuer]
  <2>1. j \in mTopLevels /\ j.issuer \notin Fprs(Placed)
    BY <1>2, <1>5 DEF WaitingInv
  <2>2. mKeysByExistingParent[j.issuer] = {}
    BY <1>2, <1>5, <2>1 DEF SubjectsInv
  <2>3. j.fpr \in Fprs(mTopLevels)
    BY <2>1, InFprs
  <2> QED
    BY <2>2, <2>3 DEF IsIndexed, Siblings
<1> QED
  BY <1>1, <1>3, <1>4, <1>5 DEF AttachedInv

-----------------------------------------------------------------------------
(* One step of the loop of doAddKeys() *)

\* What it finds.
LEMMA NextKey ==
    ASSUME IInv, NEW k \in toAdd, ParentFirst(k)
    PROVE  /\ k \in mKeysByFingerprint /\ k \in Key
           /\ k.fpr \in Fpr /\ k.issuer \in Fpr \cup {NoIssuer} /\ k.issuer # k.fpr
           /\ k.issuer # NoIssuer => Current(k)
           /\ k \in Placed <=> k.fpr \in Fprs(Placed)
           /\ Orphans(k) = mKeysByNonExistingParent[k.fpr]
           /\ Orphans(k) # {} => k.fpr \notin Fprs(Placed)
           /\ \A o \in Orphans(k) :
                 /\ o \in Placed /\ o \in mTopLevels /\ Current(o) /\ o.issuer = k.fpr
                 /\ o.fpr # k.fpr /\ o.fpr # k.issuer
           /\ HasParent(k) <=> k.issuer \in Fprs(Placed)
<1> USE DEF IInv, TreeInv
<1>1. k \in mKeysByFingerprint /\ k \in Key
  BY DEF TypeOK
<1>2. k.fpr \in Fpr /\ k.issuer \in Fpr \cup {NoIssuer}
  BY <1>1, KeyParts
<1>3. k.issuer = NoIssuer \/ k.issuer = issuerOf[k.fpr]
  BY <1>1 DEF KeysInv
<1>4. k.issuer # NoIssuer => Current(k) /\ issuerOf[k.issuer] # k.fpr /\ k.issuer # k.fpr
  BY <1>1, <1>2, <1>3, KeyParts DEF NoLoop
<1>5. k.issuer # k.fpr
  BY <1>2, <1>4, FprAssumption
<1>6. k \in Placed <=> k.fpr \in Fprs(Placed)
  <2>1. ASSUME NEW j \in Placed, j.fpr = k.fpr PROVE j = k
    BY <1>1, <2>1, PlacedParts DEF KeysInv
  <2> QED
    BY <2>1, InFprs
<1>7. k \in Placed <=> k.fpr \in oldKeys
  BY <1>1 DEF Placed
<1>8. Orphans(k) = mKeysByNonExistingParent[k.fpr]
  BY <1>2, <1>6, <1>7 DEF Orphans, WaitingInv
<1>9. Orphans(k) # {} => k.fpr \notin Fprs(Placed)
  BY <1>2, <1>8 DEF WaitingInv
<1>10. ASSUME NEW o \in Orphans(k)
       PROVE  /\ o \in Placed /\ o \in mTopLevels /\ Current(o) /\ o.issuer = k.fpr
              /\ o.fpr # k.fpr /\ o.fpr # k.issuer
  <2>1. o \in Placed /\ o \in mTopLevels /\ Current(o) /\ o.issuer = k.fpr
    BY <1>2, <1>8 DEF WaitingInv
  <2>2. o \in Key /\ o.fpr \in Fprs(Placed)
    BY <2>1, InFprs DEF TypeOK
  <2>3. issuerOf[o.fpr] = k.fpr
    BY <2>1, <2>2, KeyParts
  <2>4. o.fpr # k.fpr
    BY <1>9, <2>2
  <2>5. o.fpr # k.issuer
    BY <1>2, <1>4, <2>2, <2>3, KeyParts, FprAssumption
  <2> QED
    BY <2>1, <2>4, <2>5
<1>11. HasParent(k) <=> k.issuer \in Fprs(Placed)
  <2>1. ASSUME NEW j \in KeysWithoutOrphans(k), j.fpr = k.issuer PROVE j \in Placed
    <3>1. j \in mKeysByFingerprint /\ j \notin toAdd
      BY <2>1, InWithout, InFprs, Zenon DEF KeysWithoutOrphans, ParentFirst
    <3> QED
      BY <3>1 DEF Placed
  <2>2. ASSUME NEW j \in Placed, j.fpr = k.issuer PROVE j \in KeysWithoutOrphans(k)
    <3>1. j.fpr \notin Fprs(Orphans(k))
      BY <1>10, <2>2, InFprs
    <3> QED
      BY <3>1, InWithout, PlacedParts, Zenon DEF KeysWithoutOrphans
  <2> QED
    BY <2>1, <2>2, InFprs DEF HasParent
<1> QED
  BY <1>1, <1>2, <1>4, <1>5, <1>6, <1>8, <1>9, <1>10, <1>11

\* What it leaves.
LEMMA AddNextEffect ==
    ASSUME IInv, NEW k \in toAdd, AddNext(k)
    PROVE  /\ mKeysByFingerprint' = mKeysByFingerprint
           /\ Placed' = Placed \cup {k}
           /\ \A p \in Fpr : \A j : j \in mKeysByExistingParent'[p] <=>
                 \/ j \in mKeysByExistingParent[p]
                 \/ j = k /\ HasParent(k) /\ p = k.issuer
                 \/ j \in Orphans(k) /\ p = k.fpr
           /\ \A p \in Fpr : \A j : j \in mKeysByNonExistingParent'[p] <=>
                 /\ p # k.fpr
                 /\ \/ j \in mKeysByNonExistingParent[p]
                    \/ j = k /\ ~HasParent(k) /\ p = k.issuer
           /\ \A j : j \in mTopLevels' <=>
                 \/ /\ j \in mTopLevels /\ j.fpr \notin Fprs(Orphans(k))
                    /\ HasParent(k) \/ j.fpr # k.fpr
                 \/ j = k /\ ~HasParent(k)
<1> USE DEF IInv, TreeInv
<1>1. ParentFirst(k)
  BY DEF AddNext
<1>2. k \in mKeysByFingerprint /\ k \in Key /\ k.fpr \in Fpr /\ k.issuer # k.fpr
  BY <1>1, NextKey
<1>3. HasParent(k) => k.issuer \in Fpr
  BY <1>1, NextKey, PlacedParts
<1>4. \A j \in mKeysByFingerprint : j.fpr = k.fpr => j = k
  BY <1>2 DEF KeysInv
<1>5. \A p \in Fpr : \A j \in mKeysByExistingParent[p] \cup mKeysByNonExistingParent[p] :
         j \in mKeysByFingerprint
  BY PlacedParts DEF SubjectsInv, WaitingInv
<1>6. Fprs({k}) = {k.fpr}
  BY DEF Fprs
<1>7. mKeysByFingerprint' = mKeysByFingerprint
  <2>1. ASSUME NEW j
        PROVE  j \in With(KeysWithoutOrphans(k), Orphans(k)) <=> j \in mKeysByFingerprint
    <3>1. \A o \in Orphans(k) : o \in mKeysByFingerprint
      BY <1>1, NextKey, PlacedParts
    <3>2. j \in mKeysByFingerprint /\ j.fpr \in Fprs(Orphans(k)) => j \in Orphans(k)
      BY <3>1, InFprs DEF KeysInv
    <3>3. j \in KeysWithoutOrphans(k) <=> j \in mKeysByFingerprint /\ j.fpr \notin Fprs(Orphans(k))
      BY InWithout DEF KeysWithoutOrphans
    <3>4. j \in With(KeysWithoutOrphans(k), Orphans(k)) <=>
             j \in Orphans(k) \/ (j \in KeysWithoutOrphans(k) /\ j.fpr \notin Fprs(Orphans(k)))
      BY InWith, Zenon
    <3> QED
      BY <3>1, <3>2, <3>3, <3>4
  <2> QED
    BY <2>1 DEF AddNext
<1>8. Placed' = Placed \cup {k}
  BY <1>2, <1>7 DEF AddNext, Placed
<1>9. ASSUME NEW p \in Fpr, NEW j
      PROVE  j \in SubjectsWithKey(k)[p] <=>
                \/ j \in mKeysByExistingParent[p]
                \/ j = k /\ HasParent(k) /\ p = k.issuer
  <2>1. CASE HasParent(k) /\ p = k.issuer
    <3>1. SubjectsWithKey(k)[p] = With(mKeysByExistingParent[p], {k})
      BY <2>1 DEF SubjectsWithKey, TypeOK
    <3> QED
      <4>1. j \in With(mKeysByExistingParent[p], {k})
               <=> j = k \/ (j \in mKeysByExistingParent[p] /\ j.fpr # k.fpr)
        BY <1>6, InWith
      <4>2. j \in mKeysByExistingParent[p] /\ j.fpr = k.fpr => j = k
        BY <1>4, <1>5
      <4> QED
        BY <1>2, <2>1, <3>1, <4>1, <4>2
  <2>2. CASE ~(HasParent(k) /\ p = k.issuer)
    BY <2>2 DEF SubjectsWithKey, TypeOK
  <2> QED
    BY <2>1, <2>2
<1>10. DOMAIN SubjectsWithKey(k) = Fpr
  BY DEF SubjectsWithKey, TypeOK
<1>11. ASSUME NEW p \in Fpr, NEW j
       PROVE  j \in mKeysByExistingParent'[p] <=>
                 \/ j \in mKeysByExistingParent[p]
                 \/ j = k /\ HasParent(k) /\ p = k.issuer
                 \/ j \in Orphans(k) /\ p = k.fpr
  <2>1. CASE p = k.fpr
    <3>1. mKeysByExistingParent'[p] = With(SubjectsWithKey(k)[p], Orphans(k))
      BY <1>10, <2>1 DEF AddNext
    <3>2. Orphans(k) # {} => mKeysByExistingParent[p] = {}
      BY <1>1, <2>1, NextKey DEF SubjectsInv
    <3>3. Fprs({}) = {}
      BY DEF Fprs
    <3>4. j \in SubjectsWithKey(k)[p] <=> j \in mKeysByExistingParent[p]
      BY <1>2, <1>9, <2>1
    <3> QED
      <4>1. j \in mKeysByExistingParent'[p] <=>
              j \in Orphans(k) \/ (j \in SubjectsWithKey(k)[p] /\ j.fpr \notin Fprs(Orphans(k)))
        BY <3>1, InWith
      <4>2. Orphans(k) = {} => j.fpr \notin Fprs(Orphans(k))
        BY <3>3
      <4> QED
        BY <1>2, <2>1, <3>2, <3>4, <4>1, <4>2
  <2>2. CASE p # k.fpr
    <3>1. mKeysByExistingParent'[p] = SubjectsWithKey(k)[p]
      BY <1>10, <2>2 DEF AddNext
    <3> QED
      BY <1>9, <2>2, <3>1
  <2> QED
    BY <2>1, <2>2
<1>12. ASSUME NEW p \in Fpr, NEW j
       PROVE  j \in mKeysByNonExistingParent'[p] <=>
                 /\ p # k.fpr
                 /\ \/ j \in mKeysByNonExistingParent[p]
                    \/ j = k /\ ~HasParent(k) /\ p = k.issuer
  <2>1. mKeysByNonExistingParent'[p] =
           IF p = k.fpr THEN {}
           ELSE IF p = k.issuer /\ ~HasParent(k)
                  THEN With(mKeysByNonExistingParent[p], {k})
                  ELSE mKeysByNonExistingParent[p]
    BY DEF AddNext, WaitingWithKey
  <2>2. j \in With(mKeysByNonExistingParent[p], {k}) <=> j \in mKeysByNonExistingParent[p] \/ j = k
    BY <1>4, <1>5, <1>6, InWith
  <2> QED
    BY <2>1, <2>2
<1>13. ASSUME NEW j
       PROVE  j \in mTopLevels' <=>
                 \/ /\ j \in mTopLevels /\ j.fpr \notin Fprs(Orphans(k))
                    /\ HasParent(k) \/ j.fpr # k.fpr
                 \/ j = k /\ ~HasParent(k)
  <2>1. j \in TopWithoutOrphans(k) <=> j \in mTopLevels /\ j.fpr \notin Fprs(Orphans(k))
    BY InWithout DEF TopWithoutOrphans
  <2>2. mTopLevels' = IF HasParent(k) THEN TopWithoutOrphans(k)
                                      ELSE With(TopWithoutOrphans(k), {k})
    BY DEF AddNext, TopWithKey
  <2>3. j \in With(TopWithoutOrphans(k), {k})
           <=> j = k \/ (j \in TopWithoutOrphans(k) /\ j.fpr # k.fpr)
    BY <1>6, InWith
  <2> QED
    BY <2>1, <2>2, <2>3
<1> QED
  BY <1>7, <1>8, <1>11, <1>12, <1>13

LEMMA AddNextTypes ==
    ASSUME IInv, NEW k \in toAdd, AddNext(k)
    PROVE  TypeOK'
<1> USE DEF IInv
<1>1. k \in Key /\ k.fpr \in Fpr /\ k.issuer \in Fpr \cup {NoIssuer}
  BY DEF TypeOK, Key
<1>2. Orphans(k) \in SUBSET Key /\ Fprs(Orphans(k)) \subseteq Fpr
  <2>1. Orphans(k) \in SUBSET Key
    BY <1>1 DEF Orphans, TypeOK
  <2> QED
    BY <2>1 DEF Fprs, Key
<1>3. KeysWithoutOrphans(k) \in SUBSET Key /\ TopWithoutOrphans(k) \in SUBSET Key
  BY WithTypes DEF TypeOK, KeysWithoutOrphans, TopWithoutOrphans
<1>4. TopWithKey(k) \in SUBSET Key
  BY <1>1, <1>3, WithTypes DEF TopWithKey
<1>5. HasParent(k) => k.issuer \in Fpr
  BY <1>3 DEF HasParent, Fprs, Key
<1>6. SubjectsWithKey(k) \in [Fpr -> SUBSET Key]
  <2>1. CASE HasParent(k)
    <3>1. mKeysByExistingParent[k.issuer] \in SUBSET Key
      BY <1>5, <2>1 DEF TypeOK
    <3>2. With(mKeysByExistingParent[k.issuer], {k}) \in SUBSET Key
      BY <1>1, <3>1, WithTypes
    <3> QED
      BY <2>1, <3>2 DEF SubjectsWithKey, TypeOK
  <2> QED
    BY <2>1 DEF SubjectsWithKey, TypeOK
<1>7. mKeysByExistingParent' \in [Fpr -> SUBSET Key]
  <2>1. With(SubjectsWithKey(k)[k.fpr], Orphans(k)) \in SUBSET Key
    BY <1>1, <1>2, <1>6, WithTypes
  <2> QED
    BY <1>1, <1>6, <2>1 DEF AddNext
<1>8. mKeysByNonExistingParent' \in [Fpr -> SUBSET Key]
  <2>1. \A f \in Fpr : With(mKeysByNonExistingParent[f], {k}) \in SUBSET Key
    BY <1>1, WithTypes DEF TypeOK
  <2> QED
    BY <2>1 DEF AddNext, WaitingWithKey, TypeOK
<1>9. RowsOfKey(k) \subseteq (Fpr \cup {NoIssuer}) \X Fpr
  BY <1>1, ParentRowType DEF RowsOfKey
<1>10. RowsOfOrphans(k) \subseteq (Fpr \cup {NoIssuer}) \X Fpr
  BY <1>1, <1>2, ParentRowType DEF RowsOfOrphans
<1>11. mKeysByFingerprint' = mKeysByFingerprint
  BY AddNextEffect
<1> QED
  BY <1>4, <1>7, <1>8, <1>9, <1>10, <1>11 DEF AddNext, TypeOK

LEMMA AddNextKeeps ==
    ASSUME IInv, NEW k \in toAdd, AddNext(k)
    PROVE  IInv'
<1> USE DEF IInv, TreeInv
<1>1. ParentFirst(k) /\ toAdd' = toAdd \ {k} /\ issuerOf' = issuerOf /\ relisted' = relisted
  BY DEF AddNext
<1>2. \A j : Current(j)' <=> Current(j)
  BY <1>1 DEF Current, KeyOf
<1>3. /\ k \in mKeysByFingerprint /\ k \in Key
      /\ k.fpr \in Fpr /\ k.issuer \in Fpr \cup {NoIssuer} /\ k.issuer # k.fpr
      /\ k.issuer # NoIssuer => Current(k)
      /\ Orphans(k) = mKeysByNonExistingParent[k.fpr]
      /\ \A o \in Orphans(k) :
            o \in Placed /\ Current(o) /\ o.issuer = k.fpr /\ o.fpr # k.fpr
      /\ HasParent(k) <=> k.issuer \in Fprs(Placed)
  BY <1>1, NextKey
<1>4. /\ mKeysByFingerprint' = mKeysByFingerprint /\ Placed' = Placed \cup {k}
      /\ \A j : j \in mTopLevels' <=>
            \/ /\ j \in mTopLevels /\ j.fpr \notin Fprs(Orphans(k))
               /\ HasParent(k) \/ j.fpr # k.fpr
            \/ j = k /\ ~HasParent(k)
  BY AddNextEffect
<1>5. \A p \in Fpr : \A j : j \in mKeysByExistingParent'[p] <=>
         \/ j \in mKeysByExistingParent[p]
         \/ j = k /\ HasParent(k) /\ p = k.issuer
         \/ j \in Orphans(k) /\ p = k.fpr
  BY AddNextEffect
<1>6. \A p \in Fpr : \A j : j \in mKeysByNonExistingParent'[p] <=>
         /\ p # k.fpr
         /\ \/ j \in mKeysByNonExistingParent[p]
            \/ j = k /\ ~HasParent(k) /\ p = k.issuer
  BY AddNextEffect
<1>7. \A f : f \in Fprs(Placed') <=> f \in Fprs(Placed) \/ f = k.fpr
  BY <1>4, InFprs
<1>8. NoIssuer \notin Fprs(Placed) /\ Placed \subseteq mKeysByFingerprint
  BY PlacedParts
<1>9. \A i, j \in mKeysByFingerprint : i.fpr = j.fpr => i = j
  BY DEF KeysInv
<1>10. KeysInv'
  BY <1>1, <1>3, <1>4 DEF KeysInv
<1>11. SubjectsInv'
  <2> SUFFICES ASSUME NEW p \in Fpr, NEW j \in mKeysByExistingParent'[p]
               PROVE  j \in Placed' /\ Current(j) /\ j.issuer = p /\ p \in Fprs(Placed')
    BY <1>2 DEF SubjectsInv
  <2>1. CASE j \in mKeysByExistingParent[p]
    BY <1>4, <1>7, <2>1 DEF SubjectsInv
  <2>2. CASE j = k /\ HasParent(k) /\ p = k.issuer
    BY <1>3, <1>4, <1>7, <1>8, <2>2
  <2>3. CASE j \in Orphans(k) /\ p = k.fpr
    BY <1>3, <1>4, <1>7, <2>3
  <2> QED
    BY <1>5, <2>1, <2>2, <2>3
<1>12. WaitingInv'
  <2> SUFFICES ASSUME NEW p \in Fpr, NEW j \in mKeysByNonExistingParent'[p]
               PROVE  /\ j \in Placed' /\ Current(j) /\ j.issuer = p /\ p \notin Fprs(Placed')
                      /\ j \in mTopLevels'
    BY <1>2 DEF WaitingInv
  <2>1. p # k.fpr
    BY <1>6
  <2>2. CASE j = k /\ ~HasParent(k) /\ p = k.issuer
    BY <1>3, <1>4, <1>7, <2>1, <2>2, FprAssumption
  <2>3. CASE j \in mKeysByNonExistingParent[p]
    <3>1. /\ j \in Placed /\ Current(j) /\ j.issuer = p /\ p \notin Fprs(Placed)
          /\ j \in mTopLevels
      BY <2>3 DEF WaitingInv
    <3>2. j.fpr \notin Fprs(Orphans(k))
      BY <1>3, <1>8, <1>9, <2>1, <3>1, InFprs
    <3>3. j.fpr = k.fpr => j = k
      BY <1>3, <1>8, <1>9, <3>1
    <3> QED
      BY <1>4, <1>7, <2>1, <3>1, <3>2, <3>3
  <2> QED
    BY <1>6, <2>2, <2>3
<1>13. TopInv'
  <2> SUFFICES ASSUME NEW j \in mTopLevels'
               PROVE  /\ j.fpr \in Fprs(Placed')
                      /\ j.issuer # NoIssuer => j \in mKeysByNonExistingParent'[j.issuer]
    BY DEF TopInv
  <2>1. CASE j = k /\ ~HasParent(k)
    BY <1>3, <1>6, <1>7, <2>1
  <2>2. CASE j \in mTopLevels /\ j.fpr \notin Fprs(Orphans(k))
    <3>1. j.fpr \in Fprs(Placed) /\ j.issuer \in Fpr \cup {NoIssuer}
      BY <2>2, KeyParts DEF TopInv, TypeOK
    <3>2. j.issuer # NoIssuer => j \in mKeysByNonExistingParent[j.issuer]
      BY <2>2 DEF TopInv
    <3>3. j.issuer # k.fpr
      BY <1>3, <2>2, <3>2, InFprs, FprAssumption
    <3> QED
      BY <1>6, <1>7, <3>1, <3>2, <3>3
  <2> QED
    BY <1>4, <2>1, <2>2
<1>14. ShownInv'
  <2> SUFFICES ASSUME NEW f \in Fprs(Placed')
               PROVE  f \in Fprs(mTopLevels') \/ \E p \in Fpr : f \in Fprs(mKeysByExistingParent'[p])
    BY DEF ShownInv
  <2>1. CASE f = k.fpr /\ HasParent(k)
    BY <1>3, <1>5, <1>8, <2>1, InFprs
  <2>2. CASE f = k.fpr /\ ~HasParent(k)
    BY <1>4, <2>2, InFprs
  <2>3. CASE f # k.fpr /\ f \in Fprs(Orphans(k))
    BY <1>3, <1>5, <2>3, InFprs
  <2>4. CASE f # k.fpr /\ f \notin Fprs(Orphans(k))
    <3>1. f \in Fprs(mTopLevels) \/ \E p \in Fpr : f \in Fprs(mKeysByExistingParent[p])
      BY <1>7, <2>4 DEF ShownInv
    <3>2. CASE f \in Fprs(mTopLevels)
      BY <1>4, <2>4, <3>2, InFprs
    <3>3. ASSUME NEW p \in Fpr, f \in Fprs(mKeysByExistingParent[p])
          PROVE  f \in Fprs(mKeysByExistingParent'[p])
      BY <1>5, <3>3, InFprs
    <3> QED
      BY <3>1, <3>2, <3>3
  <2> QED
    BY <2>1, <2>2, <2>3, <2>4
<1>15. AttachedInv'
  <2> SUFFICES ASSUME NEW j \in Placed', j.issuer # NoIssuer, j \in toAdd' => ~relisted
               PROVE  j \in mKeysByExistingParent'[j.issuer] \cup mKeysByNonExistingParent'[j.issuer]
    BY <1>1 DEF AttachedInv
  <2>1. CASE j = k
    BY <1>3, <1>5, <1>6, <2>1
  <2>2. CASE j # k
    <3>1. j \in Placed /\ (j \in toAdd => ~relisted)
      BY <1>1, <1>4, <2>2
    <3>2. j.issuer \in Fpr
      BY <1>8, <3>1, KeyParts DEF TypeOK
    <3>3. j \in mKeysByExistingParent[j.issuer] \cup mKeysByNonExistingParent[j.issuer]
      BY <3>1 DEF AttachedInv
    <3> QED
      BY <1>3, <1>5, <1>6, <3>2, <3>3
  <2> QED
    BY <2>1, <2>2
<1>16. StaleInv'
  BY <1>1, <1>2, <1>3, <1>4 DEF StaleInv
<1>17. NoLoop'
  BY <1>1 DEF NoLoop
<1> QED
  BY <1>10, <1>11, <1>12, <1>13, <1>14, <1>15, <1>16, <1>17, AddNextTypes

-----------------------------------------------------------------------------
(* The other steps *)

\* Keys that come, one or many: those that are new have no place yet, and those
\* that are known keep theirs.
LEMMA AddKeysKeeps ==
    ASSUME IInv, NEW fs \in SUBSET Fpr, AddKeys(fs)
    PROVE  IInv'
<1> USE DEF IInv, TreeInv
<1> DEFINE new == {KeyOf(f) : f \in fs}
<1>1. /\ \A k : k \in new <=> Current(k) /\ k.fpr \in fs /\ k \in Key
      /\ new \in SUBSET Key
  BY DEF KeyOf, Current, Key, TypeOK
<1>2. /\ mKeysByFingerprint' = With(mKeysByFingerprint, new) /\ toAdd' = new
      /\ oldKeys' = Fprs(mKeysByFingerprint) /\ toAdd = {}
      /\ UNCHANGED <<issuerOf, mTopLevels, mKeysByExistingParent,
                     mKeysByNonExistingParent, view, relisted>>
  BY DEF AddKeys, StartAdding
<1> HIDE DEF new
<1>3. \A j : j \in mKeysByFingerprint' <=>
         j \in new \/ (j \in mKeysByFingerprint /\ j.fpr \notin Fprs(new))
  BY <1>2, InWith
<1>4. TypeOK'
  <2>1. mKeysByFingerprint' \in SUBSET Key
    BY <1>1, <1>2, WithTypes DEF TypeOK
  <2>2. Fprs(mKeysByFingerprint) \subseteq Fpr
    BY DEF TypeOK, Fprs, Key
  <2>3. toAdd' \subseteq mKeysByFingerprint'
    BY <1>2, <1>3
  <2> QED
    BY <1>2, <2>1, <2>2, <2>3 DEF TypeOK
<1>5. Placed = mKeysByFingerprint
  BY <1>2, PlacedParts
<1>6. \A j : j \in Placed' <=> j \in mKeysByFingerprint' /\ j.fpr \in Fprs(Placed)
  <2>1. ASSUME NEW j \in mKeysByFingerprint', j \notin new PROVE j.fpr \in Fprs(Placed)
    BY <1>3, <1>5, <2>1, InFprs
  <2> QED
    BY <1>2, <1>5, <2>1 DEF Placed
<1>7. \A j \in Placed : Current(j) => j \in Placed'
  <2> SUFFICES ASSUME NEW j \in Placed, Current(j), j.fpr \in Fprs(new) PROVE j \in new
    BY <1>3, <1>5, <1>6, InFprs
  <2>1. j.fpr \in fs
    BY <1>1, InFprs
  <2> QED
    BY <1>1, <1>5, <2>1 DEF TypeOK
<1>8. \A f : f \in Fprs(Placed') <=> f \in Fprs(Placed)
  <2>1. ASSUME NEW j \in Placed PROVE j.fpr \in Fprs(Placed')
    <3>1. CASE j.fpr \in Fprs(new)
      BY <1>3, <1>6, <2>1, <3>1, InFprs
    <3>2. CASE j.fpr \notin Fprs(new)
      BY <1>3, <1>5, <1>6, <2>1, <3>2, InFprs
    <3> QED
      BY <3>1, <3>2
  <2> QED
    BY <1>6, <2>1, InFprs
<1>9. \A j : Current(j)' <=> Current(j)
  BY <1>2 DEF Current, KeyOf
<1>10. KeysInv'
  <2>1. ASSUME NEW k \in new PROVE k.issuer = issuerOf[k.fpr]
    BY <1>1, KeyParts
  <2>2. ASSUME NEW j \in mKeysByFingerprint', NEW k \in mKeysByFingerprint', j.fpr = k.fpr
        PROVE  j = k
    <3>1. CASE j.fpr \in Fprs(new)
      BY <1>1, <1>3, <2>2, <3>1 DEF Current
    <3>2. CASE j.fpr \notin Fprs(new)
      BY <1>3, <2>2, <3>2, InFprs DEF KeysInv
    <3> QED
      BY <3>1, <3>2
  <2> QED
    BY <1>2, <1>3, <2>1, <2>2 DEF KeysInv
<1>11. SubjectsInv' /\ WaitingInv'
  BY <1>2, <1>7, <1>8, <1>9 DEF SubjectsInv, WaitingInv
<1>12. TopInv' /\ ShownInv'
  BY <1>2, <1>8 DEF TopInv, ShownInv
<1>13. AttachedInv'
  <2> SUFFICES ASSUME NEW k \in Placed', k.issuer # NoIssuer, k \in toAdd' => ~relisted
               PROVE  k \in mKeysByExistingParent[k.issuer] \cup mKeysByNonExistingParent[k.issuer]
    BY <1>2 DEF AttachedInv
  <2>1. k \in Placed
    <3>1. CASE k \in new
      <4>1. PICK j \in Placed : j.fpr = k.fpr
        BY <1>6, InFprs
      <4>2. Current(j) /\ Current(k)
        BY <1>1, <1>2, <1>5, <3>1 DEF StaleInv
      <4> QED
        BY <4>1, <4>2 DEF Current
    <3>2. CASE k \notin new
      BY <1>3, <1>5, <1>6, <3>2
    <3> QED
      BY <3>1, <3>2
  <2> QED
    BY <1>2, <2>1 DEF AttachedInv
<1>14. StaleInv'
  BY <1>1, <1>2, <1>3, <1>9 DEF StaleInv
<1>15. NoLoop'
  BY <1>2 DEF NoLoop
<1> QED
  BY <1>4, <1>10, <1>11, <1>12, <1>13, <1>14, <1>15

\* The model is cleared and filled anew (setKeys(), a parent removed).
LEMMA ResetKeeps ==
    ASSUME TypeOK, NoLoop, NEW keys \in SUBSET Key, StartAdding(keys, {}),
           \A k \in keys : k.issuer \in {NoIssuer, issuerOf[k.fpr]},
           \A j, k \in keys : j.fpr = k.fpr => j = k,
           relisted' \in BOOLEAN, ~relisted' => \A k \in keys : Current(k),
           mTopLevels' = {}, mKeysByExistingParent' = NoGroups,
           mKeysByNonExistingParent' = NoGroups, view' = {}, UNCHANGED issuerOf
    PROVE  IInv'
<1>1. mKeysByFingerprint' = keys /\ toAdd' = keys /\ oldKeys' = {}
  BY DEF StartAdding, With, Without, Fprs
<1>2. Placed' = {} /\ Fprs({}) = {}
  BY <1>1 DEF Placed, Fprs
<1>3. TypeOK' /\ NoLoop'
  BY <1>1 DEF TypeOK, NoLoop, NoGroups
<1>4. KeysInv' /\ StaleInv'
  BY <1>1 DEF KeysInv, StaleInv, Current, KeyOf
<1>5. SubjectsInv' /\ WaitingInv'
  BY DEF SubjectsInv, WaitingInv, NoGroups
<1>6. TopInv' /\ ShownInv' /\ AttachedInv'
  BY <1>2 DEF TopInv, ShownInv, AttachedInv
<1> QED
  BY <1>3, <1>4, <1>5, <1>6 DEF IInv, TreeInv

LEMMA SetKeysKeeps ==
    ASSUME IInv, NEW fs \in SUBSET Fpr, SetKeys(fs)
    PROVE  IInv'
<1> USE DEF IInv
<1> DEFINE new == {KeyOf(f) : f \in fs}
<1>1. new \in SUBSET Key /\ \A k \in new : Current(k) /\ k.issuer = issuerOf[k.fpr]
  BY DEF KeyOf, Current, Key, TypeOK
<1>2. \A j, k \in new : j.fpr = k.fpr => j = k
  BY DEF KeyOf
<1>3. /\ StartAdding(new, {}) /\ relisted' \in BOOLEAN
      /\ mTopLevels' = {} /\ mKeysByExistingParent' = NoGroups
      /\ mKeysByNonExistingParent' = NoGroups /\ view' = {} /\ UNCHANGED issuerOf
  BY DEF SetKeys
<1> HIDE DEF new
<1> QED
  BY <1>1, <1>2, <1>3, ResetKeeps

LEMMA RemoveParentKeeps ==
    ASSUME IInv, NEW k \in Removable, RemoveParent(k)
    PROVE  IInv'
<1> USE DEF IInv, TreeInv
<1> DEFINE rest == Without(mKeysByFingerprint, {k.fpr})
<1>1. rest \in SUBSET Key /\ rest \subseteq mKeysByFingerprint
  BY DEF Without, TypeOK
<1>2. /\ StartAdding(rest, {}) /\ relisted' = relisted /\ relisted \in BOOLEAN
      /\ mTopLevels' = {} /\ mKeysByExistingParent' = NoGroups
      /\ mKeysByNonExistingParent' = NoGroups /\ view' = {} /\ UNCHANGED issuerOf
  BY DEF RemoveParent, TypeOK
<1> HIDE DEF rest
<1>3. /\ \A j \in rest : j.issuer \in {NoIssuer, issuerOf[j.fpr]}
      /\ \A i, j \in rest : i.fpr = j.fpr => i = j
      /\ ~relisted' => \A j \in rest : Current(j)
  BY <1>1, <1>2 DEF KeysInv, StaleInv
<1> QED
  BY <1>1, <1>2, <1>3, ResetKeeps

\* What is erased where the key says it is, is erased wherever it is.
LEMMA RemoveLeafEffect ==
    ASSUME IInv, NEW k \in Removable, RemoveLeaf(k)
    PROVE  /\ \A p \in Fpr : \A j : j \in mKeysByExistingParent'[p] <=>
                 j \in mKeysByExistingParent[p] /\ j.fpr # k.fpr
           /\ \A p \in Fpr : \A j : j \in mKeysByNonExistingParent'[p] <=>
                 j \in mKeysByNonExistingParent[p] /\ j.fpr # k.fpr
           /\ \A j : j \in mTopLevels' <=> j \in mTopLevels /\ j.fpr # k.fpr
           /\ \A j : j \in Placed' <=> j \in Placed /\ j.fpr # k.fpr
           /\ \A f : f \in Fprs(Placed') <=> f \in Fprs(Placed) /\ f # k.fpr
<1> USE DEF IInv, TreeInv
<1>1. toAdd = {} /\ toAdd' = {} /\ Placed = mKeysByFingerprint
  BY PlacedParts DEF RemoveLeaf, loopVars
<1>2. \A a, j : j \in Without(a, {k.fpr}) <=> j \in a /\ j.fpr # k.fpr
  BY InWithout
<1>3. ASSUME NEW p \in Fpr, NEW j \in Placed, Current(j), j.issuer = p, j.fpr = k.fpr
      PROVE  p = k.issuer
  <2>1. CASE k \in mKeysByFingerprint
    BY <1>1, <1>3, <2>1 DEF KeysInv
  <2>2. CASE k \in {KeyOf(f) : f \in Fpr}
    BY <1>3, <2>2 DEF Current, KeyOf
  <2> QED
    BY <2>1, <2>2 DEF Removable
<1>4. ASSUME NEW p \in Fpr, NEW j
      PROVE  j \in mKeysByExistingParent'[p] <=> j \in mKeysByExistingParent[p] /\ j.fpr # k.fpr
  <2>1. mKeysByExistingParent'[p] =
          IF p = k.issuer THEN Without(mKeysByExistingParent[p], {k.fpr})
                          ELSE mKeysByExistingParent[p]
    BY DEF RemoveLeaf, LeafWithout
  <2>2. j \in mKeysByExistingParent[p] /\ j.fpr = k.fpr => p = k.issuer
    BY <1>3 DEF SubjectsInv
  <2> QED
    BY <1>2, <2>1, <2>2
<1>5. ASSUME NEW p \in Fpr, NEW j
      PROVE  j \in mKeysByNonExistingParent'[p] <=>
                j \in mKeysByNonExistingParent[p] /\ j.fpr # k.fpr
  <2>1. mKeysByNonExistingParent'[p] =
          IF p = k.issuer THEN Without(mKeysByNonExistingParent[p], {k.fpr})
                          ELSE mKeysByNonExistingParent[p]
    BY DEF RemoveLeaf, LeafWithout
  <2>2. j \in mKeysByNonExistingParent[p] /\ j.fpr = k.fpr => p = k.issuer
    BY <1>3 DEF WaitingInv
  <2> QED
    BY <1>2, <2>1, <2>2
<1>6. \A j : j \in mTopLevels' <=> j \in mTopLevels /\ j.fpr # k.fpr
  BY <1>2 DEF RemoveLeaf
<1>7. \A j : j \in Placed' <=> j \in Placed /\ j.fpr # k.fpr
  BY <1>1, <1>2 DEF RemoveLeaf, Placed
<1>8. \A f : f \in Fprs(Placed') <=> f \in Fprs(Placed) /\ f # k.fpr
  BY <1>7, InFprs
<1> QED
  BY <1>4, <1>5, <1>6, <1>7, <1>8

LEMMA RemoveLeafKeeps ==
    ASSUME IInv, NEW k \in Removable, RemoveLeaf(k)
    PROVE  IInv'
<1> USE DEF IInv, TreeInv
<1>1. /\ \A p \in Fpr : \A j : j \in mKeysByExistingParent'[p] <=>
            j \in mKeysByExistingParent[p] /\ j.fpr # k.fpr
      /\ \A p \in Fpr : \A j : j \in mKeysByNonExistingParent'[p] <=>
            j \in mKeysByNonExistingParent[p] /\ j.fpr # k.fpr
      /\ \A j : j \in mTopLevels' <=> j \in mTopLevels /\ j.fpr # k.fpr
  BY RemoveLeafEffect
<1>2. /\ \A j : j \in Placed' <=> j \in Placed /\ j.fpr # k.fpr
      /\ \A f : f \in Fprs(Placed') <=> f \in Fprs(Placed) /\ f # k.fpr
  BY RemoveLeafEffect
<1>3. /\ toAdd = {} /\ toAdd' = {} /\ issuerOf' = issuerOf /\ relisted' = relisted
      /\ mKeysByExistingParent[k.fpr] = {}
      /\ \A j \in mKeysByFingerprint' : j \in mKeysByFingerprint
  BY DEF RemoveLeaf, loopVars, Without
<1>4. TypeOK'
  <2>1. \A groups \in [Fpr -> SUBSET Key] : LeafWithout(k, groups) \in [Fpr -> SUBSET Key]
    BY WithTypes DEF LeafWithout
  <2>2. mKeysByFingerprint' \subseteq Key /\ mTopLevels' \subseteq Key
    BY WithTypes DEF RemoveLeaf, TypeOK
  <2> QED
    BY <2>1, <2>2 DEF RemoveLeaf, TypeOK, loopVars
<1>5. \A j : Current(j)' <=> Current(j)
  BY <1>3 DEF Current, KeyOf
<1>6. KeysInv' /\ StaleInv' /\ NoLoop'
  BY <1>1, <1>3, <1>5 DEF KeysInv, StaleInv, NoLoop
<1>7. SubjectsInv'
  BY <1>1, <1>2, <1>3, <1>5 DEF SubjectsInv
<1>8. WaitingInv'
  BY <1>1, <1>2, <1>5 DEF WaitingInv
<1>9. TopInv'
  <2> SUFFICES ASSUME NEW j \in mTopLevels'
               PROVE  /\ j.fpr \in Fprs(Placed')
                      /\ j.issuer # NoIssuer => j \in mKeysByNonExistingParent'[j.issuer]
    BY DEF TopInv
  <2>1. j.issuer \in Fpr \cup {NoIssuer}
    BY <1>1, KeyParts DEF TypeOK
  <2> QED
    BY <1>1, <1>2, <2>1 DEF TopInv
<1>10. ShownInv'
  <2> SUFFICES ASSUME NEW f \in Fprs(Placed')
               PROVE  f \in Fprs(mTopLevels') \/ \E p \in Fpr : f \in Fprs(mKeysByExistingParent'[p])
    BY DEF ShownInv
  <2> QED
    BY <1>1, <1>2, InFprs DEF ShownInv
<1>11. AttachedInv'
  <2> SUFFICES ASSUME NEW j \in Placed', j.issuer # NoIssuer
               PROVE  j \in mKeysByExistingParent'[j.issuer] \cup mKeysByNonExistingParent'[j.issuer]
    BY DEF AttachedInv
  <2>1. j \in Placed /\ j.fpr # k.fpr /\ j.issuer \in Fpr
    BY <1>2, KeyParts, PlacedParts DEF TypeOK
  <2> QED
    BY <1>1, <1>3, <2>1 DEF AttachedInv
<1> QED
  BY <1>4, <1>6, <1>7, <1>8, <1>9, <1>10, <1>11

\* A record without an issuer may be old from now on; the others are not touched.
LEMMA IssuerFoundKeeps ==
    ASSUME IInv, NEW f \in Fpr, NEW p \in Fpr, IssuerFound(f, p)
    PROVE  IInv'
<1> USE DEF IInv, TreeInv
<1>1. /\ toAdd = {} /\ issuerOf[f] = NoIssuer /\ issuerOf' = [issuerOf EXCEPT ![f] = p]
      /\ relisted' = (relisted \/ f \in Fprs(mKeysByFingerprint))
      /\ UNCHANGED <<listVars, loopVars, view>>
  BY DEF IssuerFound
<1>2. TypeOK'
  BY <1>1 DEF TypeOK, listVars, loopVars
<1>3. Placed' = Placed /\ Fprs(Placed') = Fprs(Placed) /\ Placed = mKeysByFingerprint
  BY <1>1, PlacedParts DEF Placed, listVars, loopVars
<1>4. \A j \in Key : j.fpr # f => (Current(j)' <=> Current(j))
  BY <1>1 DEF Current, KeyOf, Key, TypeOK
<1>5. \A j \in Key : Current(j) /\ j.issuer # NoIssuer => j.fpr # f
  BY <1>1, KeyParts
<1>6. NoLoop'
  BY <1>2, NoShortLoop DEF TypeOK, NoLoop, IssuerFound
<1>7. KeysInv'
  <2> SUFFICES ASSUME NEW k \in mKeysByFingerprint \cup mTopLevels
               PROVE  k.issuer \in {NoIssuer, issuerOf'[k.fpr]}
    BY <1>1 DEF KeysInv, listVars
  <2>1. k.issuer \in {NoIssuer, issuerOf[k.fpr]} /\ k.fpr \in Fpr
    BY KeyParts DEF KeysInv, TypeOK
  <2> QED
    BY <1>1, <2>1 DEF TypeOK
<1>8. SubjectsInv'
  <2> SUFFICES ASSUME NEW q \in Fpr, NEW k \in mKeysByExistingParent[q]
               PROVE  k \in Placed /\ Current(k)' /\ k.issuer = q /\ q \in Fprs(Placed)
    BY <1>1, <1>3 DEF SubjectsInv, listVars
  <2>1. k \in Placed /\ Current(k) /\ k.issuer = q /\ q \in Fprs(Placed) /\ k \in Key
    BY <1>3 DEF SubjectsInv, TypeOK
  <2> QED
    BY <1>4, <1>5, <2>1, FprAssumption
<1>9. WaitingInv'
  <2> SUFFICES ASSUME NEW q \in Fpr, NEW k \in mKeysByNonExistingParent[q]
               PROVE  /\ k \in Placed /\ Current(k)' /\ k.issuer = q /\ q \notin Fprs(Placed)
                      /\ k \in mTopLevels
    BY <1>1, <1>3 DEF WaitingInv, listVars
  <2>1. /\ k \in Placed /\ Current(k) /\ k.issuer = q /\ q \notin Fprs(Placed)
        /\ k \in mTopLevels /\ k \in Key
    BY <1>3 DEF WaitingInv, TypeOK
  <2> QED
    BY <1>4, <1>5, <2>1, FprAssumption
<1>10. TopInv' /\ ShownInv'
  BY <1>1, <1>3 DEF TopInv, ShownInv, listVars
<1>11. AttachedInv'
  BY <1>1, <1>3 DEF AttachedInv, listVars, loopVars
<1>12. StaleInv'
  <2> SUFFICES ASSUME ~relisted, f \notin Fprs(Placed),
                      NEW k \in mKeysByFingerprint \cup mTopLevels
               PROVE  Current(k)'
    BY <1>1, <1>3 DEF StaleInv, listVars
  <2>1. Current(k) /\ k \in Key /\ k.fpr \in Fprs(Placed)
    BY <1>3, InFprs DEF StaleInv, TopInv, TypeOK
  <2> QED
    BY <1>4, <2>1
<1> QED
  BY <1>2, <1>6, <1>7, <1>8, <1>9, <1>10, <1>11, <1>12

LEMMA InitIsTree == Init => IInv
<1> SUFFICES ASSUME Init PROVE IInv
  OBVIOUS
<1>1. /\ mKeysByFingerprint = {} /\ mTopLevels = {} /\ toAdd = {}
      /\ mKeysByExistingParent = NoGroups /\ mKeysByNonExistingParent = NoGroups
  BY DEF Init
<1>2. TypeOK
  BY DEF Init, TypeOK, NoGroups
<1>3. Placed = {} /\ Fprs({}) = {}
  BY <1>1 DEF Placed, Fprs
<1>4. NoLoop
  BY NoShortLoop DEF Init, NoLoop
<1> QED
  BY <1>1, <1>2, <1>3, <1>4 DEF IInv, TreeInv, KeysInv, SubjectsInv, WaitingInv, TopInv,
     ShownInv, AttachedInv, StaleInv, NoGroups

LEMMA NextKeepsTree == IInv /\ [Next]_vars => IInv'
<1> SUFFICES ASSUME IInv, [Next]_vars PROVE IInv'
  OBVIOUS
<1>1. CASE UNCHANGED vars
  <2> USE <1>1 DEF vars, listVars, loopVars, IInv, TreeInv
  <2>1. Placed' = Placed /\ \A j : Current(j)' <=> Current(j)
    BY DEF Placed, Current, KeyOf
  <2>2. TypeOK' /\ NoLoop'
    BY DEF TypeOK, NoLoop
  <2>3. KeysInv' /\ SubjectsInv' /\ WaitingInv'
    BY <2>1 DEF KeysInv, SubjectsInv, WaitingInv
  <2>4. TopInv' /\ ShownInv' /\ AttachedInv' /\ StaleInv'
    BY <2>1 DEF TopInv, ShownInv, AttachedInv, StaleInv
  <2> QED
    BY <2>2, <2>3, <2>4
<1>2. ASSUME NEW fs \in SUBSET Fpr, AddKeys(fs) \/ SetKeys(fs) PROVE IInv'
  BY <1>2, AddKeysKeeps, SetKeysKeeps
<1>3. ASSUME NEW k \in toAdd, AddNext(k) PROVE IInv'
  BY <1>3, AddNextKeeps
<1>4. ASSUME NEW k \in Removable, RemoveParent(k) \/ RemoveLeaf(k) PROVE IInv'
  BY <1>4, RemoveParentKeeps, RemoveLeafKeeps
<1>5. ASSUME NEW f \in Fpr, NEW p \in Fpr, IssuerFound(f, p) PROVE IInv'
  BY <1>5, IssuerFoundKeeps
<1> QED
  BY <1>1, <1>2, <1>3, <1>4, <1>5 DEF Next

-----------------------------------------------------------------------------
(* The theorems *)

\* Types.  They rest on the whole invariant: what waits for a key is in the
\* model, so that the loop of doAddKeys() takes no record out of it.
THEOREM TypeCorrect == Spec => []TypeOK
<1>1. IInv => TypeOK
  BY DEF IInv
<1> QED
  BY <1>1, InitIsTree, NextKeepsTree, PTL DEF Spec

\* In whatever order certificates come, come again and go, and whatever issuers
\* gpgsm finds for those in the model: each has a row and nothing else has, rows
\* are below a certificate only where it issued them and is there, and what has
\* an issuer that is there is not at the top level with it.
THEOREM NothingIsEverLost == Spec => []NothingIsLost
<1>1. IInv => NothingIsLost
  <2> SUFFICES ASSUME IInv PROVE NothingIsLost
    OBVIOUS
  <2> USE DEF IInv, TreeInv
  <2>1. ASSUME NEW f
        PROVE  f \in Fprs(mTopLevels) \cup UNION {Fprs(Subjects(p)) : p \in Fpr}
                 <=> f \in Fprs(Placed)
    <3>1. f \in Fprs(mTopLevels) => f \in Fprs(Placed)
      BY InFprs DEF TopInv
    <3>2. \A p \in Fpr : f \in Fprs(Subjects(p)) => f \in Fprs(Placed)
      BY InFprs DEF SubjectsInv, Subjects
    <3>3. f \in Fprs(Placed) => f \in Fprs(mTopLevels) \/ \E p \in Fpr : f \in Fprs(Subjects(p))
      BY DEF ShownInv, Subjects
    <3> QED
      BY <3>1, <3>2, <3>3
  <2>2. \A p \in Fpr : Subjects(p) # {} => p \in Fprs(Placed)
    BY DEF Subjects, SubjectsInv
  <2>3. \A p \in Fpr : \A k \in Subjects(p) : k = KeyOf(k.fpr) /\ k.issuer = p
    BY DEF Subjects, SubjectsInv, Current
  <2>4. ASSUME NEW k \in mTopLevels PROVE k.issuer \notin Fprs(Placed)
    <3>1. k.issuer \in Fpr \cup {NoIssuer}
      BY KeyParts DEF TypeOK
    <3> QED
      BY <3>1, PlacedParts DEF TopInv, WaitingInv
  <2> QED
    BY <2>1, <2>2, <2>3, <2>4 DEF NothingIsLost
<1> QED
  BY <1>1, InitIsTree, NextKeepsTree, PTL DEF Spec

\* As long as none of them was listed with another issuer than before, the tree
\* is the one gpgsm describes: each is in it once, below its issuer or, until
\* that comes, waiting for it at the top level.
THEOREM TreeIsAlwaysRight == Spec => []TreeIsRight
<1>1. IInv => TreeIsRight
  <2> SUFFICES ASSUME IInv, ~relisted PROVE EveryKeyInPlace
    BY DEF TreeIsRight
  <2> USE DEF IInv, TreeInv
  <2>1. /\ Placed \subseteq mKeysByFingerprint /\ NoIssuer \notin Fprs(Placed)
        /\ \A j \in Placed : j \in Key /\ j.fpr \in Fprs(Placed)
    BY PlacedParts, InFprs DEF TypeOK
  <2>2. \A k \in mKeysByFingerprint \cup mTopLevels : Current(k)
    BY DEF StaleInv
  <2>3. \A i, j : Current(i) /\ Current(j) /\ i.fpr = j.fpr => i = j
    BY DEF Current
  <2>4. ASSUME NEW f \in Fpr, NEW j \in Placed, j.issuer = f
        PROVE  j \in mKeysByExistingParent[f] \cup mKeysByNonExistingParent[f]
    BY <2>4, FprAssumption DEF AttachedInv
  <2>5. ASSUME NEW f \in Fpr, f \in Fprs(Placed)
        PROVE  /\ mKeysByExistingParent[f] = {k \in Placed : k.issuer = f}
               /\ mKeysByNonExistingParent[f] = {}
    BY <2>4, <2>5 DEF SubjectsInv, WaitingInv
  <2>6. ASSUME NEW f \in Fpr, f \notin Fprs(Placed)
        PROVE  /\ mKeysByExistingParent[f] = {}
               /\ mKeysByNonExistingParent[f] = {k \in Placed : k.issuer = f}
    BY <2>4, <2>6 DEF SubjectsInv, WaitingInv
  <2>7. ASSUME NEW j \in mTopLevels PROVE j \in Placed /\ j.issuer \notin Fprs(Placed)
    <3>1. PICK i \in Placed : i.fpr = j.fpr
      BY InFprs DEF TopInv
    <3>2. i = j
      BY <2>1, <2>2, <2>3, <3>1
    <3>3. j.issuer \in Fpr \cup {NoIssuer}
      BY KeyParts DEF TypeOK
    <3> QED
      BY <2>1, <3>2, <3>3 DEF TopInv, WaitingInv
  <2>8. ASSUME NEW j \in Placed, j.issuer \notin Fprs(Placed) PROVE j \in mTopLevels
    <3>1. CASE j.fpr \in Fprs(mTopLevels)
      BY <2>1, <2>2, <2>3, <3>1, InFprs
    <3>2. ASSUME NEW p \in Fpr, j.fpr \in Fprs(mKeysByExistingParent[p]) PROVE FALSE
      <4>1. PICK i \in mKeysByExistingParent[p] : i.fpr = j.fpr
        BY <3>2, InFprs
      <4>2. i \in Placed /\ i.issuer = p /\ p \in Fprs(Placed)
        BY <4>1 DEF SubjectsInv
      <4>3. i = j
        BY <2>1, <2>2, <2>3, <4>1, <4>2
      <4> QED
        BY <2>8, <4>2, <4>3
    <3> QED
      BY <2>1, <3>1, <3>2 DEF ShownInv
  <2>9. mTopLevels = {k \in Placed : k.issuer \notin Fprs(Placed)}
    BY <2>7, <2>8
  <2> QED
    BY <2>5, <2>6, <2>9 DEF EveryKeyInPlace
<1> QED
  BY <1>1, InitIsTree, NextKeepsTree, PTL DEF Spec

\* rowMoved(): a key that fetches its subjects from the top level has had none
\* before, so that the rows announced, counted from 0, are theirs.
THEOREM MovedRowsAlwaysMatch == Spec => MovedRowsMatch
<1>1. IInv /\ [Next]_vars =>
         [\A k \in toAdd : AddNext(k) /\ Orphans(k) # {} =>
             mKeysByExistingParent'[k.fpr] = Orphans(k)]_vars
  <2> SUFFICES ASSUME IInv, NEW k \in toAdd, AddNext(k), Orphans(k) # {}
               PROVE  mKeysByExistingParent'[k.fpr] = Orphans(k)
    BY Zenon
  <2>1. /\ ParentFirst(k) /\ k.fpr \in Fpr /\ k.issuer # k.fpr
        /\ k.fpr \notin Fprs(Placed)
    BY NextKey DEF AddNext
  <2>2. mKeysByExistingParent[k.fpr] = {}
    BY <2>1 DEF IInv, TreeInv, SubjectsInv
  <2>3. \A j : j \in mKeysByExistingParent'[k.fpr] <=> j \in Orphans(k)
    BY <2>1, <2>2, AddNextEffect
  <2>4. mKeysByExistingParent'[k.fpr] \in SUBSET Key
    BY <2>1, AddNextTypes DEF TypeOK
  <2> QED
    BY <2>3, <2>4
<1> QED
  BY <1>1, InitIsTree, NextKeepsTree, PTL DEF Spec, MovedRowsMatch

-----------------------------------------------------------------------------
(* The rows announced *)

LEMMA RowsAre ==
    /\ \A p, f : <<p, f>> \in Rows <=>
          \/ p = NoIssuer /\ f \in Fprs(mTopLevels)
          \/ p \in Fpr /\ f \in Fprs(mKeysByExistingParent[p])
    /\ \A r \in Rows : \E p, f : r = <<p, f>>
<1> DEFINE T == Fprs(mTopLevels)
           S(p) == Fprs(mKeysByExistingParent[p])
<1>1. Rows = {<<NoIssuer, f>> : f \in T} \cup UNION {{<<p, f>> : f \in S(p)} : p \in Fpr}
  BY DEF Rows
<1> HIDE DEF T, S
<1>2. /\ \A p, f : <<p, f>> \in Rows <=> (p = NoIssuer /\ f \in T) \/ (p \in Fpr /\ f \in S(p))
      /\ \A r \in Rows : \E p, f : r = <<p, f>>
  BY <1>1
<1> QED
  BY <1>2 DEF T, S

\* In the middle of a step the issuer is still found, and the key itself, too.
LEMMA NewRows ==
    ASSUME IInv, NEW k \in toAdd, AddNext(k)
    PROVE  /\ \A p, f : <<p, f>> \in RowsOfKey(k) <=>
                 /\ f = k.fpr
                 /\ \/ HasParent(k) /\ p = k.issuer /\ f \notin Fprs(mKeysByExistingParent[p])
                    \/ ~HasParent(k) /\ p = NoIssuer
                       /\ ~(f \in Fprs(mTopLevels) /\ f \notin Fprs(Orphans(k)))
           /\ \A p, f : <<p, f>> \in RowsOfOrphans(k) <=>
                 p = k.fpr /\ f \in Fprs(Orphans(k)) /\ f \notin Fprs(mKeysByExistingParent[p])
<1> USE DEF IInv, TreeInv
<1>1. ParentFirst(k)
  BY DEF AddNext
<1>2. /\ k \in mKeysByFingerprint /\ k.fpr \in Fpr
      /\ k.issuer \in Fpr \cup {NoIssuer} /\ k.issuer # k.fpr
      /\ \A o \in Orphans(k) : o.fpr # k.fpr /\ o.fpr # k.issuer
      /\ HasParent(k) <=> k.issuer \in Fprs(Placed)
  BY <1>1, NextKey
<1>3. /\ \A j : j \in KeysWithoutOrphans(k) <=>
            j \in mKeysByFingerprint /\ j.fpr \notin Fprs(Orphans(k))
      /\ \A j : j \in TopWithoutOrphans(k) <=>
            j \in mTopLevels /\ j.fpr \notin Fprs(Orphans(k))
  BY InWithout DEF KeysWithoutOrphans, TopWithoutOrphans
<1>4. \A f : f \in Fprs(TopWithoutOrphans(k)) <=> f \in Fprs(mTopLevels) /\ f \notin Fprs(Orphans(k))
  BY <1>3, InFprs
<1>5. k.fpr \notin Fprs(Orphans(k)) /\ k.issuer \notin Fprs(Orphans(k))
  BY <1>2, InFprs
<1>6. HasParent(k) => k.issuer # NoIssuer
  BY <1>2, PlacedParts
<1>7. ASSUME HasParent(k)
      PROVE  ParentRow(k.issuer, KeysWithoutOrphans(k), TopWithoutOrphans(k),
                       mKeysByExistingParent) = k.issuer
  <2>1. PICK q \in KeysWithoutOrphans(k) : q.fpr = k.issuer
    BY <1>7, InFprs DEF HasParent
  <2>2. q \in mKeysByFingerprint /\ q \notin toAdd
    BY <1>1, <1>3, <2>1, InFprs DEF ParentFirst
  <2>3. IsIndexed(q, TopWithoutOrphans(k), mKeysByExistingParent)
    BY <1>4, <1>5, <2>1, <2>2, SettledIsIndexed DEF IsIndexed, Siblings
  <2> QED
    BY <2>1, <2>3 DEF ParentRow
<1>8. ParentRow(k.fpr, KeysWithoutOrphans(k), TopWithKey(k), SubjectsWithKey(k)) = k.fpr
  <2>1. k \in KeysWithoutOrphans(k)
    BY <1>2, <1>3, <1>5
  <2>2. CASE HasParent(k)
    <3>1. k \in SubjectsWithKey(k)[k.issuer]
      BY <1>2, <1>6, <2>2 DEF SubjectsWithKey, With, TypeOK
    <3>2. IsIndexed(k, TopWithKey(k), SubjectsWithKey(k))
      BY <1>6, <2>2, <3>1, InFprs DEF IsIndexed, Siblings
    <3> QED
      BY <2>1, <3>2 DEF ParentRow
  <2>3. CASE ~HasParent(k)
    <3>1. k \in TopWithKey(k) /\ SubjectsWithKey(k) = mKeysByExistingParent
      BY <2>3 DEF TopWithKey, With, SubjectsWithKey
    <3>2. k.issuer # NoIssuer => mKeysByExistingParent[k.issuer] = {}
      BY <1>2, <2>3 DEF SubjectsInv
    <3>3. IsIndexed(k, TopWithKey(k), SubjectsWithKey(k))
      BY <3>1, <3>2, InFprs DEF IsIndexed, Siblings
    <3> QED
      BY <2>1, <3>3 DEF ParentRow
  <2> QED
    BY <2>2, <2>3
<1>9. SubjectsWithKey(k)[k.fpr] = mKeysByExistingParent[k.fpr]
  BY <1>2 DEF SubjectsWithKey, TypeOK
<1>10. ASSUME NEW p, NEW f
       PROVE  <<p, f>> \in RowsOfKey(k) <=>
                 /\ f = k.fpr
                 /\ \/ HasParent(k) /\ p = k.issuer /\ f \notin Fprs(mKeysByExistingParent[p])
                    \/ ~HasParent(k) /\ p = NoIssuer
                       /\ ~(f \in Fprs(mTopLevels) /\ f \notin Fprs(Orphans(k)))
  BY <1>4, <1>7 DEF RowsOfKey
<1>11. ASSUME NEW p, NEW f
       PROVE  <<p, f>> \in RowsOfOrphans(k) <=>
                 p = k.fpr /\ f \in Fprs(Orphans(k)) /\ f \notin Fprs(mKeysByExistingParent[p])
  BY <1>8, <1>9 DEF RowsOfOrphans
<1> QED
  BY <1>10, <1>11

\* What the model gains or loses is what is announced.
LEMMA AddNextRows ==
    ASSUME IInv, NEW k \in toAdd, AddNext(k)
    PROVE  Rows' = (Rows \ {<<NoIssuer, f>> : f \in Fprs(Orphans(k))})
                   \cup RowsOfKey(k) \cup RowsOfOrphans(k)
<1> DEFINE After == (Rows \ {<<NoIssuer, f>> : f \in Fprs(Orphans(k))})
                    \cup RowsOfKey(k) \cup RowsOfOrphans(k)
<1>1. /\ k.fpr \in Fpr /\ k.fpr \notin Fprs(Orphans(k))
      /\ HasParent(k) => k.issuer \in Fpr
  BY NextKey, PlacedParts, InFprs DEF AddNext, IInv
<1>2. \A f : f \in Fprs(mTopLevels') <=>
         \/ f \in Fprs(mTopLevels) /\ f \notin Fprs(Orphans(k))
         \/ f = k.fpr /\ ~HasParent(k)
  <2>1. \A j : j \in mTopLevels' <=>
            \/ /\ j \in mTopLevels /\ j.fpr \notin Fprs(Orphans(k))
               /\ HasParent(k) \/ j.fpr # k.fpr
            \/ j = k /\ ~HasParent(k)
    BY AddNextEffect
  <2> QED
    BY <2>1, InFprs
<1>3. \A p \in Fpr : \A f : f \in Fprs(mKeysByExistingParent'[p]) <=>
         \/ f \in Fprs(mKeysByExistingParent[p])
         \/ f = k.fpr /\ HasParent(k) /\ p = k.issuer
         \/ f \in Fprs(Orphans(k)) /\ p = k.fpr
  <2>1. \A p \in Fpr : \A j : j \in mKeysByExistingParent'[p] <=>
            \/ j \in mKeysByExistingParent[p]
            \/ j = k /\ HasParent(k) /\ p = k.issuer
            \/ j \in Orphans(k) /\ p = k.fpr
    BY AddNextEffect
  <2> QED
    BY <2>1, InFprs
<1>4. \A p, f : <<p, f>> \in Rows' <=>
         \/ p = NoIssuer /\ f \in Fprs(mTopLevels')
         \/ p \in Fpr /\ f \in Fprs(mKeysByExistingParent'[p])
  BY RowsAre DEF Rows
<1>5. \A r \in Rows' : \E p, f : r = <<p, f>>
  BY RowsAre DEF Rows
<1>6. \A r \in After : \E p, f : r = <<p, f>>
  BY RowsAre DEF RowsOfKey, RowsOfOrphans
<1>7. ASSUME NEW p, NEW f PROVE <<p, f>> \in Rows' <=> <<p, f>> \in After
  <2>1. <<p, f>> \in After <=>
           \/ <<p, f>> \in Rows /\ ~(p = NoIssuer /\ f \in Fprs(Orphans(k)))
           \/ <<p, f>> \in RowsOfKey(k) \/ <<p, f>> \in RowsOfOrphans(k)
    OBVIOUS
  <2>2. <<p, f>> \in RowsOfKey(k) <=>
           /\ f = k.fpr
           /\ \/ HasParent(k) /\ p = k.issuer /\ f \notin Fprs(mKeysByExistingParent[p])
              \/ ~HasParent(k) /\ p = NoIssuer
                 /\ ~(f \in Fprs(mTopLevels) /\ f \notin Fprs(Orphans(k)))
    BY NewRows
  <2>3. <<p, f>> \in RowsOfOrphans(k) <=>
           p = k.fpr /\ f \in Fprs(Orphans(k)) /\ f \notin Fprs(mKeysByExistingParent[p])
    BY NewRows
  <2>4. <<p, f>> \in Rows <=>
           \/ p = NoIssuer /\ f \in Fprs(mTopLevels)
           \/ p \in Fpr /\ f \in Fprs(mKeysByExistingParent[p])
    BY RowsAre
  <2> HIDE DEF After
  <2>5. CASE p = NoIssuer
    BY <1>1, <1>2, <1>4, <2>1, <2>2, <2>3, <2>4, <2>5, FprAssumption
  <2>6. CASE p \in Fpr
    BY <1>1, <1>3, <1>4, <2>1, <2>2, <2>3, <2>4, <2>6, FprAssumption
  <2>7. CASE p # NoIssuer /\ p \notin Fpr
    BY <1>1, <1>4, <2>1, <2>2, <2>3, <2>4, <2>7
  <2> QED
    BY <2>5, <2>6, <2>7
<1> HIDE DEF After
<1>8. \A r : r \in Rows' <=> r \in After
  BY <1>5, <1>6, <1>7
<1> QED
  BY <1>8 DEF After

\* beginRemoveRows(parent(idx), ...) names a row the leaf is in, and unless it
\* was listed with another issuer it is in no other.
LEMMA RemoveLeafRows ==
    ASSUME IInv, NEW k \in Removable, RemoveLeaf(k)
    PROVE  /\ Rows' \subseteq Rows \ RowsOfLeaf(k)
           /\ ~relisted => Rows' = Rows \ RowsOfLeaf(k)
<1> USE DEF IInv, TreeInv
<1>1. \A p, f : <<p, f>> \in Rows' <=> <<p, f>> \in Rows /\ f # k.fpr
  <2>1. \A p, f : <<p, f>> \in Rows' <=>
           \/ p = NoIssuer /\ f \in Fprs(mTopLevels')
           \/ p \in Fpr /\ f \in Fprs(mKeysByExistingParent'[p])
    BY RowsAre DEF Rows
  <2>2. \A f : f \in Fprs(mTopLevels') <=> f \in Fprs(mTopLevels) /\ f # k.fpr
    BY RemoveLeafEffect, InFprs
  <2>3. \A p \in Fpr : \A f : f \in Fprs(mKeysByExistingParent'[p]) <=>
           f \in Fprs(mKeysByExistingParent[p]) /\ f # k.fpr
    BY RemoveLeafEffect, InFprs
  <2> QED
    BY <2>1, <2>2, <2>3, RowsAre
<1>2. \A r \in Rows' : \E p, f : r = <<p, f>>
  BY RowsAre DEF Rows
<1>3. \A p, f : <<p, f>> \in RowsOfLeaf(k) => f = k.fpr
  BY DEF RowsOfLeaf
<1>4. Rows' \subseteq Rows \ RowsOfLeaf(k)
  BY <1>1, <1>2, <1>3
<1>5. ASSUME ~relisted PROVE \A p : <<p, k.fpr>> \in Rows => <<p, k.fpr>> \in RowsOfLeaf(k)
  <2>1. toAdd = {} /\ Placed = mKeysByFingerprint
    BY PlacedParts DEF RemoveLeaf
  <2>2. Current(k) /\ k.fpr \in Fpr /\ k.issuer \in Fpr \cup {NoIssuer}
    <3>1. CASE k \in mKeysByFingerprint
      BY <1>5, <3>1, KeyParts DEF StaleInv, TypeOK
    <3>2. CASE k \in {KeyOf(f) : f \in Fpr}
      BY <3>2 DEF Current, KeyOf, TypeOK
    <3> QED
      BY <3>1, <3>2 DEF Removable
  <2>3. \A i \in mKeysByFingerprint \cup mTopLevels : i.fpr = k.fpr => i = k
    BY <1>5, <2>2 DEF StaleInv, Current
  <2>4. RowsOfLeaf(k) =
          {<<ParentRow(j.issuer, mKeysByFingerprint, mTopLevels, mKeysByExistingParent), j.fpr>> :
             j \in {i \in Siblings(k, mTopLevels, mKeysByExistingParent) : i.fpr = k.fpr}}
    BY DEF RowsOfLeaf
  <2>5. k \in Siblings(k, mTopLevels, mKeysByExistingParent) =>
          <<ParentRow(k.issuer, mKeysByFingerprint, mTopLevels, mKeysByExistingParent), k.fpr>>
             \in RowsOfLeaf(k)
    BY <2>4
  <2>6. CASE k.fpr \in Fprs(mTopLevels)
    <3>1. k \in mTopLevels
      BY <2>3, <2>6, InFprs
    <3>2. k.issuer = NoIssuer \/ (k.issuer \notin Fprs(Placed) /\ mKeysByExistingParent[k.issuer] = {})
      BY <2>2, <3>1 DEF TopInv, WaitingInv, SubjectsInv
    <3>3. k \in Siblings(k, mTopLevels, mKeysByExistingParent)
      BY <3>1, <3>2 DEF Siblings
    <3>4. k.issuer \notin Fprs(Placed)
      BY <3>2, PlacedParts
    <3>5. ParentRow(k.issuer, mKeysByFingerprint, mTopLevels, mKeysByExistingParent) = NoIssuer
      BY <2>1, <3>4, InFprs DEF ParentRow
    <3>6. ASSUME NEW p \in Fpr PROVE k.fpr \notin Fprs(mKeysByExistingParent[p])
      BY <2>1, <2>3, <3>4, InFprs DEF SubjectsInv
    <3> QED
      BY <2>5, <3>3, <3>5, <3>6, RowsAre
  <2>7. CASE k.fpr \notin Fprs(mTopLevels)
    <3> SUFFICES ASSUME NEW p \in Fpr, k.fpr \in Fprs(mKeysByExistingParent[p])
                 PROVE  <<p, k.fpr>> \in RowsOfLeaf(k)
      BY <2>7, RowsAre
    <3>1. k \in mKeysByExistingParent[p] /\ k.issuer = p /\ p \in Fprs(Placed)
      BY <2>1, <2>3, InFprs DEF SubjectsInv
    <3>2. k \in Siblings(k, mTopLevels, mKeysByExistingParent)
      BY <3>1, FprAssumption DEF Siblings
    <3>3. PICK q \in mKeysByFingerprint : q.fpr = p
      BY <2>1, <3>1, InFprs
    <3>4. ParentRow(p, mKeysByFingerprint, mTopLevels, mKeysByExistingParent) = p
      BY <2>1, <3>3, SettledIsIndexed DEF ParentRow
    <3> QED
      BY <2>5, <3>1, <3>2, <3>4
  <2> QED
    BY <2>6, <2>7
<1>6. ASSUME ~relisted PROVE Rows \ RowsOfLeaf(k) \subseteq Rows'
  BY <1>1, <1>5, <1>6, RowsAre
<1> QED
  BY <1>4, <1>6

\* A view that follows the signals rowsInserted(), rowsRemoved() and
\* modelReset() has every row of the model, even in the middle of doAddKeys(),
\* and no other unless a certificate has two rows.
THEOREM ViewAlwaysFollows == Spec => []ViewFollows
<1> DEFINE Inv == IInv /\ ViewFollows
<1>1. Init => Inv
  <2>1. ASSUME Init PROVE ViewFollows
    <3>1. mTopLevels = {} /\ \A p \in Fpr : mKeysByExistingParent[p] = {}
      BY <2>1 DEF Init, NoGroups
    <3> QED
      BY <2>1, <3>1 DEF Init, ViewFollows, Rows, Fprs
  <2> QED
    BY <2>1, InitIsTree
<1>2. Inv /\ [Next]_vars => Inv'
  <2> SUFFICES ASSUME Inv, [Next]_vars PROVE ViewFollows'
    BY NextKeepsTree
  <2>1. ASSUME view' = {}, mTopLevels' = {}, mKeysByExistingParent' = NoGroups
        PROVE  ViewFollows'
    BY <2>1 DEF ViewFollows, Rows, Fprs, NoGroups
  <2>2. ASSUME UNCHANGED <<mTopLevels, mKeysByExistingParent, view>>, ~relisted' => ~relisted
        PROVE  ViewFollows'
    BY <2>2 DEF ViewFollows, Rows
  <2>3. ASSUME NEW fs \in SUBSET Fpr, AddKeys(fs) \/ SetKeys(fs) PROVE ViewFollows'
    BY <2>1, <2>2, <2>3 DEF AddKeys, SetKeys
  <2>4. ASSUME NEW k \in toAdd, AddNext(k) PROVE ViewFollows'
    <3>1. Rows' = (Rows \ {<<NoIssuer, f>> : f \in Fprs(Orphans(k))})
                  \cup RowsOfKey(k) \cup RowsOfOrphans(k)
      BY <2>4, AddNextRows
    <3>2. /\ view' = (view \ {<<NoIssuer, f>> : f \in Fprs(Orphans(k))})
                     \cup RowsOfKey(k) \cup RowsOfOrphans(k)
          /\ relisted' = relisted
      BY <2>4 DEF AddNext
    <3> QED
      BY <3>1, <3>2 DEF ViewFollows
  <2>5. ASSUME NEW k \in Removable, RemoveParent(k) PROVE ViewFollows'
    BY <2>1, <2>5 DEF RemoveParent
  <2>6. ASSUME NEW k \in Removable, RemoveLeaf(k) PROVE ViewFollows'
    <3>1. Rows' \subseteq Rows \ RowsOfLeaf(k) /\ (~relisted => Rows' = Rows \ RowsOfLeaf(k))
      BY <2>6, RemoveLeafRows
    <3>2. view' = view \ RowsOfLeaf(k) /\ relisted' = relisted
      BY <2>6 DEF RemoveLeaf
    <3> QED
      BY <3>1, <3>2 DEF ViewFollows
  <2>7. ASSUME NEW f \in Fpr, NEW p \in Fpr, IssuerFound(f, p) PROVE ViewFollows'
    BY <2>2, <2>7 DEF IssuerFound, listVars
  <2>8. ASSUME UNCHANGED vars PROVE ViewFollows'
    BY <2>2, <2>8 DEF vars, listVars
  <2> QED
    BY <2>3, <2>4, <2>5, <2>6, <2>7, <2>8 DEF Next
<1>3. Inv => ViewFollows
  OBVIOUS
<1> QED
  BY <1>1, <1>2, <1>3, PTL DEF Spec
=============================================================================
