-------------------------- MODULE HierarchicalKeyList --------------------------
(***************************************************************************)
(* HierarchicalKeyListModel (libkleo/src/models/keylistmodel.cpp): the     *)
(* item model behind the certificate tree, in which a certificate is below *)
(* the one that issued it, if that is there, and at the top level if not.  *)
(* Certificates come in any order, alone or in batches, again when the     *)
(* key cache was refreshed, and are removed one at a time.                 *)
(*                                                                         *)
(* The vectors of the code are sorted by fingerprint and hold a            *)
(* fingerprint once; here they are sets of keys.  The loop of doAddKeys()  *)
(* is one action per key, because views, proxies and selection models      *)
(* follow its signals in between.  What has been signalled to them is      *)
(* kept in the variable view.                                              *)
(***************************************************************************)
EXTENDS Naturals, FiniteSets

CONSTANTS
    Fpr,            \* fingerprints
    NoIssuer        \* an empty chain ID: a root, or an issuer nobody knows

ASSUME FprAssumption == IsFiniteSet(Fpr) /\ NoIssuer \notin Fpr

VARIABLES
    issuerOf,       \* what gpgsm says: the chain ID of each certificate
    mKeysByFingerprint,     \* all keys
    mTopLevels,             \* the keys at the top level
    mKeysByExistingParent,  \* per fingerprint; {}: there is no such entry
    mKeysByNonExistingParent,
    oldKeys,        \* doAddKeys(): the fingerprints there before it
    toAdd,          \* doAddKeys(): the keys its loop has not come to
    view,           \* the rows announced: <<fingerprint of the parent, own>>
    relisted        \* history: the model has keys that are listed differently now

listVars == <<mKeysByFingerprint, mTopLevels, mKeysByExistingParent,
              mKeysByNonExistingParent>>
loopVars == <<oldKeys, toAdd>>
vars     == <<issuerOf, listVars, loopVars, view, relisted>>

Key == [fpr : Fpr, issuer : Fpr \cup {NoIssuer}]
KeyOf(f) == [fpr |-> f, issuer |-> issuerOf[f]]

Fprs(keys) == {k.fpr : k \in keys}
Without(keys, fs) == {k \in keys : k.fpr \notin fs}

\* A vector into which keys have been inserted, or replace those there.
With(keys, new) == Without(keys, Fprs(new)) \cup new

\* cleanChainID() follows certificates upwards and comes to an end.
Acyclic(issuer) ==
    \E rank \in [Fpr -> 1 .. Cardinality(Fpr)] :
        \A f \in Fpr : issuer[f] # NoIssuer => rank[issuer[f]] < rank[f]

NoGroups == [f \in Fpr |-> {}]

Init ==
    /\ issuerOf \in {i \in [Fpr -> Fpr \cup {NoIssuer}] : Acyclic(i)}
    /\ mKeysByFingerprint = {} /\ mTopLevels = {}
    /\ mKeysByExistingParent = NoGroups /\ mKeysByNonExistingParent = NoGroups
    /\ oldKeys = {} /\ toAdd = {}
    /\ view = {} /\ relisted = FALSE

-----------------------------------------------------------------------------
(* doMapFromKey() *)

\* Where index(k) looks for k: among the subjects of its issuer, if it has any.
Siblings(k, topLevels, existing) ==
    IF k.issuer # NoIssuer /\ existing[k.issuer] # {}
      THEN existing[k.issuer] ELSE topLevels

IsIndexed(k, topLevels, existing) == k.fpr \in Fprs(Siblings(k, topLevels, existing))

\* The row of the key with fingerprint f when it is a parent; a model index
\* that is not valid stands for the top level.
ParentRow(f, keys, topLevels, existing) ==
    IF \E p \in keys : p.fpr = f /\ IsIndexed(p, topLevels, existing)
      THEN f ELSE NoIssuer

-----------------------------------------------------------------------------
(* doAddKeys() *)

StartAdding(new, old) ==
    /\ mKeysByFingerprint' = With(old, new)
    /\ oldKeys' = Fprs(old)
    /\ toAdd' = new

\* addKey() or addKeys(), as far as the loop
AddKeys(fs) ==
    /\ toAdd = {}
    /\ StartAdding({KeyOf(f) : f \in fs}, mKeysByFingerprint)
    /\ UNCHANGED <<issuerOf, mTopLevels, mKeysByExistingParent,
                   mKeysByNonExistingParent, view, relisted>>

\* setKeys(): the views forget their rows, clear() resets the model
SetKeys(fs) ==
    /\ toAdd = {}
    /\ StartAdding({KeyOf(f) : f \in fs}, {})
    /\ mTopLevels' = {}
    /\ mKeysByExistingParent' = NoGroups /\ mKeysByNonExistingParent' = NoGroups
    /\ view' = {} /\ relisted' = FALSE
    /\ UNCHANGED issuerOf

AnyOrder(k) == TRUE         \* fault: no topological_sort()
ParentFirst(k) == k.issuer \notin Fprs(toAdd)

NoOrphans(k) == {}          \* fault: mKeysByNonExistingParent not looked at
Orphans(k) ==
    IF k.fpr \in oldKeys THEN {} ELSE mKeysByNonExistingParent[k.fpr]

\* Step 1: k's children leave the top level (and mKeysByFingerprint).
KeysWithoutOrphans(k) == Without(mKeysByFingerprint, Fprs(Orphans(k)))
TopWithOrphans(k) == mTopLevels                         \* fault: not erased
TopWithoutOrphans(k) == Without(mTopLevels, Fprs(Orphans(k)))

\* Step 2: k goes below its issuer, or to the top level,
HasParent(k) == k.issuer \in Fprs(KeysWithoutOrphans(k))

TopWithKey(k) ==
    IF HasParent(k) THEN TopWithoutOrphans(k) ELSE With(TopWithoutOrphans(k), {k})

SubjectsWithKey(k) ==
    IF HasParent(k)
      THEN [mKeysByExistingParent EXCEPT ![k.issuer] = With(@, {k})]
      ELSE mKeysByExistingParent

\* or waits there for its issuer.
WaitingWithKey(k) ==
    [f \in Fpr |->
        IF f = k.fpr THEN {}
        ELSE IF f = k.issuer /\ ~HasParent(k)
               THEN With(mKeysByNonExistingParent[f], {k})
               ELSE mKeysByNonExistingParent[f]]

\* The row k is announced in, unless it is there already.
RowsOfKey(k) ==
    IF HasParent(k)
      THEN {<<ParentRow(k.issuer, KeysWithoutOrphans(k), TopWithoutOrphans(k),
                        mKeysByExistingParent), f>> :
               f \in {k.fpr} \ Fprs(mKeysByExistingParent[k.issuer])}
      ELSE {<<NoIssuer, f>> : f \in {k.fpr} \ Fprs(TopWithoutOrphans(k))}

RowsOfOrphans(k) ==
    {<<ParentRow(k.fpr, KeysWithoutOrphans(k), TopWithKey(k), SubjectsWithKey(k)), f>> :
        f \in Fprs(Orphans(k)) \ Fprs(SubjectsWithKey(k)[k.fpr])}

\* Step 3: addKeys(children), which finds k as the issuer of each of them.
AddNext(k) ==
    /\ k \in toAdd /\ ParentFirst(k)
    /\ toAdd' = toAdd \ {k}
    /\ mKeysByFingerprint' = With(KeysWithoutOrphans(k), Orphans(k))
    /\ mTopLevels' = TopWithKey(k)
    /\ mKeysByExistingParent' =
         [SubjectsWithKey(k) EXCEPT ![k.fpr] = With(@, Orphans(k))]
    /\ mKeysByNonExistingParent' = WaitingWithKey(k)
    /\ view' = (view \ {<<NoIssuer, f>> : f \in Fprs(Orphans(k))})
               \cup RowsOfKey(k) \cup RowsOfOrphans(k)
    /\ UNCHANGED <<issuerOf, oldKeys, relisted>>

-----------------------------------------------------------------------------
(* doRemoveKey() *)

\* The key cache says which key goes; its record may be newer than the one here.
Removable == mKeysByFingerprint \cup {KeyOf(f) : f \in Fpr}

\* A key with subjects: the model is set anew without it.
RemoveParent(k) ==
    /\ toAdd = {}
    /\ IsIndexed(k, mTopLevels, mKeysByExistingParent)
    /\ mKeysByExistingParent[k.fpr] # {}
    /\ StartAdding(Without(mKeysByFingerprint, {k.fpr}), {})
    /\ mTopLevels' = {}
    /\ mKeysByExistingParent' = NoGroups /\ mKeysByNonExistingParent' = NoGroups
    /\ view' = {}
    /\ UNCHANGED <<issuerOf, relisted>>

LeafKept(k, groups) == groups            \* fault: erased from mTopLevels only
LeafWithout(k, groups) ==
    [p \in Fpr |-> IF p = k.issuer THEN Without(groups[p], {k.fpr}) ELSE groups[p]]

\* The row that is announced as removed: the one index(k) found.
RowsOfLeaf(k) ==
    {<<ParentRow(j.issuer, mKeysByFingerprint, mTopLevels, mKeysByExistingParent), j.fpr>> :
        j \in {i \in Siblings(k, mTopLevels, mKeysByExistingParent) : i.fpr = k.fpr}}

\* A leaf is taken out wherever k says it is; one row is announced as removed.
RemoveLeaf(k) ==
    /\ toAdd = {}
    /\ IsIndexed(k, mTopLevels, mKeysByExistingParent)
    /\ mKeysByExistingParent[k.fpr] = {}
    /\ mKeysByFingerprint' = Without(mKeysByFingerprint, {k.fpr})
    /\ mTopLevels' = Without(mTopLevels, {k.fpr})
    /\ mKeysByExistingParent' = LeafWithout(k, mKeysByExistingParent)
    /\ mKeysByNonExistingParent' = LeafWithout(k, mKeysByNonExistingParent)
    /\ view' = view \ RowsOfLeaf(k)
    /\ UNCHANGED <<issuerOf, loopVars, relisted>>

-----------------------------------------------------------------------------
\* gpgsm has found the certificate that issued f, so f will be listed with it.
IssuerFound(f, p) ==
    /\ toAdd = {}
    /\ issuerOf[f] = NoIssuer
    /\ issuerOf' = [issuerOf EXCEPT ![f] = p]
    /\ Acyclic(issuerOf')
    /\ relisted' = (relisted \/ f \in Fprs(mKeysByFingerprint))
    /\ UNCHANGED <<listVars, loopVars, view>>

Next ==
    \/ \E fs \in SUBSET Fpr : (fs # {} /\ AddKeys(fs)) \/ SetKeys(fs)
    \/ \E k \in toAdd : AddNext(k)
    \/ \E k \in Removable : RemoveParent(k) \/ RemoveLeaf(k)
    \/ \E f, p \in Fpr : IssuerFound(f, p)

Spec == Init /\ [][Next]_vars

-----------------------------------------------------------------------------
(* Properties *)

TypeOK ==
    /\ issuerOf \in [Fpr -> Fpr \cup {NoIssuer}]
    /\ mKeysByFingerprint \subseteq Key /\ mTopLevels \subseteq Key
    /\ mKeysByExistingParent \in [Fpr -> SUBSET Key]
    /\ mKeysByNonExistingParent \in [Fpr -> SUBSET Key]
    /\ oldKeys \subseteq Fpr /\ toAdd \subseteq mKeysByFingerprint
    /\ view \subseteq (Fpr \cup {NoIssuer}) \X Fpr /\ relisted \in BOOLEAN

\* The keys that have a place: all but the new ones the loop has not come to.
Placed == {k \in mKeysByFingerprint : k \in toAdd => k.fpr \in oldKeys}

\* However keys came and went, and whatever issuers gpgsm found for keys that
\* were here already: every key has a row and no other has; only a key has rows
\* below it, and those are its own subjects; and the top level is what has, as
\* it was listed there, no issuer here.  (The same key may be at both places: see
\* relisted.)
Subjects(p) == mKeysByExistingParent[p]
NothingIsLost ==
    /\ Fprs(mTopLevels) \cup UNION {Fprs(Subjects(p)) : p \in Fpr} = Fprs(Placed)
    /\ \A p \in Fpr : Subjects(p) # {} => p \in Fprs(Placed)
    /\ \A p \in Fpr : \A k \in Subjects(p) : k = KeyOf(k.fpr) /\ k.issuer = p
    /\ \A k \in mTopLevels : k.issuer \notin Fprs(Placed)

EveryKeyInPlace ==
    /\ \A f \in Fpr :
          LET subjects == {k \in Placed : k.issuer = f} IN
          IF f \in Fprs(Placed)
            THEN /\ mKeysByExistingParent[f] = subjects
                 /\ mKeysByNonExistingParent[f] = {}
            ELSE /\ mKeysByExistingParent[f] = {}
                 /\ mKeysByNonExistingParent[f] = subjects
    /\ mTopLevels = {k \in Placed : k.issuer \notin Fprs(Placed)}

\* Unless such a key has been added: every key is in the tree once, below its
\* issuer if that is in the tree, and otherwise at the top level, from where it
\* will be fetched when its issuer comes.
TreeIsRight == ~relisted => EveryKeyInPlace

\* The rows of the model, as rowCount() and index() give them.
Rows == {<<NoIssuer, f>> : f \in Fprs(mTopLevels)}
        \cup UNION {{<<p, f>> : f \in Fprs(mKeysByExistingParent[p])} : p \in Fpr}

\* Whoever follows the signals has all rows of the model, after every key, and no
\* others.  (Of a key with two rows only one is announced when it is removed.)
ViewFollows == Rows \subseteq view /\ (~relisted => view = Rows)

\* rowMoved(key, i) for i from children.size() - 1 to 0: the children are the
\* only rows below their new parent, so that these are the rows they are in.
MovedRowsMatch ==
    [][\A k \in toAdd : AddNext(k) /\ Orphans(k) # {} =>
          mKeysByExistingParent'[k.fpr] = Orphans(k)]_vars
=============================================================================
