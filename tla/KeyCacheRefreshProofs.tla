------------------------ MODULE KeyCacheRefreshProofs ------------------------
(***************************************************************************)
(* Proofs about KeyCacheRefresh, for every set of keys and protocols and   *)
(* every bound.                                                            *)
(***************************************************************************)
EXTENDS KeyCacheRefresh, FiniteSetTheorems, TLAPS

(***************************************************************************)
(* Types                                                                   *)
(***************************************************************************)

LEMMA ReloadTypes ==
    ASSUME TypeOK, Reloads
    PROVE  /\ watching' \in BOOLEAN /\ notice' \in BOOLEAN
           /\ canceled' \in BOOLEAN /\ gathered' \subseteq Keys
           /\ failed' \in BOOLEAN /\ listing' \in [Protocols -> Listings]
           /\ job' \in {"none", "starting", "listing", "updating", "dying"}
<1>1. CASE job = "none"
  BY <1>1, Zenon DEF TypeOK, Reloads, Reload, WatchesInRefresh
<1>2. CASE job # "none"
  BY <1>2, Zenon DEF TypeOK, Reloads, Reload, jobVars
<1> QED
  BY <1>1, <1>2

LEMMA NotListingIsAListing == NotListing \in Listings
BY DEF NotListing, Listings

LEMMA DoStartTypes ==
    ASSUME TypeOK, DoStart
    PROVE  TypeOK'
<1>1. UNCHANGED <<diskVars, notice, changeCached, cached, canceled, gathered,
                  callerVars, cancels, unread, blind>>
  BY Zenon DEF DoStart
<1>2. CASE canceled
  BY <1>1, <1>2
     DEF DoStart, TypeOK, diskVars, callerVars
<1>3. CASE ~canceled
  <2>1. PICK started \in SUBSET Protocols :
          LET unstarted == Cardinality(Protocols \ started) IN
          /\ failures + unstarted <= MaxFailures
          /\ failures' = failures + unstarted
          /\ failed' = (started # Protocols)
          /\ listing' = [p \in Protocols |->
                           IF p \in started
                             THEN [NotListing EXCEPT !.state = "started"]
                             ELSE NotListing]
          /\ IF started = {}
               THEN EmitDone
               ELSE job' = "listing" /\ UNCHANGED <<watching, initialized>>
    BY <1>3, Zenon DEF DoStart
  <2>2. failures' \in 0 .. MaxFailures
    <3>1. Cardinality(Protocols \ started) \in Nat
      BY ProtocolAssumption, FS_CardinalityType, FS_Difference
    <3> QED
      BY <2>1, <3>1, BoundAssumption DEF TypeOK
  <2>3. listing' \in [Protocols -> Listings]
    <3>1. [NotListing EXCEPT !.state = "started"] \in Listings
      BY DEF NotListing, Listings
    <3> QED
      BY <2>1, <3>1, NotListingIsAListing, Zenon
  <2>4. /\ job' \in {"none", "starting", "listing", "updating", "dying"}
        /\ watching' \in BOOLEAN /\ initialized' \in BOOLEAN
        /\ failed' \in BOOLEAN
    BY <2>1, Zenon DEF EmitDone, RefreshJobDone, TypeOK
  <2> QED
    BY <1>1, <2>2, <2>3, <2>4 DEF TypeOK, diskVars, callerVars
<1> QED
  BY <1>2, <1>3

LEMMA ListingReadsTypes ==
    ASSUME TypeOK, NEW p \in Protocols, ListingReads(p)
    PROVE  TypeOK'
<1>1. listing' \in [Protocols -> Listings]
  <2>1. ASSUME NEW part \in SUBSET Keys, NEW ok \in BOOLEAN
        PROVE  [state |-> "read", ok |-> ok, keys |-> part] \in Listings
    BY DEF Listings
  <2>2. PICK part \in SUBSET Keys, ok \in BOOLEAN :
          listing' = [listing EXCEPT
                        ![p] = [state |-> "read", ok |-> ok, keys |-> part]]
    <3>1. \A part \in SUBSET (keyring \cap KeysOf(p)) : part \in SUBSET Keys
      BY DEF TypeOK
    <3>2. keyring \cap KeysOf(p) \in SUBSET Keys
      BY DEF TypeOK
    <3> QED
      BY <3>1, <3>2, Zenon DEF ListingReads
  <2> QED
    BY <2>1, <2>2, Zenon DEF TypeOK
<1>2. failures' \in 0 .. MaxFailures
  BY BoundAssumption DEF ListingReads, TypeOK
<1>3. unread' \subseteq Keys /\ blind' \subseteq unread'
  BY DEF ListingReads, TypeOK
<1>4. UNCHANGED <<diskVars, watchVars, cacheVars, job, canceled, gathered,
                  failed, callerVars, cancels>>
  BY Zenon DEF ListingReads
<1> QED
  BY <1>1, <1>2, <1>3, <1>4
     DEF TypeOK, diskVars, watchVars, cacheVars, callerVars

LEMMA ResultArrivesTypes ==
    ASSUME TypeOK, NEW p \in Protocols, ResultArrives(p)
    PROVE  TypeOK'
<1>1. listing[p].keys \subseteq Keys /\ listing[p].ok \in BOOLEAN
  BY DEF TypeOK, Listings
<1>2. listing' \in [Protocols -> Listings]
  BY NotListingIsAListing, Zenon DEF ResultArrives, TypeOK
<1>3. gathered' \subseteq Keys
  BY <1>1 DEF ResultArrives, Merged, TypeOK
<1>4. /\ failed' \in BOOLEAN
      /\ job' \in {"none", "starting", "listing", "updating", "dying"}
  BY <1>1, Zenon DEF ResultArrives, TypeOK
<1>5. cached' \subseteq Keys
  BY <1>3, Zenon DEF ResultArrives, TypeOK
<1>6. UNCHANGED <<diskVars, watchVars, initialized, canceled, callerVars,
                  failures, cancels, unread, blind>>
  BY Zenon DEF ResultArrives
<1> QED
  BY <1>2, <1>3, <1>4, <1>5, <1>6 DEF TypeOK, diskVars, watchVars, callerVars

LEMMA TypeStep ==
    ASSUME TypeOK
    PROVE  [Next]_vars => TypeOK'
<1> USE DEF diskVars, watchVars, cacheVars, jobVars, callerVars, historyVars
<1>1. ASSUME NEW k \in Keys, KeyringChanges(k)
      PROVE  TypeOK'
  <2>1. /\ keyring' \subseteq Keys /\ unread' \subseteq Keys
        /\ blind' \subseteq unread' /\ changes' \in 0 .. MaxChanges
    BY <1>1, BoundAssumption DEF KeyringChanges, TypeOK
  <2>2. notice' \in BOOLEAN
    BY <1>1, Zenon DEF KeyringChanges, TypeOK
  <2> QED
    BY <1>1, <2>1, <2>2 DEF KeyringChanges, TypeOK
<1>2. ASSUME WatcherNotices
      PROVE  TypeOK'
  <2>1. CASE Delay
    BY <1>2, <2>1 DEF WatcherNotices, TypeOK
  <2>2. CASE ~Delay
    BY <1>2, <2>2 DEF WatcherNotices, Reload, WatchesInRefresh, TypeOK
  <2> QED
    BY <2>1, <2>2
<1>3. ASSUME WatcherTimeout \/ ClientReloads \/ AutoReload
      PROVE  TypeOK'
  <2>1. Reloads /\ changeCached' \in BOOLEAN
    BY <1>3, Zenon DEF WatcherTimeout, ClientReloads, AutoReload, TypeOK
  <2>2. UNCHANGED <<diskVars, cacheVars, callerVars, historyVars>>
    BY <1>3, Zenon DEF WatcherTimeout, ClientReloads, AutoReload
  <2> QED
    BY <2>1, <2>2, ReloadTypes DEF TypeOK
<1>4. ASSUME EnsureCachePopulated
      PROVE  TypeOK'
  <2>1. Reloads /\ loops' \in 0 .. MaxLoops
    BY <1>4, BoundAssumption DEF EnsureCachePopulated, TypeOK
  <2>2. UNCHANGED <<diskVars, changeCached, cacheVars, slotWaits, historyVars>>
    BY <1>4, Zenon DEF EnsureCachePopulated
  <2> QED
    BY <2>1, <2>2, ReloadTypes DEF TypeOK
<1>5. ASSUME LoopReturns
      PROVE  TypeOK'
  BY <1>5, BoundAssumption DEF LoopReturns, LoopMayEnd, TypeOK
<1>6. ASSUME CancelKeyListing
      PROVE  TypeOK'
  BY <1>6, BoundAssumption DEF CancelKeyListing, TypeOK
<1>7. ASSUME SlotWaits
      PROVE  TypeOK'
  BY <1>7 DEF SlotWaits, TypeOK
<1>8. ASSUME UpdateDone
      PROVE  TypeOK'
  BY <1>8 DEF UpdateDone, EmitDone, RefreshJobDone, TypeOK
<1>9. ASSUME ObjectDeleted
      PROVE  TypeOK'
  <2>1. listing' \in [Protocols -> Listings]
    BY <1>9, NotListingIsAListing, Zenon DEF ObjectDeleted
  <2> QED
    BY <1>9, <2>1 DEF ObjectDeleted, TypeOK
<1>10. ASSUME UNCHANGED vars
       PROVE  TypeOK'
  BY <1>10 DEF vars, TypeOK
<1> QED
  BY <1>1, <1>2, <1>3, <1>4, <1>5, <1>6, <1>7, <1>8, <1>9, <1>10,
     DoStartTypes, ListingReadsTypes, ResultArrivesTypes, Zenon
     DEF Next, JobRuns, WatcherRuns

LEMMA TypeInit ==
    ASSUME Init
    PROVE  TypeOK
<1>1. listing \in [Protocols -> Listings]
  BY NotListingIsAListing, Zenon DEF Init
<1>2. /\ 0 \in 0 .. MaxLoops /\ 0 \in 0 .. MaxChanges
      /\ 0 \in 0 .. MaxFailures /\ 0 \in 0 .. MaxCancels
  BY BoundAssumption
<1> QED
  BY <1>1, <1>2 DEF Init, TypeOK

\* Every variable keeps its type; the counters stay inside their bounds, and what
\* has changed blindly has changed unread.
THEOREM TypeCorrect == Spec => []TypeOK
BY TypeInit, TypeStep, PTL DEF Spec

(***************************************************************************)
(* A refresh is faithful.  A key is in the hands of the listing of its     *)
(* protocol, from its start, over the reading, to the merging of what was  *)
(* read into m_keys; meanwhile only a change can make it wrong.            *)
(***************************************************************************)

\* The listing that is responsible for the key k.
ListingOf(k) == listing[ProtocolOf[k]]

Faithful(k) ==
    /\ job = "starting" => k \notin gathered
    /\ ListingOf(k).state \in {"started", "read"} => k \notin gathered
    /\ ListingOf(k).state = "read" /\ ListingOf(k).ok =>
          k \in unread \/ (k \in ListingOf(k).keys <=> k \in keyring)
    /\ job = "listing" /\ ListingOf(k).state = "none" /\ ~failed =>
          k \in unread \/ (k \in gathered <=> k \in keyring)

FaithfulInv ==
    /\ TypeOK
    /\ \A p \in Protocols : listing[p].keys \subseteq KeysOf(p)
    /\ job \notin {"listing", "dying"} =>
          \A p \in Protocols : listing[p].state = "none"
    /\ \A k \in Keys : Faithful(k)

\* Steps that touch neither the job nor the keyring.
LEMMA FaithfulFrame ==
    ASSUME FaithfulInv, TypeOK',
           UNCHANGED <<job, gathered, failed, listing, keyring, unread>>
    PROVE  FaithfulInv'
BY Zenon DEF FaithfulInv, Faithful, ListingOf, KeysOf

LEMMA FaithfulReload ==
    ASSUME FaithfulInv, TypeOK', Reload, UNCHANGED <<keyring, unread>>
    PROVE  FaithfulInv'
<1>1. CASE job = "none"
  <2>1. /\ job' = "starting" /\ gathered' = {} /\ listing' = listing
        /\ \A p \in Protocols : listing[p].state = "none"
    BY <1>1, Zenon DEF Reload, FaithfulInv
  <2>2. ASSUME NEW k \in Keys
        PROVE  Faithful(k)'
    <3>1. ListingOf(k)'.state = "none"
      BY <2>1, ProtocolAssumption DEF ListingOf
    <3> QED
      BY <2>1, <3>1 DEF Faithful
  <2> QED
    BY <2>1, <2>2, Zenon DEF FaithfulInv, KeysOf
<1>2. CASE job # "none"
  BY <1>2, FaithfulFrame, Zenon DEF Reload, jobVars
<1> QED
  BY <1>1, <1>2

LEMMA FaithfulKeyringChanges ==
    ASSUME FaithfulInv, TypeOK', NEW c \in Keys, KeyringChanges(c)
    PROVE  FaithfulInv'
<1>1. /\ UNCHANGED <<job, gathered, failed, listing>>
      /\ unread' = unread \cup {c}
      /\ \A k \in Keys : k # c => (k \in keyring' <=> k \in keyring)
  BY DEF KeyringChanges, jobVars
<1>2. ASSUME NEW k \in Keys
      PROVE  Faithful(k)'
  <2>1. Faithful(k)
    BY Zenon DEF FaithfulInv
  <2> QED
    BY <1>1, <2>1 DEF Faithful, ListingOf
<1> QED
  BY <1>1, <1>2, Zenon DEF FaithfulInv, KeysOf

LEMMA FaithfulDoStart ==
    ASSUME FaithfulInv, TypeOK', DoStart
    PROVE  FaithfulInv'
<1>1. /\ job = "starting"
      /\ UNCHANGED <<gathered, keyring, unread>>
      /\ \A p \in Protocols : listing[p].state = "none"
  BY DEF DoStart, diskVars, FaithfulInv
<1>2. CASE canceled
  <2>1. job' = "dying" /\ listing' = listing
    BY <1>2, Zenon DEF DoStart
  <2>2. ASSUME NEW k \in Keys
        PROVE  Faithful(k)'
    <3>1. ListingOf(k)'.state = "none"
      BY <1>1, <2>1, ProtocolAssumption DEF ListingOf
    <3> QED
      BY <2>1, <3>1 DEF Faithful
  <2> QED
    BY <2>1, <2>2, Zenon DEF FaithfulInv, KeysOf
<1>3. CASE ~canceled
  <2>1. PICK started \in SUBSET Protocols :
          /\ failed' = (started # Protocols)
          /\ listing' = [p \in Protocols |->
                           IF p \in started
                             THEN [NotListing EXCEPT !.state = "started"]
                             ELSE NotListing]
          /\ job' \in {"listing", "dying"}
    BY <1>3, Zenon DEF DoStart, EmitDone
  <2>2. ASSUME NEW p \in Protocols
        PROVE  /\ listing'[p].keys = {}
               /\ listing'[p].state = IF p \in started THEN "started" ELSE "none"
    BY <2>1 DEF NotListing
  <2>3. ASSUME NEW k \in Keys
        PROVE  Faithful(k)'
    <3>1. ProtocolOf[k] \in Protocols /\ k \notin gathered'
      BY <1>1, ProtocolAssumption DEF FaithfulInv, Faithful
    <3>2. ListingOf(k)'.state \in {"started", "none"}
      BY <2>2, <3>1 DEF ListingOf
    <3>3. ASSUME ListingOf(k)'.state = "none"
          PROVE  failed'
      <4>1. ProtocolOf[k] \notin started
        BY <2>2, <3>1, <3>3 DEF ListingOf
      <4>2. started # Protocols
        BY <3>1, <4>1
      <4> QED
        BY <2>1, <4>2, Zenon
    <3> QED
      BY <2>1, <3>1, <3>2, <3>3 DEF Faithful
  <2>4. \A p \in Protocols : listing'[p].keys \subseteq KeysOf(p)'
    BY <2>2, Zenon
  <2>5. job' \in {"listing", "dying"}
    BY <2>1
  <2> QED
    BY <2>3, <2>4, <2>5, Zenon DEF FaithfulInv
<1> QED
  BY <1>2, <1>3

LEMMA FaithfulListingReads ==
    ASSUME FaithfulInv, TypeOK', NEW p \in Protocols, ListingReads(p)
    PROVE  FaithfulInv'
<1>1. PICK part \in SUBSET (keyring \cap KeysOf(p)), ok \in BOOLEAN :
        /\ listing' = [listing EXCEPT
                         ![p] = [state |-> "read", ok |-> ok, keys |-> part]]
        /\ IF ok
             THEN part = keyring \cap KeysOf(p) /\ unread' = unread \ KeysOf(p)
             ELSE unread' = unread
  <2>1. keyring \cap KeysOf(p) \in SUBSET (keyring \cap KeysOf(p))
    OBVIOUS
  <2> QED
    BY <2>1, Zenon DEF ListingReads
<1>2. /\ UNCHANGED <<job, gathered, failed, keyring>>
      /\ listing[p].state = "started"
  BY DEF ListingReads, diskVars
<1>3. /\ listing'[p] = [state |-> "read", ok |-> ok, keys |-> part]
      /\ \A q \in Protocols \ {p} : listing'[q] = listing[q]
  BY <1>1 DEF FaithfulInv, TypeOK
<1>4. ASSUME NEW k \in Keys
      PROVE  Faithful(k)'
  <2>1. Faithful(k) /\ ProtocolOf[k] \in Protocols
    BY ProtocolAssumption DEF FaithfulInv
  <2>2. CASE ProtocolOf[k] = p
    <3>1. /\ k \notin gathered' /\ ListingOf(k)'.state = "read"
          /\ ListingOf(k)'.keys = part /\ ListingOf(k)'.ok = ok
      BY <1>2, <1>3, <2>1, <2>2 DEF Faithful, ListingOf
    <3>2. ok => (k \in part <=> k \in keyring)
      BY <1>1, <2>2 DEF KeysOf
    <3> QED
      BY <1>2, <3>1, <3>2 DEF Faithful
  <2>3. CASE ProtocolOf[k] # p
    <3>1. ListingOf(k)' = ListingOf(k)
      BY <1>3, <2>1, <2>3, Zenon DEF ListingOf
    <3>2. k \in unread' <=> k \in unread
      BY <1>1, <2>3 DEF KeysOf
    <3> QED
      BY <1>2, <2>1, <3>1, <3>2 DEF Faithful
  <2> QED
    BY <2>2, <2>3
<1>5. \A q \in Protocols : listing'[q].keys \subseteq KeysOf(q)
  <2>1. listing'[p].keys \subseteq KeysOf(p)
    BY <1>1, <1>3
  <2> QED
    BY <1>3, <2>1, Zenon DEF FaithfulInv
<1>6. job \in {"listing", "dying"}
  BY <1>2, Zenon DEF FaithfulInv
<1> QED
  BY <1>2, <1>4, <1>5, <1>6, Zenon DEF FaithfulInv, KeysOf

LEMMA FaithfulResultArrives ==
    ASSUME FaithfulInv, TypeOK', NEW p \in Protocols, ResultArrives(p)
    PROVE  /\ FaithfulInv'
           /\ job = "listing" /\ job' = "updating" /\ ~failed' =>
                 Difference' \subseteq unread'
<1>1. /\ listing' = [listing EXCEPT ![p] = NotListing]
      /\ gathered' = gathered \cup listing[p].keys
      /\ UNCHANGED <<keyring, unread>>
      /\ listing[p].state = "read" /\ listing[p].keys \subseteq KeysOf(p)
      /\ job \in {"listing", "dying"}
  BY DEF ResultArrives, diskVars, Merged, FaithfulInv
<1>2. /\ listing'[p] = NotListing
      /\ \A q \in Protocols \ {p} : listing'[q] = listing[q]
  BY <1>1 DEF FaithfulInv, TypeOK
<1>3. /\ job' \in {job, "dying", "updating"}
      /\ job' = "updating" => \A q \in Protocols \ {p} : listing[q].state = "none"
      /\ job' # "dying" => failed' = (failed \/ ~listing[p].ok)
      /\ job' = "updating" => cached' = gathered'
  <2>1. CASE job' = "dying"
    BY <2>1
  <2>2. CASE job' # "dying"
    <3>1. /\ failed' = (failed \/ ~listing[p].ok)
          /\ IF IsLast(p)
               THEN job' = "updating" /\ cached' = gathered'
               ELSE job' = job
      BY <2>2, Zenon DEF ResultArrives
    <3>2. job # "updating"
      BY <1>1
    <3> QED
      BY <3>1, <3>2, Zenon DEF IsLast
  <2> QED
    BY <2>1, <2>2
<1>4. ASSUME NEW k \in Keys
      PROVE  /\ Faithful(k)'
             /\ job = "listing" /\ job' # "dying" /\ ~failed'
                  /\ ListingOf(k)'.state = "none" =>
                k \in unread \/ (k \in gathered' <=> k \in keyring)
  <2>1. Faithful(k) /\ ProtocolOf[k] \in Protocols
    BY ProtocolAssumption DEF FaithfulInv
  <2>2. CASE ProtocolOf[k] = p
    <3>1. /\ k \notin gathered /\ ListingOf(k)'.state = "none"
          /\ ListingOf(k) = listing[p]
      BY <1>1, <1>2, <2>1, <2>2 DEF Faithful, ListingOf, NotListing
    <3>2. k \in gathered' <=> k \in listing[p].keys
      BY <1>1, <3>1
    <3>3. listing[p].ok => k \in unread \/ (k \in gathered' <=> k \in keyring)
      BY <1>1, <2>1, <3>1, <3>2 DEF Faithful
    <3> QED
      BY <1>1, <1>3, <3>1, <3>3 DEF Faithful
  <2>3. CASE ProtocolOf[k] # p
    <3>1. ListingOf(k)' = ListingOf(k)
      BY <1>2, <2>1, <2>3, Zenon DEF ListingOf
    <3>2. k \in gathered' <=> k \in gathered
      BY <1>1, <2>3 DEF KeysOf
    <3> QED
      BY <1>1, <1>3, <2>1, <3>1, <3>2 DEF Faithful
  <2> QED
    BY <2>2, <2>3
<1>5. \A q \in Protocols : listing'[q].keys \subseteq KeysOf(q)
  BY <1>2 DEF FaithfulInv, NotListing
<1>6. job' \notin {"listing", "dying"} =>
         \A q \in Protocols : listing'[q].state = "none"
  BY <1>1, <1>2, <1>3 DEF NotListing
<1>7. FaithfulInv'
  BY <1>4, <1>5, <1>6, Zenon DEF FaithfulInv, KeysOf
<1>8. ASSUME job = "listing", job' = "updating", ~failed', NEW k \in Difference'
      PROVE  k \in unread'
  <2>1. k \in Keys /\ ~(k \in gathered' <=> k \in keyring)
    BY <1>1, <1>3, <1>8 DEF Difference, TypeOK
  <2>2. ListingOf(k)'.state = "none"
    BY <1>6, <1>8, <2>1, ProtocolAssumption DEF ListingOf
  <2> QED
    BY <1>1, <1>4, <1>8, <2>1, <2>2
<1> QED
  BY <1>7, <1>8

LEMMA FaithfulObjectDeleted ==
    ASSUME FaithfulInv, TypeOK', ObjectDeleted
    PROVE  FaithfulInv'
<1>1. job' = "none" /\ listing' = [p \in Protocols |-> NotListing]
  BY DEF ObjectDeleted
<1>2. \A p \in Protocols : listing'[p].keys = {} /\ listing'[p].state = "none"
  BY <1>1 DEF NotListing
<1>3. ASSUME NEW k \in Keys
      PROVE  Faithful(k)'
  <2>1. ListingOf(k)'.state = "none"
    BY <1>2, ProtocolAssumption DEF ListingOf
  <2> QED
    BY <1>1, <2>1 DEF Faithful
<1>4. \A p \in Protocols : listing'[p].keys \subseteq KeysOf(p)'
  BY <1>2, Zenon
<1> QED
  BY <1>2, <1>3, <1>4, Zenon DEF FaithfulInv

LEMMA FaithfulUpdateDone ==
    ASSUME FaithfulInv, TypeOK', UpdateDone
    PROVE  FaithfulInv'
<1>1. /\ job = "updating" /\ job' = "dying"
      /\ UNCHANGED <<gathered, failed, listing, keyring, unread>>
  BY DEF UpdateDone, EmitDone, diskVars, historyVars
<1>2. ASSUME NEW k \in Keys
      PROVE  Faithful(k)'
  <2>1. ListingOf(k).state = "none"
    BY <1>1, ProtocolAssumption DEF ListingOf, FaithfulInv
  <2> QED
    BY <1>1, <2>1 DEF Faithful, ListingOf
<1> QED
  BY <1>1, <1>2, Zenon DEF FaithfulInv, KeysOf

\* The step of the invariant, and of the property that follows from it.
LEMMA FaithfulStep ==
    ASSUME FaithfulInv, TypeOK'
    PROVE  [Next]_vars =>
              /\ FaithfulInv'
              /\ job = "listing" /\ job' = "updating" /\ ~failed' =>
                    Difference' \subseteq unread'
<1>1. ASSUME ClientReloads \/ AutoReload \/ WatcherTimeout \/ EnsureCachePopulated
      PROVE  FaithfulInv' /\ ~(job = "listing" /\ job' = "updating")
  <2>1. Reload /\ UNCHANGED <<keyring, unread>>
    BY <1>1, Zenon DEF ClientReloads, AutoReload, WatcherTimeout,
       EnsureCachePopulated, Reloads, diskVars, historyVars
  <2> QED
    BY <2>1, FaithfulReload DEF Reload, jobVars
<1>2. ASSUME WatcherNotices
      PROVE  FaithfulInv' /\ ~(job = "listing" /\ job' = "updating")
  <2>1. UNCHANGED <<keyring, unread>> /\ (Reload \/ UNCHANGED jobVars)
    BY <1>2, Zenon DEF WatcherNotices, diskVars, historyVars
  <2> QED
    BY <2>1, FaithfulReload, FaithfulFrame DEF Reload, jobVars
<1>3. ASSUME LoopReturns \/ CancelKeyListing \/ SlotWaits \/ UNCHANGED vars
      PROVE  FaithfulInv' /\ job' = job
  <2>1. UNCHANGED <<job, gathered, failed, listing, keyring, unread>>
    BY <1>3, Zenon DEF LoopReturns, CancelKeyListing, SlotWaits, vars, diskVars,
       jobVars, historyVars
  <2> QED
    BY <2>1, FaithfulFrame
<1>4. ASSUME NEW k \in Keys, KeyringChanges(k)
      PROVE  FaithfulInv' /\ job' = job
  BY <1>4, FaithfulKeyringChanges DEF KeyringChanges, jobVars
<1>5. ASSUME DoStart
      PROVE  FaithfulInv' /\ job # "listing"
  BY <1>5, FaithfulDoStart DEF DoStart
<1>6. ASSUME NEW p \in Protocols, ListingReads(p)
      PROVE  FaithfulInv' /\ job' = job
  BY <1>6, FaithfulListingReads DEF ListingReads
<1>7. ASSUME ObjectDeleted
      PROVE  FaithfulInv' /\ job # "listing"
  BY <1>7, FaithfulObjectDeleted DEF ObjectDeleted
<1>8. ASSUME UpdateDone
      PROVE  FaithfulInv' /\ job # "listing"
  BY <1>8, FaithfulUpdateDone DEF UpdateDone
<1>9. ASSUME job' = job
      PROVE  ~(job = "listing" /\ job' = "updating")
  BY <1>9
<1> QED
  BY <1>1, <1>2, <1>3, <1>4, <1>5, <1>6, <1>7, <1>8, <1>9,
     FaithfulResultArrives, Zenon DEF Next, JobRuns, WatcherRuns

LEMMA FaithfulInit == Init => FaithfulInv
<1> SUFFICES ASSUME Init
             PROVE  FaithfulInv
  OBVIOUS
<1>1. job = "none" /\ gathered = {} /\ listing = [p \in Protocols |-> NotListing]
  BY DEF Init
<1>2. \A p \in Protocols : listing[p].keys = {} /\ listing[p].state = "none"
  BY <1>1 DEF NotListing
<1>3. ASSUME NEW k \in Keys
      PROVE  Faithful(k)
  BY <1>1, <1>2, ProtocolAssumption DEF Faithful, ListingOf
<1>4. \A p \in Protocols : listing[p].keys \subseteq KeysOf(p)
  BY <1>2, Zenon
<1> QED
  BY <1>2, <1>3, <1>4, TypeInit, Zenon DEF FaithfulInv

\* A refresh without an error leaves the cache different from the keyrings only
\* in keys that have changed since their listing was made.
THEOREM RefreshesAreFaithful == Spec => RefreshIsFaithful
<1>1. FaithfulInv /\ [Next]_vars => FaithfulInv'
  BY TypeStep, FaithfulStep DEF FaithfulInv
<1>2. FaithfulInv /\ [Next]_vars =>
         [job = "listing" /\ job' = "updating" /\ ~failed' =>
            Difference' \subseteq unread']_vars
  BY TypeStep, FaithfulStep DEF FaithfulInv
<1> QED
  BY <1>1, <1>2, FaithfulInit, PTL DEF Spec, RefreshIsFaithful

(***************************************************************************)
(* The watchers are off in a refresh and on after it, unless it has been   *)
(* canceled.  That a job is canceled only by cancelKeyListing(), and that  *)
(* only a canceled job dies with listings left, makes it inductive.        *)
(***************************************************************************)

HasListings == job = "listing" \/ (job = "dying" /\ canceled)

WatchersInv ==
    /\ TypeOK
    /\ WatchersFollowRefresh
    /\ canceled => cancels # 0
    /\ \A p \in Protocols : listing[p].state # "none" => HasListings

LEMMA WatchersStep ==
    ASSUME WatchersInv, TypeOK'
    PROVE  [Next]_vars => WatchersInv'
<1> USE DEF WatchersFollowRefresh, Refreshing
<1>1. ASSUME Reload, cancels' = cancels
      PROVE  WatchersInv'
  BY <1>1 DEF WatchersInv, HasListings, Reload, WatchesInRefresh, jobVars
<1>2. ASSUME ClientReloads \/ AutoReload \/ WatcherTimeout \/ EnsureCachePopulated
      PROVE  WatchersInv'
  <2>1. Reload /\ cancels' = cancels
    BY <1>2, Zenon DEF ClientReloads, AutoReload, WatcherTimeout,
       EnsureCachePopulated, Reloads, historyVars
  <2> QED
    BY <2>1, <1>1
<1>3. ASSUME UNCHANGED <<job, watching, canceled, cancels, listing>>
      PROVE  WatchersInv'
  BY <1>3, Zenon DEF WatchersInv, HasListings
<1>4. ASSUME WatcherNotices
      PROVE  WatchersInv'
  <2>1. cancels' = cancels /\ (Reload \/ UNCHANGED <<job, watching, canceled, listing>>)
    BY <1>4, Zenon DEF WatcherNotices, jobVars, historyVars
  <2> QED
    BY <2>1, <1>1, <1>3
<1>5. ASSUME LoopReturns \/ SlotWaits \/ UNCHANGED vars
             \/ (\E k \in Keys : KeyringChanges(k))
      PROVE  WatchersInv'
  <2>1. UNCHANGED <<job, watching, canceled, cancels, listing>>
    BY <1>5, Zenon DEF LoopReturns, SlotWaits, KeyringChanges,
       vars, watchVars, jobVars, historyVars
  <2> QED
    BY <2>1, <1>3
<1>6. ASSUME CancelKeyListing
      PROVE  WatchersInv'
  <2>1. cancels' # 0
    BY <1>6, BoundAssumption DEF CancelKeyListing, WatchersInv, TypeOK
  <2>2. UNCHANGED <<job, watching, listing>> /\ canceled'
    BY <1>6 DEF CancelKeyListing, watchVars
  <2> QED
    BY <2>1, <2>2, Zenon DEF WatchersInv, HasListings
<1>7. ASSUME DoStart
      PROVE  WatchersInv'
  <2>1. job = "starting" /\ UNCHANGED <<canceled, cancels>>
    BY <1>7, Zenon DEF DoStart
  <2>2. CASE canceled
    <3>1. job' = "dying" /\ listing' = listing
      BY <1>7, <2>2, Zenon DEF DoStart
    <3> QED
      BY <2>1, <2>2, <3>1 DEF WatchersInv, HasListings
  <2>3. CASE ~canceled
    <3>1. PICK started \in SUBSET Protocols :
            /\ listing' = [p \in Protocols |->
                             IF p \in started
                               THEN [NotListing EXCEPT !.state = "started"]
                               ELSE NotListing]
            /\ IF started = {}
                 THEN job' = "dying" /\ watching' = TRUE
                 ELSE job' = "listing" /\ watching' = watching
      BY <1>7, <2>3, Zenon DEF DoStart, EmitDone, RefreshJobDone
    <3>2. CASE started = {}
      <4>1. \A p \in Protocols : listing'[p].state = "none"
        BY <3>1, <3>2 DEF NotListing
      <4> QED
        BY <2>1, <3>1, <3>2, <4>1 DEF WatchersInv
    <3>3. CASE started # {}
      BY <2>1, <3>1, <3>3 DEF WatchersInv, HasListings
    <3> QED
      BY <3>2, <3>3
  <2> QED
    BY <2>2, <2>3
<1>8. ASSUME NEW p \in Protocols, ResultArrives(p)
      PROVE  WatchersInv'
  <2>1. /\ UNCHANGED <<watching, canceled, cancels>>
        /\ \/ job' = "dying" /\ canceled
           \/ ~canceled /\ job' = job
           \/ ~canceled /\ job' = "updating" /\ IsLast(p)
        /\ listing[p].state = "read"
        /\ listing' = [listing EXCEPT ![p] = NotListing]
    BY <1>8, Zenon DEF ResultArrives, Ignored, watchVars
  <2>2. HasListings
    BY <2>1 DEF WatchersInv
  <2>3. \A q \in Protocols :
          listing'[q].state = IF q = p THEN "none" ELSE listing[q].state
    BY <2>1 DEF WatchersInv, TypeOK, NotListing
  <2>4. \A q \in Protocols : listing'[q].state # "none" => HasListings'
    BY <2>1, <2>2, <2>3 DEF HasListings, IsLast
  <2> QED
    BY <2>1, <2>2, <2>4 DEF WatchersInv, HasListings
<1>9. ASSUME ObjectDeleted
      PROVE  WatchersInv'
  <2>1. \A p \in Protocols : listing'[p].state = "none"
    BY <1>9 DEF ObjectDeleted, NotListing
  <2> QED
    BY <1>9, <2>1 DEF ObjectDeleted, WatchersInv, watchVars, historyVars
<1>10. ASSUME UpdateDone
       PROVE  WatchersInv'
  BY <1>10 DEF UpdateDone, EmitDone, RefreshJobDone, WatchersInv, HasListings,
     historyVars
<1>11. ASSUME NEW p \in Protocols, ListingReads(p)
       PROVE  WatchersInv'
  <2>1. /\ UNCHANGED <<job, watching, canceled, cancels>>
        /\ listing[p].state = "started"
        /\ \A q \in Protocols \ {p} : listing'[q] = listing[q]
    BY <1>11 DEF ListingReads, watchVars, WatchersInv, TypeOK
  <2> QED
    BY <2>1, Zenon DEF WatchersInv, HasListings
<1> QED
  BY <1>2, <1>4, <1>5, <1>6, <1>7, <1>8, <1>9, <1>10, <1>11, Zenon
     DEF Next, JobRuns, WatcherRuns

LEMMA WatchersInit ==
    ASSUME Init
    PROVE  WatchersInv
<1>1. \A p \in Protocols : listing[p].state = "none"
  BY DEF Init, NotListing
<1> QED
  BY <1>1, TypeInit
     DEF Init, WatchersInv, WatchersFollowRefresh, Refreshing

\* No watcher asks for a refresh because of what a refresh does, and the
\* watchers are back after every refresh that nobody canceled.
THEOREM WatchersAreBack == Spec => []WatchersFollowRefresh
<1>1. WatchersInv /\ [Next]_vars => WatchersInv'
  BY TypeStep, WatchersStep DEF WatchersInv
<1>2. WatchersInv => WatchersFollowRefresh
  BY DEF WatchersInv
<1> QED
  BY <1>1, <1>2, WatchersInit, PTL DEF Spec

(***************************************************************************)
(* What the cache overlooks.  A change that a watcher saw is on its way:   *)
(* noticed, or cached for the delay, or there is a refresh that has not    *)
(* read its key yet.  A notice can only be dropped by a reload() that      *)
(* starts such a refresh.  And a key about which the cache is wrong has    *)
(* changed since it was read, unless what was read is still to be merged.  *)
(***************************************************************************)

OnItsWay(k) ==
    \/ job = "none" /\ (notice \/ changeCached)
    \/ job = "dying" /\ notice
    \/ job = "starting"
    \/ job = "listing" /\ ListingOf(k).state = "started"

Pending(k) ==
    /\ k \in unread \ blind => OnItsWay(k)
    /\ k \in Difference \ unread /\ (initialized \/ job = "updating") =>
          job = "listing" /\ ListingOf(k).state # "started"

Undisturbed == failures = 0 /\ cancels = 0

RefreshInv ==
    /\ FaithfulInv /\ WatchersInv
    /\ Undisturbed => \A p \in Protocols : listing[p].ok
    /\ Undisturbed => ~failed /\ \A k \in Keys : Pending(k)

LEMMA KeysDiffer ==
    ASSUME TypeOK
    PROVE  \A k : k \in Difference <=> k \in Keys /\ ~(k \in cached <=> k \in keyring)
  BY DEF TypeOK, Difference

\* With nobody canceling, listings belong to the refresh that runs.
LEMMA NobodyCanceled ==
    ASSUME RefreshInv, Undisturbed
    PROVE  /\ ~canceled /\ (Refreshing <=> ~watching)
           /\ \A p \in Protocols : listing[p].state # "none" => job = "listing"
  BY DEF RefreshInv, WatchersInv, WatchersFollowRefresh, HasListings, Undisturbed

\* What is counted is never taken back.
LEMMA CountsGrow ==
    ASSUME TypeOK, TypeOK', [Next]_vars, Undisturbed'
    PROVE  Undisturbed
<1>t. failures \in Nat /\ cancels \in Nat
  BY BoundAssumption DEF TypeOK
<1>1. CASE DoStart
  <2>1. CASE canceled
    BY <1>1, <2>1 DEF DoStart, Undisturbed
  <2>2. CASE ~canceled
    <3>1. PICK started \in SUBSET Protocols :
            failures' = failures + Cardinality(Protocols \ started)
      BY <1>1, <2>2, Zenon DEF DoStart
    <3>2. Cardinality(Protocols \ started) \in Nat
      BY ProtocolAssumption, FS_Difference, FS_CardinalityType
    <3> QED
      BY <1>t, <1>1, <3>1, <3>2 DEF DoStart, Undisturbed
  <2> QED
    BY <2>1, <2>2
<1>2. CASE CancelKeyListing
  BY <1>t, <1>2 DEF CancelKeyListing, Undisturbed
<1>3. ASSUME NEW p \in Protocols, ListingReads(p)
      PROVE  Undisturbed
  BY <1>t, <1>3 DEF ListingReads, Undisturbed
<1>4. ASSUME UNCHANGED <<failures, cancels>> PROVE Undisturbed
  BY <1>4 DEF Undisturbed
<1> QED
  BY <1>1, <1>2, <1>3, <1>4, Zenon
     DEF Next, JobRuns, WatcherRuns, KeyringChanges, WatcherNotices, WatcherTimeout,
         UpdateDone, ObjectDeleted, ResultArrives, SlotWaits, ClientReloads,
         AutoReload, EnsureCachePopulated, LoopReturns, historyVars, vars

\* A reload() with nothing cached for the delay, or that starts a refresh.
LEMMA PendingReload ==
    ASSUME RefreshInv, Reloads, Undisturbed, NEW k \in Keys,
           job = "none" \/ changeCached' = changeCached \/ job # "starting",
           UNCHANGED <<keyring, cached, initialized, unread, blind>>
    PROVE  Pending(k)'
<1>1. Pending(k) /\ ~canceled /\ (Refreshing <=> ~watching)
  BY NobodyCanceled DEF RefreshInv
<1>2. Difference' = Difference
  BY DEF Difference
<1>3. CASE job = "none"
  <2>1. job' = "starting"
    BY <1>3 DEF Reloads, Reload
  <2> QED
    BY <1>1, <1>2, <1>3, <2>1 DEF Pending, OnItsWay
<1>4. CASE job # "none"
  <2>1. UNCHANGED <<job, listing, watching>> /\ (notice' <=> notice /\ watching)
    BY <1>4, Zenon DEF Reloads, Reload, jobVars
  <2>2. job = "dying" => watching
    BY <1>1 DEF Refreshing
  <2>3. ListingOf(k)' = ListingOf(k)
    BY <2>1 DEF ListingOf
  <2> QED
    BY <1>1, <1>2, <1>4, <2>1, <2>2, <2>3 DEF Pending, OnItsWay
<1> QED
  BY <1>3, <1>4

LEMMA PendingStep ==
    ASSUME RefreshInv, TypeOK', [Next]_vars, Undisturbed, Undisturbed', NEW k \in Keys
    PROVE  Pending(k)'
<1>t. TypeOK
  BY DEF RefreshInv, FaithfulInv
<1>1. /\ Pending(k) /\ ~canceled /\ ~failed /\ (Refreshing <=> ~watching)
      /\ \A p \in Protocols : listing[p].ok
      /\ \A p \in Protocols : listing[p].state # "none" => job = "listing"
      /\ ProtocolOf[k] \in Protocols
  BY NobodyCanceled, ProtocolAssumption DEF RefreshInv
<1>2. ASSUME UNCHANGED <<job, listing, notice, changeCached, keyring, cached, initialized,
                         unread, blind>>
      PROVE  Pending(k)'
  BY <1>1, <1>2, Zenon DEF Pending, OnItsWay, ListingOf, Difference
<1>3. CASE ClientReloads \/ AutoReload \/ EnsureCachePopulated
  <2>1. Reloads /\ UNCHANGED <<keyring, cached, initialized, unread, blind, changeCached>>
    BY <1>3, Zenon DEF ClientReloads, AutoReload, EnsureCachePopulated, diskVars,
       cacheVars, historyVars
  <2> QED
    BY <2>1, PendingReload
<1>4. CASE WatcherTimeout
  <2>1. Reloads /\ UNCHANGED <<keyring, cached, initialized, unread, blind>>
    BY <1>4, Zenon DEF WatcherTimeout, diskVars, cacheVars, historyVars
  <2>2. CASE job # "starting"
    BY <2>1, <2>2, PendingReload
  <2>3. CASE job = "starting"
    <3>1. UNCHANGED <<job, listing>>
      BY <2>1, <2>3, Zenon DEF Reloads, Reload, jobVars
    <3> QED
      BY <1>1, <2>1, <2>3, <3>1 DEF Pending, OnItsWay, Difference
  <2> QED
    BY <2>2, <2>3
<1>5. CASE WatcherNotices
  <2>1. /\ UNCHANGED <<keyring, cached, initialized, unread, blind>>
        /\ watching /\ job # "dying"
    BY <1>5, Zenon DEF WatcherNotices, diskVars, cacheVars, historyVars
  <2>2. job = "none"
    BY <1>1, <1>t, <2>1 DEF Refreshing, TypeOK
  <2>3. (job' = "none" /\ changeCached') \/ job' = "starting"
    BY <1>5, <2>2 DEF WatcherNotices, Reload, jobVars
  <2> QED
    BY <1>1, <2>1, <2>2, <2>3 DEF Pending, OnItsWay, Difference
<1>6. ASSUME NEW c \in Keys, KeyringChanges(c)
      PROVE  Pending(k)'
  <2>1. /\ UNCHANGED <<job, listing, changeCached, cached, initialized>>
        /\ unread' = unread \cup {c} /\ (notice' <=> notice \/ watching)
        /\ blind' = IF watching THEN blind ELSE blind \cup {c}
        /\ \A d \in Keys : d # c => (d \in keyring' <=> d \in keyring)
    BY <1>6 DEF KeyringChanges, cacheVars, jobVars
  <2>2. ListingOf(k)' = ListingOf(k)
    BY <2>1 DEF ListingOf
  <2>3. k # c => (k \in Difference' <=> k \in Difference)
    BY <1>t, <2>1 DEF Difference, TypeOK
  <2>4. watching => job \in {"none", "dying"}
    BY <1>1, <1>t DEF Refreshing, TypeOK
  <2> QED
    BY <1>1, <2>1, <2>2, <2>3, <2>4 DEF Pending, OnItsWay
<1>7. CASE DoStart
  <2>1. job = "starting" /\ UNCHANGED <<keyring, cached, unread, blind>>
    BY <1>7, Zenon DEF DoStart, diskVars
  <2>2. PICK started \in SUBSET Protocols :
          /\ failures' = failures + Cardinality(Protocols \ started)
          /\ listing' = [p \in Protocols |->
                           IF p \in started
                             THEN [NotListing EXCEPT !.state = "started"]
                             ELSE NotListing]
          /\ started # {} => job' = "listing" /\ UNCHANGED initialized
    BY <1>1, <1>7, Zenon DEF DoStart
  <2>3. started = Protocols
    <3>1. /\ IsFiniteSet(Protocols \ started)
          /\ Cardinality(Protocols \ started) = 0
      <4>1. IsFiniteSet(Protocols \ started)
        BY ProtocolAssumption, FS_Difference
      <4>2. Cardinality(Protocols \ started) \in Nat
        BY <4>1, FS_CardinalityType
      <4> QED
        BY <2>2, <4>1, <4>2 DEF Undisturbed
    <3> QED
      BY <3>1, FS_EmptySet
  <2>4. ListingOf(k)'.state = "started" /\ job' = "listing" /\ UNCHANGED initialized
    <3>1. listing'[ProtocolOf[k]] = [NotListing EXCEPT !.state = "started"]
      BY <1>1, <2>2, <2>3
    <3> QED
      BY <2>2, <2>3, <3>1, ProtocolAssumption DEF ListingOf, NotListing
  <2> QED
    BY <1>1, <2>1, <2>4 DEF Pending, OnItsWay, Difference
<1>8. ASSUME NEW p \in Protocols, ListingReads(p)
      PROVE  Pending(k)'
  <2>1. /\ UNCHANGED <<keyring, cached, initialized, job, notice, changeCached>>
        /\ listing[p].state = "started" /\ job = "listing"
    BY <1>1, <1>8 DEF ListingReads, diskVars, watchVars, cacheVars
  <2>2. /\ unread' = unread \ KeysOf(p) /\ blind' = blind \ KeysOf(p)
        /\ listing'[p].state = "read"
        /\ \A q \in Protocols \ {p} : listing'[q] = listing[q]
    BY <1>8, <1>t DEF ListingReads, TypeOK, Undisturbed
  <2>3. CASE ProtocolOf[k] = p
    BY <1>1, <2>1, <2>2, <2>3 DEF Pending, OnItsWay, ListingOf, KeysOf
  <2>4. CASE ProtocolOf[k] # p
    BY <1>1, <2>1, <2>2, <2>4 DEF Pending, OnItsWay, ListingOf, KeysOf, Difference
  <2> QED
    BY <2>3, <2>4
<1>9. ASSUME NEW p \in Protocols, ResultArrives(p)
      PROVE  Pending(k)'
  <2>1. /\ UNCHANGED <<keyring, initialized, notice, changeCached, unread, blind>>
        /\ listing[p].state = "read" /\ job = "listing"
        /\ listing' = [listing EXCEPT ![p] = NotListing]
    BY <1>1, <1>9 DEF ResultArrives, diskVars, watchVars
  <2>2. /\ listing'[p].state = "none"
        /\ \A q \in Protocols \ {p} : listing'[q] = listing[q]
    BY <1>t, <2>1 DEF TypeOK, NotListing
  <2>3. /\ \/ job' = "listing" /\ cached' = cached
           \/ job' = "updating" /\ \A q \in Protocols \ {p} : listing[q].state = "none"
        /\ ~failed'
    BY <1>1, <1>9, <2>1, Zenon DEF ResultArrives, Ignored, IsLast
  <2>4. ListingOf(k).state = "started" =>
           ListingOf(k)'.state = "started" /\ job' = "listing"
    BY <1>1, <2>1, <2>2, <2>3 DEF ListingOf
  <2>5. ListingOf(k)'.state = "started" => ListingOf(k).state = "started"
    BY <1>1, <2>2 DEF ListingOf
  <2>6. CASE job' = "listing" /\ cached' = cached
    BY <1>1, <2>1, <2>4, <2>5, <2>6 DEF Pending, OnItsWay, Difference
  <2>7. CASE job' = "updating"
    <3>1. Difference' \subseteq unread'
      BY <1>9, <2>1, <2>3, <2>7, FaithfulResultArrives DEF RefreshInv
    <3> QED
      BY <1>1, <2>1, <2>4, <2>7, <3>1 DEF Pending, OnItsWay
  <2> QED
    BY <2>3, <2>6, <2>7
<1>10. CASE UpdateDone
  <2>1. /\ job = "updating" /\ job' = "dying"
        /\ UNCHANGED <<keyring, cached, unread, blind>>
    BY <1>10 DEF UpdateDone, EmitDone, diskVars, historyVars
  <2> QED
    BY <1>1, <2>1 DEF Pending, OnItsWay, Difference
<1>11. CASE ObjectDeleted
  <2>1. /\ job = "dying" /\ job' = "none"
        /\ UNCHANGED <<keyring, cached, initialized, notice, changeCached, unread, blind>>
    BY <1>11 DEF ObjectDeleted, diskVars, watchVars, cacheVars, historyVars
  <2> QED
    BY <1>1, <2>1 DEF Pending, OnItsWay, Difference
<1>12. CASE LoopReturns \/ CancelKeyListing \/ SlotWaits \/ UNCHANGED vars
  <2>1. UNCHANGED <<job, listing, notice, changeCached, keyring, cached, initialized,
                    unread, blind>>
    BY <1>12, Zenon
       DEF LoopReturns, CancelKeyListing, SlotWaits, vars, diskVars, watchVars, cacheVars,
           jobVars, historyVars
  <2> QED
    BY <1>2, <2>1
<1> QED
  BY <1>3, <1>4, <1>5, <1>6, <1>7, <1>8, <1>9, <1>10, <1>11, <1>12, Zenon
     DEF Next, JobRuns, WatcherRuns

\* No listing has failed and nothing is to be merged with an error.
LEMMA NothingFails ==
    ASSUME RefreshInv, TypeOK', [Next]_vars, Undisturbed, Undisturbed'
    PROVE  ~failed' /\ \A p \in Protocols : listing'[p].ok
<1>0. ~failed /\ ~canceled /\ (\A p \in Protocols : listing[p].ok) /\ TypeOK
  BY NobodyCanceled DEF RefreshInv, FaithfulInv
<1>1. CASE DoStart
  <2>1. PICK started \in SUBSET Protocols :
          /\ failures' = failures + Cardinality(Protocols \ started)
          /\ failed' = (started # Protocols)
          /\ listing' = [p \in Protocols |->
                           IF p \in started
                             THEN [NotListing EXCEPT !.state = "started"]
                             ELSE NotListing]
    BY <1>0, <1>1, Zenon DEF DoStart
  <2>2. started = Protocols
    <3>1. IsFiniteSet(Protocols \ started)
      BY ProtocolAssumption, FS_Difference
    <3>2. Cardinality(Protocols \ started) = 0
      BY <2>1, <3>1, FS_CardinalityType DEF Undisturbed
    <3> QED
      BY <3>1, <3>2, FS_EmptySet
  <2>3. \A p \in Protocols : listing'[p] = [NotListing EXCEPT !.state = "started"]
    BY <2>1, <2>2
  <2> QED
    BY <2>1, <2>2, <2>3 DEF NotListing
<1>2. ASSUME NEW p \in Protocols, ListingReads(p)
      PROVE  ~failed' /\ \A q \in Protocols : listing'[q].ok
  <2>1. /\ failed' = failed /\ listing'[p].ok
        /\ \A q \in Protocols \ {p} : listing'[q] = listing[q]
    BY <1>0, <1>2 DEF ListingReads, TypeOK, Undisturbed
  <2> QED
    BY <1>0, <2>1
<1>3. ASSUME NEW p \in Protocols, ResultArrives(p)
      PROVE  ~failed' /\ \A q \in Protocols : listing'[q].ok
  <2>1. /\ listing' = [listing EXCEPT ![p] = NotListing]
        /\ failed' = (failed \/ ~listing[p].ok)
    BY <1>0, <1>3, Zenon DEF ResultArrives, Ignored
  <2> QED
    BY <1>0, <2>1 DEF TypeOK, NotListing
<1>4. CASE ObjectDeleted
  BY <1>0, <1>4 DEF ObjectDeleted, NotListing
<1>5. ASSUME UNCHANGED listing, failed' => failed
      PROVE  ~failed' /\ \A p \in Protocols : listing'[p].ok
  BY <1>0, <1>5
<1>6. ASSUME Reload \/ UNCHANGED jobVars
      PROVE  UNCHANGED listing /\ (failed' => failed)
  BY <1>6 DEF Reload, jobVars
<1>7. CASE WatcherNotices
  BY <1>5, <1>6, <1>7, Zenon DEF WatcherNotices
<1>8. CASE ClientReloads \/ AutoReload \/ WatcherTimeout \/ EnsureCachePopulated
  <2>1. Reload \/ UNCHANGED jobVars
    BY <1>8, Zenon DEF ClientReloads, AutoReload, WatcherTimeout, EnsureCachePopulated, Reloads
  <2> QED
    BY <1>5, <1>6, <2>1, Zenon
<1>9. CASE \/ \E k \in Keys : KeyringChanges(k)
           \/ SlotWaits \/ LoopReturns \/ UNCHANGED vars
  <2>1. UNCHANGED jobVars
    BY <1>9, Zenon DEF KeyringChanges, SlotWaits, LoopReturns, vars
  <2> QED
    BY <1>5, <1>6, <2>1, Zenon
<1>10. CASE CancelKeyListing \/ UpdateDone
  <2>1. UNCHANGED listing /\ (failed' => failed)
    BY <1>10 DEF CancelKeyListing, UpdateDone, jobVars, EmitDone
  <2> QED
    BY <1>5, <2>1, Zenon
<1> QED
  BY <1>1, <1>2, <1>3, <1>4, <1>7, <1>8, <1>9, <1>10, Zenon DEF Next, JobRuns, WatcherRuns

\* What the watchers saw does not get lost between notice, delay and refresh: once
\* things have calmed down, the cache is wrong only about keys that changed in the
\* middle of a refresh (FileSystemWatcher, KeyCache::reload(), RefreshKeysJob).
THEOREM OnlyBlindChangesAreOverlooked == Spec => []OverlookedOnlyInRefresh
<1>1. Init => RefreshInv
  <2> SUFFICES ASSUME Init PROVE RefreshInv
    OBVIOUS
  <2>1. \A p \in Protocols : listing[p].ok
    BY DEF Init, NotListing
  <2> QED
    BY <2>1, FaithfulInit, WatchersInit DEF Init, RefreshInv, Pending
<1>2. RefreshInv /\ [Next]_vars => RefreshInv'
  <2> SUFFICES ASSUME RefreshInv, [Next]_vars PROVE RefreshInv'
    OBVIOUS
  <2>1. TypeOK /\ TypeOK' /\ FaithfulInv' /\ WatchersInv'
    BY TypeStep, FaithfulStep, WatchersStep DEF RefreshInv, FaithfulInv
  <2>2. ASSUME Undisturbed'
        PROVE  /\ ~failed' /\ \A p \in Protocols : listing'[p].ok
               /\ \A k \in Keys : Pending(k)'
    <3>1. Undisturbed
      BY <2>1, <2>2, CountsGrow
    <3> QED
      BY <2>1, <2>2, <3>1, PendingStep, NothingFails
  <2> QED
    BY <2>1, <2>2 DEF RefreshInv
<1>3. RefreshInv => OverlookedOnlyInRefresh
  BY KeysDiffer DEF RefreshInv, FaithfulInv, Pending, OnItsWay, Undisturbed, CalmedDown,
     OverlookedOnlyInRefresh
<1> QED
  BY <1>1, <1>2, <1>3, PTL DEF Spec
=============================================================================
