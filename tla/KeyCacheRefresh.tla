--------------------------- MODULE KeyCacheRefresh ---------------------------
(***************************************************************************)
(* How KeyCache (libkleo/src/models/keycache.cpp) follows the keyrings:    *)
(* KeyCache::reload(), the RefreshKeysJob it starts, the two key listings  *)
(* of that job, the FileSystemWatcher that asks for a refresh when a       *)
(* keyring file changes (libkleo/src/utils/filesystemwatcher.cpp), the     *)
(* timer that asks for one now and then, and the callers that wait in      *)
(* ensureCachePopulated() for the first one.                               *)
(*                                                                         *)
(* Everything runs in one thread; an action is what one event does, to the *)
(* point where control is back in an event loop.  A caller that waits has  *)
(* an event loop of its own, so that other events are handled meanwhile.   *)
(* An object given to deleteLater() lives on (job = "dying") until the     *)
(* event loop gets to it.                                                  *)
(***************************************************************************)
EXTENDS Integers, FiniteSets

CONSTANTS
    Protocols,      \* those of which a key listing can be started
    Keys,
    ProtocolOf,     \* ProtocolOf[k]: the protocol of the key k
    Delay,          \* whether the FileSystemWatcher has a delay
    AutoRefresh,    \* whether m_refreshInterval is not 0
    ListenersRead,  \* whether a slot of keysMayHaveChanged() reads the cache
    MaxChanges, MaxFailures, MaxCancels, MaxLoops   \* bounds

ASSUME ProtocolAssumption ==
    /\ IsFiniteSet(Protocols) /\ Protocols # {}
    /\ ProtocolOf \in [Keys -> Protocols]
ASSUME FlagAssumption ==
    /\ Delay \in BOOLEAN /\ AutoRefresh \in BOOLEAN /\ ListenersRead \in BOOLEAN
ASSUME BoundAssumption ==
    /\ MaxChanges \in Nat /\ MaxFailures \in Nat
    /\ MaxCancels \in Nat /\ MaxLoops \in Nat

VARIABLES
    keyring,        \* the keys on disk
    \* FileSystemWatcher
    watching,       \* m_watcher exists
    notice,         \* it has seen a change that has not been handled yet
    changeCached,   \* m_timer runs, m_cachedFiles is not empty
    \* KeyCache
    cached,         \* the keys in the indexes
    initialized,
    \* RefreshKeysJob
    job,            \* where it is; "none": m_refreshJob is null
    canceled,
    gathered,       \* m_keys
    failed,         \* m_mergedResult has an error
    listing,        \* the ListAllKeysJobs; those in m_jobsPending are not "none"
    \* callers
    loops,          \* how many wait in ensureCachePopulated()
    slotWaits,      \* a slot of keysMayHaveChanged() does
    \* history
    changes, failures, cancels,
    unread,         \* keys that have changed since the last listing read them
    blind           \* those of them that changed while nobody watched

diskVars    == <<keyring, changes>>
watchVars   == <<watching, notice, changeCached>>
cacheVars   == <<cached, initialized>>
jobVars     == <<job, canceled, gathered, failed, listing>>
callerVars  == <<loops, slotWaits>>
historyVars == <<failures, cancels, unread, blind>>
vars == <<diskVars, watchVars, cacheVars, jobVars, callerVars, historyVars>>

KeysOf(p) == {k \in Keys : ProtocolOf[k] = p}
NotListing == [state |-> "none", keys |-> {}, ok |-> TRUE]

Init ==
    /\ keyring \in SUBSET Keys
    /\ watching = TRUE /\ notice = FALSE /\ changeCached = FALSE
    /\ cached = {} /\ initialized = FALSE
    /\ job = "none" /\ canceled = FALSE /\ gathered = {} /\ failed = FALSE
    /\ listing = [p \in Protocols |-> NotListing]
    /\ loops = 0 /\ slotWaits = FALSE
    /\ changes = 0 /\ failures = 0 /\ cancels = 0
    /\ unread = {} /\ blind = {}

\* updateKeyCache() is one event, unless one of its slots waits in a loop.
EventLoopRuns == job = "updating" => slotWaits

-----------------------------------------------------------------------------
(* KeyCache::reload(), a part of every action that asks for a refresh *)

WatchesInRefresh == FALSE

Reload ==
    IF job = "none"
      THEN /\ job' = "starting"
           /\ canceled' = FALSE
           /\ gathered' = {}
           /\ failed' = FALSE
           /\ watching' = WatchesInRefresh
           /\ UNCHANGED listing
      ELSE UNCHANGED <<jobVars, watching>>

\* A deleted QFileSystemWatcher takes its unhandled notice with it.
Reloads == Reload /\ notice' = (notice /\ watching')

ClientReloads ==
    /\ EventLoopRuns
    /\ Reloads
    /\ UNCHANGED <<diskVars, changeCached, cacheVars, callerVars, historyVars>>

AutoReload ==
    /\ AutoRefresh
    /\ EventLoopRuns
    /\ job = "none"
    /\ Reloads
    /\ UNCHANGED <<diskVars, changeCached, cacheVars, callerVars, historyVars>>

-----------------------------------------------------------------------------
(* The keyrings, and FileSystemWatcher *)

\* gpg or gpgsm, or anybody else, adds, changes or removes a key.
KeyringChanges(k) ==
    /\ changes < MaxChanges
    /\ keyring' = IF k \in keyring THEN keyring \ {k} ELSE keyring \cup {k}
    /\ changes' = changes + 1
    /\ notice' = (notice \/ watching)
    /\ unread' = unread \cup {k}
    /\ blind' = IF watching THEN blind ELSE blind \cup {k}
    /\ UNCHANGED <<watching, changeCached, cacheVars, jobVars, callerVars,
                   failures, cancels>>

\* onFileChanged() or onDirectoryChanged(), then handleTimer().  Sockets are
\* looked at after the posted events, of which a dying job is one.
WatcherNotices ==
    /\ watching /\ notice
    /\ job # "dying" /\ EventLoopRuns
    /\ IF Delay
         THEN /\ changeCached' = TRUE
              /\ notice' = FALSE
              /\ UNCHANGED <<watching, jobVars>>
         ELSE /\ Reload
              /\ notice' = FALSE
              /\ UNCHANGED changeCached
    /\ UNCHANGED <<diskVars, cacheVars, callerVars, historyVars>>

\* onTimeout(): the delay is over.
WatcherTimeout ==
    /\ changeCached
    /\ EventLoopRuns
    /\ changeCached' = FALSE
    /\ Reloads
    /\ UNCHANGED <<diskVars, cacheVars, callerVars, historyVars>>

-----------------------------------------------------------------------------
(* RefreshKeysJob *)

\* KeyCache::Private::refreshJobDone()
DoneWithoutWatching ==  \* fault: enableFileSystemWatcher(true) forgotten
    initialized' = TRUE /\ UNCHANGED watching
DoneUninitialized ==    \* fault: m_initalized = true forgotten
    watching' = TRUE /\ UNCHANGED initialized
RefreshJobDone ==
    watching' = TRUE /\ initialized' = TRUE

EmitDone == job' = "dying" /\ RefreshJobDone

\* doStart(): no job starts, a listing may fail to, or both.
DoStart ==
    /\ job = "starting" /\ EventLoopRuns
    /\ \/ /\ canceled
          /\ job' = "dying"
          /\ UNCHANGED <<watching, initialized, failed, listing, failures>>
       \/ /\ ~canceled
          /\ \E started \in SUBSET Protocols :
                LET unstarted == Cardinality(Protocols \ started) IN
                /\ failures + unstarted <= MaxFailures
                /\ failures' = failures + unstarted
                /\ failed' = (started # Protocols)
                /\ listing' = [p \in Protocols |->
                                 IF p \in started
                                   THEN [NotListing EXCEPT !.state = "started"]
                                   ELSE NotListing]
                /\ IF started = {}
                     THEN EmitDone
                     ELSE /\ job' = "listing"
                          /\ UNCHANGED <<watching, initialized>>
    /\ UNCHANGED <<diskVars, notice, changeCached, cached, canceled, gathered,
                   callerVars, cancels, unread, blind>>

\* The thread of a ListAllKeysJob reads the keyring, or a part before it fails.
ListingReads(p) ==
    /\ listing[p].state = "started"
    /\ \/ /\ listing' = [listing EXCEPT
                           ![p] = [state |-> "read", ok |-> TRUE,
                                   keys |-> keyring \cap KeysOf(p)]]
          /\ unread' = unread \ KeysOf(p)
          /\ blind' = blind \ KeysOf(p)
          /\ UNCHANGED failures
       \/ /\ failures < MaxFailures
          /\ failures' = failures + 1
          /\ \E part \in SUBSET (keyring \cap KeysOf(p)) :
                listing' = [listing EXCEPT
                              ![p] = [state |-> "read", ok |-> FALSE,
                                      keys |-> part]]
          /\ UNCHANGED <<unread, blind>>
    /\ UNCHANGED <<diskVars, watchVars, cacheVars, job, canceled, gathered,
                   failed, callerVars, cancels>>

MergedOver(old, new) == new     \* fault: m_keys overwritten
Merged(old, new) == old \cup new

FirstIsLast(p) == TRUE          \* fault: does not wait for the other one
IsLast(p) == \A q \in Protocols \ {p} : listing[q].state = "none"

Ignored == canceled

\* listAllKeysJobDone() and jobDone(), to the end of m_cache->refresh().
ResultArrives(p) ==
    /\ listing[p].state = "read" /\ EventLoopRuns
    /\ listing' = [listing EXCEPT ![p] = NotListing]
    /\ gathered' = Merged(gathered, listing[p].keys)
    /\ \/ /\ Ignored
          /\ job' = "dying"
          /\ UNCHANGED <<failed, cached>>
       \/ /\ ~Ignored
          /\ failed' = (failed \/ ~listing[p].ok)
          /\ IF IsLast(p)
               THEN job' = "updating" /\ cached' = gathered'
               ELSE UNCHANGED <<job, cached>>
    /\ UNCHANGED <<diskVars, watchVars, initialized, canceled, callerVars,
                   failures, cancels, unread, blind>>

\* A slot of keysMayHaveChanged() may call keys().  The cache it has been told of
\* is not initialized yet, so it waits in an event loop for the refresh to be
\* done: for something that its own caller has to do next.
SlotWaits ==
    /\ job = "updating" /\ ~slotWaits
    /\ ListenersRead
    /\ ~initialized
    /\ slotWaits' = TRUE
    /\ UNCHANGED <<diskVars, watchVars, cacheVars, jobVars, loops, historyVars>>

\* The end of jobDone(), when the slots have returned.
UpdateDone ==
    /\ job = "updating" /\ ~slotWaits
    /\ EmitDone
    /\ UNCHANGED <<diskVars, notice, changeCached, cached, canceled, gathered,
                   failed, listing, callerVars, historyVars>>

\* m_refreshJob becomes null; results of its listings are not delivered any more.
ObjectDeleted ==
    /\ job = "dying"
    /\ job' = "none"
    /\ listing' = [p \in Protocols |-> NotListing]
    /\ UNCHANGED <<diskVars, watchVars, cacheVars, canceled, gathered, failed,
                   callerVars, historyVars>>

\* KeyCache::cancelKeyListing()
CancelKeyListing ==
    /\ cancels < MaxCancels
    /\ job # "none" /\ EventLoopRuns
    /\ cancels' = cancels + 1
    /\ canceled' = TRUE
    /\ UNCHANGED <<diskVars, watchVars, cacheVars, job, gathered, failed,
                   listing, callerVars, failures, unread, blind>>

-----------------------------------------------------------------------------
(* KeyCache::Private::ensureCachePopulated(), called by every look-up *)

EnsureCachePopulated ==
    /\ ~initialized
    /\ loops < MaxLoops
    /\ EventLoopRuns
    /\ loops' = loops + 1
    /\ Reloads
    /\ UNCHANGED <<diskVars, changeCached, cacheVars, slotWaits, historyVars>>

LoopMayEnd == loops > 0 /\ initialized

LoopReturns ==
    /\ LoopMayEnd
    /\ EventLoopRuns
    /\ loops' = loops - 1
    /\ UNCHANGED <<diskVars, watchVars, cacheVars, jobVars, slotWaits,
                   historyVars>>

-----------------------------------------------------------------------------
JobRuns ==
    \/ DoStart \/ UpdateDone \/ ObjectDeleted
    \/ \E p \in Protocols : ListingReads(p) \/ ResultArrives(p)

WatcherRuns == WatcherNotices \/ WatcherTimeout

Next ==
    \/ \E k \in Keys : KeyringChanges(k)
    \/ WatcherRuns \/ JobRuns \/ SlotWaits
    \/ ClientReloads \/ AutoReload \/ CancelKeyListing
    \/ EnsureCachePopulated \/ LoopReturns

Spec == Init /\ [][Next]_vars

\* Event loops run and gpg comes to an end; nobody has to call or change anything.
\* A loop that has been told to quit does so after the event at hand, however
\* many others follow.
Fairness ==
    /\ WF_vars(JobRuns) /\ WF_vars(WatcherRuns)
    /\ WF_vars(AutoReload) /\ SF_vars(LoopReturns)

FairSpec == Spec /\ Fairness

-----------------------------------------------------------------------------
(* Properties *)

Listings == [state : {"none", "started", "read"}, keys : SUBSET Keys, ok : BOOLEAN]

TypeOK ==
    /\ keyring \subseteq Keys /\ cached \subseteq Keys /\ gathered \subseteq Keys
    /\ watching \in BOOLEAN /\ notice \in BOOLEAN /\ changeCached \in BOOLEAN
    /\ initialized \in BOOLEAN /\ canceled \in BOOLEAN /\ failed \in BOOLEAN
    /\ job \in {"none", "starting", "listing", "updating", "dying"}
    /\ listing \in [Protocols -> Listings]
    /\ loops \in 0 .. MaxLoops /\ slotWaits \in BOOLEAN
    /\ changes \in 0 .. MaxChanges /\ failures \in 0 .. MaxFailures
    /\ cancels \in 0 .. MaxCancels
    /\ unread \subseteq Keys /\ blind \subseteq unread

Difference == (cached \ keyring) \cup (keyring \ cached)
CalmedDown == job = "none" /\ ~notice /\ ~changeCached
Refreshing == job \in {"starting", "listing", "updating"}

\* The watchers are off from reload() to the end of the refresh, so that what
\* gpg does to the files it reads provokes no other refresh; and unless one has
\* been canceled, nobody is left without them afterwards.
WatchersFollowRefresh ==
    /\ Refreshing => ~watching
    /\ ~Refreshing /\ cancels = 0 => watching

\* A refresh without an error brings the cache up to date: it differs from the
\* keyrings only in keys that have changed since their listing was made, however
\* the two listings, changes, watchers and other refreshes interleave.
RefreshIsFaithful ==
    [][job = "listing" /\ job' = "updating" /\ ~failed' => Difference' \subseteq unread']_vars

\* Once things have calmed down, the cache is wrong only about keys that changed
\* in the middle of a refresh, when the watchers were off: no change that a
\* watcher saw gets lost on the way to startKeyListing(), or is swallowed by a
\* refresh that does not cover it.
OverlookedOnlyInRefresh ==
    initialized /\ CalmedDown /\ failures = 0 /\ cancels = 0
        => Difference \subseteq blind

\* Every caller of ensureCachePopulated() gets its answer.
EveryCallerReturns == loops > 0 ~> loops = 0

\* It does if no slot of keysMayHaveChanged() reads the cache too early: every
\* way in which a refresh ends lets the waiting event loops end, or another
\* refresh follows that does.
CallersReturn == []~slotWaits => EveryCallerReturns

\* When the keyrings do not change any more, the cache comes to agree with them,
\* whatever has failed, been canceled or been overlooked before.
CacheCatchesUp == []~slotWaits => <>[](cached = keyring)
=============================================================================
