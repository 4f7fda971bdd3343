----------------------------- MODULE CollConfig -----------------------------
(***************************************************************************)
(* The policy of a collection as a peer knows it: the cache of             *)
(* CollectionConfigRetriever (pkg/common/support/collconfigretriever.go)   *)
(* and the resolvers that the two data retrievers keep for it, when the    *)
(* chaincode is upgraded.                                                  *)
(*                                                                         *)
(* A version stands for the collection configuration that it brought.  The *)
(* state database is ahead of the handlers of the block publisher, which   *)
(* get the events of a committed block one after the other.  An upgrade    *)
(* through lscc makes two events, the write to lscc and the "upgrade"      *)
(* chaincode event; one through the new lifecycle makes one, the write to  *)
(* _lifecycle.                                                             *)
(***************************************************************************)
EXTENDS Naturals, Sequences, Functions

CONSTANTS Retrievers,     \* the retrievers that keep a resolver
          MaxUpgrades     \* bound

VARIABLES committed,      \* the version in the state database
          events,         \* of the committed blocks, not yet handled
          cached,         \* the version in the cache, 0 for none
          loading,        \* the version that the loader of the cache has read, 0 for none
          resolvers,      \* the version from which the resolver was made, 0 for none
          straddled,      \* a load was under way when an upgrade was handled
          lifecycle       \* there was an upgrade through the new lifecycle

configVars == <<committed, events, cached, loading, resolvers, straddled, lifecycle>>

ConfigTypeOK ==
    /\ committed \in 1..(MaxUpgrades + 1)
    /\ events \in Seq([type : {"lsccWrite", "lifecycleWrite", "upgrade"}, ver : 1..(MaxUpgrades + 1)])
    /\ {cached, loading} \subseteq 0..committed
    /\ resolvers \in [Retrievers -> 0..committed]
    /\ {straddled, lifecycle} \subseteq BOOLEAN

ConfigInit ==
    /\ committed = 1 /\ events = <<>> /\ cached = 0 /\ loading = 0
    /\ resolvers = [r \in Retrievers |-> 0]
    /\ straddled = FALSE /\ lifecycle = FALSE

Event(type) == [type |-> type, ver |-> committed + 1]

\* The block with the upgrade is committed and published.
UpgradeLSCC ==
    /\ committed <= MaxUpgrades
    /\ committed' = committed + 1
    /\ events' = events \o <<Event("lsccWrite"), Event("upgrade")>>
    /\ UNCHANGED <<cached, loading, resolvers, straddled, lifecycle>>

UpgradeLifecycle ==
    /\ committed <= MaxUpgrades
    /\ committed' = committed + 1
    /\ events' = Append(events, Event("lifecycleWrite"))
    /\ lifecycle' = TRUE
    /\ UNCHANGED <<cached, loading, resolvers, straddled>>

Takes(type) == events # <<>> /\ Head(events).type = type /\ events' = Tail(events)

\* The LSCC write handler of newCollectionConfigRetriever.
HandleLSCCWrite ==
    /\ Takes("lsccWrite")
    /\ cached' = Head(events).ver
    /\ straddled' = (straddled \/ loading # 0)
    /\ UNCHANGED <<committed, loading, resolvers, lifecycle>>

\* Its write handler, on a write to the collections of a chaincode in _lifecycle.
HandleLifecycleWrite ==
    /\ Takes("lifecycleWrite")
    /\ cached' = 0
    /\ straddled' = (straddled \/ loading # 0)
    /\ UNCHANGED <<committed, loading, resolvers, lifecycle>>

\* Mutant: the resolvers are kept.
HandleUpgrade_Kept(locked) ==
    /\ Takes("upgrade")
    /\ locked = {}
    /\ UNCHANGED <<committed, cached, loading, resolvers, straddled, lifecycle>>

\* removeResolvers.  The handlers of the retrievers run in turn, each needing the lock of its
\* retriever; here they are one step, when nobody holds one of the locks.
HandleUpgrade(locked) ==
    /\ Takes("upgrade")
    /\ locked = {}
    /\ resolvers' = [r \in Retrievers |-> 0]
    /\ UNCHANGED <<committed, cached, loading, straddled, lifecycle>>

\* A look into the cache that finds nothing makes the loader read the state database ...
loadConfigAndPolicy ==
    /\ cached = 0 /\ loading = 0
    /\ loading' = committed
    /\ UNCHANGED <<committed, events, cached, resolvers, straddled, lifecycle>>

\* ... and what it has read is put into the cache later.  The retrievers in made wait for it in
\* getOrCreateResolver, with their lock.
Loaded(made) ==
    /\ loading # 0
    /\ cached' = loading /\ loading' = 0
    /\ resolvers' = [r \in Retrievers |-> IF r \in made THEN loading ELSE resolvers[r]]
    /\ UNCHANGED <<committed, events, straddled, lifecycle>>

---------------------------------------------------------------------------
\* The cache holds what the last handled upgrade brought: once its events are handled, every
\* policy that Config and Policy give out is the committed one.  The exception is a load that
\* read the state before an upgrade and filled the cache after its handler.
ConfigFresh ==
    events = <<>> => (cached \in {0, committed} \/ straddled)

\* A data retriever asks the peers that the committed policy names: once the events of the
\* upgrades are handled no resolver of an older version is left.  The exceptions are the
\* straddling load, from which a resolver may be made, and an upgrade through the new
\* lifecycle, for which no handler removes the resolvers.
ResolverFresh ==
    events = <<>> => (Range(resolvers) \subseteq {0, committed} \/ straddled \/ lifecycle)
=============================================================================
