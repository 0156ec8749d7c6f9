---------------------------- MODULE SchemaCache ----------------------------
(***************************************************************************)
(* The schema of a data source, which is cached in Redis.  Jobs that were  *)
(* asked for it, and the periodic refresh, read the catalogue of the       *)
(* database and write the cache, in steps; the data source may be deleted  *)
(* meanwhile, and the cache expires.                                       *)
(***************************************************************************)
EXTENDS Integers

CONSTANTS
    Getter,         \* jobs that get the schema
    MaxCatalogue    \* how often the catalogue changes (bound of the model)

ASSUME SchemaAssumption == MaxCatalogue \in Nat

VARIABLES
    catalogue,  \* the version of the database's catalogue
    cached,     \* the version in the cache, or Uncached
    deletion,   \* how far the deletion of the data source has got
    getter,     \* the jobs
    fresh,      \* history: the version the cache must have reached by now
    late        \* history: a job was under way when the key was deleted

schemaVars == <<catalogue, cached, deletion, getter, fresh, late>>

Version == 0..MaxCatalogue
Uncached == -1

SchemaTypeOK ==
    /\ catalogue \in Version
    /\ cached \in Version \cup {Uncached}
    /\ deletion \in {"none", "row", "key"}
    /\ getter \in [Getter ->
            [pc : {"idle", "look", "fetch", "store"}, refresh : BOOLEAN,
             schema : Version,      \* what was read from the catalogue
             since : Version,       \* the version when the job began
             alone : BOOLEAN]]      \* no other job has been under way since
    /\ fresh \in Version \cup {Uncached}
    /\ late \in BOOLEAN

NoGet == [pc |-> "idle", refresh |-> FALSE, schema |-> 0, since |-> 0, alone |-> FALSE]

SchemaInit ==
    /\ catalogue = 0
    /\ cached = Uncached
    /\ deletion = "none"
    /\ getter = [g \in Getter |-> NoGet]
    /\ fresh = Uncached
    /\ late = FALSE

Getting == {g \in Getter : getter[g].pc # "idle"}

\* A job is through; if it was to refresh and was alone, the cache is now at
\* least as new as the catalogue was when the job began.
GetDone(g) ==
    /\ getter' = [getter EXCEPT ![g] = NoGet]
    /\ fresh' = IF getter[g].refresh /\ getter[g].alone /\ getter[g].since > fresh
                THEN getter[g].since ELSE fresh

-----------------------------------------------------------------------------
(* DataSource.get_schema                                                   *)

\* A fault for TLC: a refresh is content with what is cached.
FirstLookAlways(refresh) == "look"
FirstLook(refresh) == IF refresh THEN "fetch" ELSE "look"

\* The row is loaded.  (A paused data source is only refreshed on request.)
BeginGet(g, refresh) ==
    /\ getter[g].pc = "idle" /\ deletion = "none"
    /\ getter' = [h \in Getter |->
                    IF h = g THEN [pc |-> FirstLook(refresh), refresh |-> refresh, schema |-> 0,
                                   since |-> catalogue, alone |-> Getting = {}]
                    ELSE [getter[h] EXCEPT !.alone = FALSE]]
    /\ UNCHANGED <<catalogue, cached, deletion, fresh, late>>

LookInCache(g) ==
    /\ getter[g].pc = "look"
    /\ IF cached = Uncached
       THEN getter' = [getter EXCEPT ![g].pc = "fetch"] /\ UNCHANGED fresh
       ELSE GetDone(g)
    /\ UNCHANGED <<catalogue, cached, deletion, late>>

FetchSchema(g) ==
    /\ getter[g].pc = "fetch"
    /\ getter' = [getter EXCEPT ![g].pc = "store", ![g].schema = catalogue]
    /\ UNCHANGED <<catalogue, cached, deletion, fresh, late>>

\* The database does not answer, or the job dies: nothing is written.
GetFails(g) ==
    /\ getter[g].pc # "idle"
    /\ getter' = [getter EXCEPT ![g] = NoGet]
    /\ UNCHANGED <<catalogue, cached, deletion, fresh, late>>

\* Written whatever became of the data source.
StoreSchema(g) ==
    /\ getter[g].pc = "store"
    /\ cached' = getter[g].schema
    /\ GetDone(g)
    /\ UNCHANGED <<catalogue, deletion, late>>

-----------------------------------------------------------------------------
(* The data source                                                         *)

CatalogueChanges ==
    /\ catalogue < MaxCatalogue
    /\ catalogue' = catalogue + 1
    /\ UNCHANGED <<cached, deletion, getter, fresh, late>>

CacheExpires ==
    /\ cached # Uncached
    /\ cached' = Uncached
    /\ UNCHANGED <<catalogue, deletion, getter, fresh, late>>

DeleteRow ==
    /\ deletion = "none"
    /\ deletion' = "row"
    /\ UNCHANGED <<catalogue, cached, getter, fresh, late>>

\* A fault for TLC: the key is forgotten.
KeyAfterwardsKept == cached
KeyAfterwards == Uncached

DeleteKey ==
    /\ deletion = "row"
    /\ deletion' = "key"
    /\ cached' = KeyAfterwards
    /\ late' = (Getting # {})
    /\ UNCHANGED <<catalogue, getter, fresh>>

SchemaNext ==
    \/ \E g \in Getter :
        \/ \E refresh \in BOOLEAN : BeginGet(g, refresh)
        \/ LookInCache(g) \/ FetchSchema(g) \/ GetFails(g) \/ StoreSchema(g)
    \/ CatalogueChanges \/ CacheExpires \/ DeleteRow \/ DeleteKey

SchemaSpec == SchemaInit /\ [][SchemaNext]_schemaVars

-----------------------------------------------------------------------------
(* Properties                                                              *)

\* A refresh that went through with no other job beside it takes effect for
\* good: what is cached from then on is at least as new as the catalogue was
\* when it began, whichever jobs come later.
RefreshTakesEffect == cached # Uncached => cached >= fresh

\* The schema of a deleted data source is gone from the cache, and stays so
\* unless a job for it was under way when the key was deleted.
DeletedLeavesNothing == deletion = "key" /\ ~late => cached = Uncached

=============================================================================
