---------------------------- MODULE ProviderServices ----------------------------
(***************************************************************************)
(* What the system does with the providers: irreversible calls for an      *)
(* order (ProviderMutations), the answers of the adapters to an order that *)
(* was placed, the status poll by provider group, and the catalogue        *)
(* mirrored from a provider.                                               *)
(***************************************************************************)
EXTENDS ProviderMutations, Services, Integers

CONSTANTS
    PolledOrders, PolledProviders, Ids, ProviderOf, IdOf, MaxBatchSize, MaxCycles, \* poll
    Products, Exts, DynamicExt, Markups, MaxSyncs, MaxEdits, MaxProviderChanges    \* catalogue

VARIABLES
    adapter, placed, answered,
    status, usable, report, running, cycles, groups, index, worker, settled, counts, handed,
    provider, offers, row, product, locked, sync, edit, mirror, edited, used

\* None is no product and no number; the orders are finitely many.
ASSUME ProvidersAssumption == None \notin Exts \cup Int /\ IsFiniteSet(PolledOrders)

Answers == INSTANCE ProviderAnswers WITH upstream <- placed, order <- answered

Poll == INSTANCE OrderPolling WITH
    Orders <- PolledOrders, Providers <- PolledProviders, Workers <- Calls

Catalog == INSTANCE Catalogue WITH
    Syncs <- Calls, Calls <- Customers, MaxCalls <- MaxEdits, MaxChanges <- MaxProviderChanges,
    upstream <- offers, call <- edit

answerVars == <<adapter, placed, answered>>
pollVars == <<status, usable, report, running, cycles, groups, index, worker, settled, counts, handed>>
catalogueVars == <<provider, offers, row, product, locked, sync, edit, mirror, edited, used>>

-----------------------------------------------------------------------------
\* An order is completed only when the provider delivered it and given up only when
\* the provider holds none for it, but where an adapter lost the answer.
AnswersSound == Answers!AnswersSound

\* A poll processes an order at most once, with what its own provider says of it,
\* and each of its tasks that does not throw counts all orders of its group.
PollSound == Poll!PollSound

\* Rows and synchronised products say what the last synchronisation was told, and
\* its lock is held exactly while one is in flight.
SyncMirrors == Catalog!SyncMirrors
================================================================================
