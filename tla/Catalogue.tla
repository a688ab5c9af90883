----------------------------- MODULE Catalogue -----------------------------
(***************************************************************************)
(* The catalogue of one provider: the rows of provider_products that a     *)
(* synchronisation copies from the provider's own list, and the platform   *)
(* products published from them.  A synchronisation is many awaits long    *)
(* and holds an in-process lock; the requests of the administrators read   *)
(* and save products between any two of its steps.                         *)
(*                                                                         *)
(* One price stands for finalPrice, or basePrice where that is null: what  *)
(* the customer is charged.  The markup is a fixed amount.                 *)
(***************************************************************************)
EXTENDS Naturals, FiniteSets

CONSTANTS
  Syncs,       \* requests and cron ticks that synchronise the provider
  Calls,       \* requests of administrators on products
  Products,    \* documents the products collection may come to hold
  Exts,        \* the provider's product identifiers
  DynamicExt,  \* the identifier of a dealer's only, configured product
  Prices, Markups, None,
  MaxSyncs, MaxCalls, MaxChanges   \* bounds

VARIABLES
  provider,   \* [there, active, dealer]
  upstream,   \* Exts -> None or the offer the provider lists
  row,        \* Exts -> None or the provider product
  product,    \* Products -> the platform product
  locked,     \* _syncLocks has the provider
  sync,       \* Syncs -> local state of a synchronisation
  call,       \* Calls -> local state of a request
  mirror,     \* None, or what the last clean synchronisation fetched
  edited,     \* products saved or published since that fetch
  used        \* [syncs, calls, changes]: steps taken of the bounds

vars == <<provider, upstream, row, product, locked, sync, call, mirror, edited, used>>

Offers == [price : Prices, active : BOOLEAN]
DynamicOffer == [price |-> 1, active |-> TRUE]

Unpublished ==
  [there |-> FALSE, active |-> FALSE, deleted |-> FALSE, link |-> None, mode |-> "manual",
   follow |-> FALSE, nobility |-> FALSE, adjusted |-> FALSE, markup |-> 0, price |-> 0,
   providerPrice |-> None]

IdleSync == [at |-> "idle", list |-> None, left |-> {}, seen |-> {}, ext |-> None, found |-> {},
             clean |-> TRUE]
IdleCall == [at |-> "idle", product |-> None, link |-> None, set |-> None]

TypeOK ==
  /\ provider \in [there : BOOLEAN, active : BOOLEAN, dealer : BOOLEAN]
  /\ upstream \in [Exts -> Offers \cup {None}]
  /\ row \in [Exts -> Offers \cup {None}]
  /\ locked \in BOOLEAN
  /\ mirror \in {None} \cup [Exts -> Offers \cup {None}]
  /\ edited \subseteq Products

Init ==
  /\ provider \in [there : {TRUE}, active : {TRUE}, dealer : BOOLEAN]
  /\ IF provider.dealer
       THEN upstream = [e \in Exts |-> IF e = DynamicExt THEN DynamicOffer ELSE None]
       ELSE upstream \in [Exts -> {None, DynamicOffer}]
  /\ row = [e \in Exts |-> None]
  /\ product = [p \in Products |-> Unpublished]
  /\ locked = FALSE
  /\ sync = [s \in Syncs |-> IdleSync]
  /\ call = [c \in Calls |-> IdleCall]
  /\ mirror = None
  /\ edited = {}
  /\ used = [syncs |-> 0, calls |-> 0, changes |-> 0]

----------------------------------------------------------------------------
(* The synchronisation                                                     *)

SyncTo(s, r) == sync' = [sync EXCEPT ![s] = r]
Release(s) == SyncTo(s, IdleSync) /\ locked' = FALSE

\* The lock's test left out: two synchronisations overlap.
MutLockFree == TRUE
LockFree == ~locked

\* No await lies between the test of the lock and its taking.
StartSync(s) ==
  /\ sync[s].at = "idle" /\ used.syncs < MaxSyncs
  /\ LockFree
  /\ locked' = TRUE
  /\ SyncTo(s, [IdleSync EXCEPT !.at = "find"])
  /\ used' = [used EXCEPT !.syncs = @ + 1]
  /\ UNCHANGED <<provider, upstream, row, product, call, mirror, edited>>

FindProvider(s) ==
  /\ sync[s].at = "find"
  /\ IF provider.there /\ provider.active
       THEN SyncTo(s, [sync[s] EXCEPT !.at = "fetch"]) /\ UNCHANGED locked
       ELSE Release(s)
  /\ UNCHANGED <<provider, upstream, row, product, call, mirror, edited, used>>

\* The answer: the provider's list, or an empty one.
Fetched(s) ==
  /\ sync[s].at = "fetch"
  /\ \E list \in {upstream, [e \in Exts |-> None]} :
       LET offered == {e \in Exts : list[e] # None}
       IN  /\ SyncTo(s, [sync[s] EXCEPT !.at = "upsert", !.list = list, !.left = offered,
                                        !.clean = offered # {}])
           /\ mirror' = None
           /\ edited' = {}
  /\ UNCHANGED <<provider, upstream, row, product, locked, call, used>>

FetchFails(s) ==
  /\ sync[s].at = "fetch"
  /\ Release(s)
  /\ UNCHANGED <<provider, upstream, row, product, call, mirror, edited, used>>

\* _upsertOne, run concurrently: any order; seen keeps only what was stored.
Upsert(s, e) ==
  /\ sync[s].at = "upsert" /\ e \in sync[s].left
  /\ \/ /\ row' = [row EXCEPT ![e] = sync[s].list[e]]
        /\ SyncTo(s, [sync[s] EXCEPT !.left = @ \ {e}, !.seen = @ \cup {e}])
     \/ /\ SyncTo(s, [sync[s] EXCEPT !.left = @ \ {e}, !.clean = FALSE])
        /\ UNCHANGED row
  /\ UNCHANGED <<provider, upstream, product, locked, call, mirror, edited, used>>

\* Rows that were not stored in this run; an empty list deactivates nothing.
Unseen(s) ==
  IF \A e \in Exts : sync[s].list[e] = None THEN {}
  ELSE {e \in Exts \ sync[s].seen : row[e] # None}

Deactivate(s) ==
  /\ sync[s].at = "upsert" /\ sync[s].left = {}
  /\ \/ /\ row' = [e \in Exts |-> IF e \in Unseen(s) THEN [row[e] EXCEPT !.active = FALSE]
                                  ELSE row[e]]
        /\ SyncTo(s, [sync[s] EXCEPT !.at = "prices", !.left = sync[s].seen])
     \/ /\ SyncTo(s, [sync[s] EXCEPT !.at = "prices", !.left = sync[s].seen, !.clean = FALSE])
        /\ Unseen(s) # {}
        /\ UNCHANGED row
  /\ UNCHANGED <<provider, upstream, product, locked, call, mirror, edited, used>>

\* The products that follow row e, with the markup they have now.
FindFollowers(s, e) ==
  /\ sync[s].at = "prices" /\ sync[s].ext = None /\ e \in sync[s].left
  /\ \/ SyncTo(s, [sync[s] EXCEPT !.left = @ \ {e}, !.ext = e,
                     !.found = {<<p, product[p].markup>> :
                                  p \in {q \in Products : /\ product[q].there
                                                          /\ product[q].link = e
                                                          /\ product[q].mode = "sync"
                                                          /\ ~product[q].nobility}}])
     \/ SyncTo(s, [sync[s] EXCEPT !.left = @ \ {e}, !.clean = FALSE])
  /\ UNCHANGED <<provider, upstream, row, product, locked, call, mirror, edited, used>>

\* findByIdAndUpdate by _id alone: the product's mode is not looked at again.  A
\* write that fails ends the row: the followers after it keep their old price.
SyncPrice(s) ==
  /\ sync[s].at = "prices" /\ sync[s].ext # None
  /\ IF sync[s].found = {}
       THEN SyncTo(s, [sync[s] EXCEPT !.ext = None]) /\ UNCHANGED product
       ELSE \/ \E f \in sync[s].found :
                 LET raw == sync[s].list[sync[s].ext].price
                 IN  /\ product' = [product EXCEPT ![f[1]].providerPrice = raw,
                                                   ![f[1]].price = raw + f[2]]
                     /\ SyncTo(s, [sync[s] EXCEPT !.found = @ \ {f}])
            \/ /\ SyncTo(s, [sync[s] EXCEPT !.ext = None, !.found = {}, !.clean = FALSE])
               /\ UNCHANGED product
  /\ UNCHANGED <<provider, upstream, row, locked, call, mirror, edited, used>>

Finish(s) ==
  /\ sync[s].at = "prices" /\ sync[s].ext = None /\ sync[s].left = {}
  /\ Release(s)
  /\ mirror' = IF sync[s].clean THEN sync[s].list ELSE mirror
  /\ UNCHANGED <<provider, upstream, row, product, call, edited, used>>

\* Listing a dealer's rows first stores its configured product.
EnsureDynamicProduct ==
  /\ provider.there /\ provider.dealer
  /\ row' = [row EXCEPT ![DynamicExt] = DynamicOffer]
  /\ UNCHANGED <<provider, upstream, product, locked, sync, call, mirror, edited, used>>

----------------------------------------------------------------------------
(* Requests of administrators on products                                  *)

CallTo(c, r) == call' = [call EXCEPT ![c] = r]
Count == used.calls < MaxCalls /\ used' = [used EXCEPT !.calls = @ + 1]

RowOf(e) == IF e = None THEN None ELSE row[e]

Marked(raw, markup) == raw + markup

\* What a price follows when it is linked to a row: the row's price with the
\* markup in sync mode or when there is one, else the price that was sent.
NewPrice(e, mode, markup, sent) ==
  IF e = None \/ (mode = "manual" /\ markup = 0) THEN sent ELSE Marked(row[e].price, markup)

\* publishFromProviderProduct reads the row, then looks for a product of it.
ReadRow(c, e, mode, markup, sent) ==
  /\ call[c].at = "idle" /\ Count
  /\ row[e] # None /\ row[e].active /\ provider.there /\ provider.active
  /\ CallTo(c, [IdleCall EXCEPT !.at = "check", !.link = e,
                  !.set = [Unpublished EXCEPT !.there = TRUE, !.active = TRUE, !.link = e,
                             !.mode = mode, !.follow = TRUE, !.markup = markup,
                             !.price = NewPrice(e, mode, markup, sent),
                             !.providerPrice = row[e].price]])
  /\ UNCHANGED <<provider, upstream, row, product, locked, sync, mirror, edited>>

CheckPublished(c) ==
  /\ call[c].at = "check"
  /\ IF \E p \in Products : product[p].there /\ product[p].link = call[c].link
       THEN CallTo(c, IdleCall)
       ELSE CallTo(c, [call[c] EXCEPT !.at = "create"])
  /\ UNCHANGED <<provider, upstream, row, product, locked, sync, mirror, edited, used>>

\* createProduct links without either check; a Nobility product is manual.
ReadForCreate(c, e, mode, markup, sent, nobility) ==
  /\ call[c].at = "idle" /\ Count
  /\ e # None => RowOf(e) # None
  /\ nobility => e # None /\ mode = "manual"
  /\ CallTo(c, [IdleCall EXCEPT !.at = "create", !.link = e,
                  !.set = [Unpublished EXCEPT !.there = TRUE, !.active = TRUE, !.link = e,
                             !.mode = mode, !.follow = TRUE, !.nobility = nobility,
                             !.markup = markup,
                             !.price = IF nobility THEN sent ELSE NewPrice(e, mode, markup, sent),
                             !.providerPrice = IF e = None \/ nobility THEN None
                                               ELSE row[e].price]])
  /\ UNCHANGED <<provider, upstream, row, product, locked, sync, mirror, edited>>

Create(c) ==
  /\ call[c].at = "create"
  /\ \E p \in Products :
       /\ ~product[p].there
       /\ product' = [product EXCEPT ![p] = call[c].set]
       /\ edited' = edited \cup {p}
  /\ CallTo(c, IdleCall)
  /\ UNCHANGED <<provider, upstream, row, locked, sync, mirror, used>>

NoPatch == [mode |-> None, follow |-> None, markup |-> None, price |-> None, link |-> None,
            adjusted |-> None]
Patches ==
  LET alone(f, values) == {[NoPatch EXCEPT ![f] = v] : v \in values}
  IN  alone("mode", {"manual", "sync"}) \cup alone("follow", BOOLEAN)
        \cup alone("markup", Markups) \cup alone("price", Prices)
        \cup alone("link", Exts) \cup alone("adjusted", BOOLEAN)

Sent(new, old) == IF new = None THEN old ELSE new

\* updateProduct on the product and the row it populated: the fields it saves.
\* A change of syncPriceWithProvider alone moves the mode after the pricing.
Updated(d, patch, linked) ==
  LET mode     == Sent(patch.mode, d.mode)
      markup   == Sent(patch.markup, d.markup)
      adjusted == Sent(patch.adjusted, d.adjusted)
      relinked == patch.link \notin {None, d.link}
      reprice  == IF relinked \/ adjusted \/ patch.markup # None THEN TRUE
                  ELSE mode = "sync" /\ mode # d.mode
      follows  == linked # None /\ ~d.nobility /\ reprice
      follow   == IF patch.follow # None THEN patch.follow
                  ELSE IF patch.mode # None THEN mode = "sync" ELSE d.follow
  IN  IF d.nobility
      THEN [d EXCEPT !.mode = "manual", !.follow = FALSE, !.markup = markup,
                     !.adjusted = adjusted, !.link = Sent(patch.link, d.link),
                     !.providerPrice = None]
      ELSE [d EXCEPT !.mode = IF patch.follow = None THEN mode
                              ELSE IF patch.follow THEN "sync" ELSE "manual",
                     !.follow = follow, !.markup = markup, !.adjusted = adjusted,
                     !.link = Sent(patch.link, d.link),
                     !.providerPrice = IF follows THEN linked.price ELSE d.providerPrice,
                     !.price = IF follows
                               THEN Marked(linked.price, IF adjusted /\ ~relinked THEN 0
                                                         ELSE markup)
                               ELSE IF mode = "manual" THEN Sent(patch.price, d.price)
                               ELSE d.price]

\* Mongoose saves the fields that differ from those it loaded.
Changed(old, new) == [f \in {g \in DOMAIN old : old[g] # new[g]} |-> new[f]]

ReadForUpdate(c, p, patch) ==
  /\ call[c].at = "idle" /\ Count
  /\ product[p].there
  /\ CallTo(c, [IdleCall EXCEPT !.at = "save", !.product = p,
                  !.set = Changed(product[p],
                                  Updated(product[p], patch,
                                          RowOf(Sent(patch.link, product[p].link))))])
  /\ UNCHANGED <<provider, upstream, row, product, locked, sync, mirror, edited>>

\* toggleProductStatus and deleteProduct: also read, then save.
ReadForStatus(c, p) ==
  /\ call[c].at = "idle" /\ Count
  /\ product[p].there
  /\ \/ CallTo(c, [IdleCall EXCEPT !.at = "save", !.product = p,
                     !.set = [active |-> ~product[p].active]])
     \/ /\ ~product[p].deleted
        /\ CallTo(c, [IdleCall EXCEPT !.at = "save", !.product = p,
                        !.set = Changed(product[p], [product[p] EXCEPT !.deleted = TRUE,
                                                                       !.active = FALSE])])
  /\ UNCHANGED <<provider, upstream, row, product, locked, sync, mirror, edited>>

Save(c) ==
  /\ call[c].at = "save"
  /\ LET p == call[c].product
         set == call[c].set
     IN  /\ product' = [product EXCEPT ![p] = [f \in DOMAIN product[p] |->
                                                 IF f \in DOMAIN set THEN set[f]
                                                 ELSE product[p][f]]]
         /\ edited' = edited \cup {p}
  /\ CallTo(c, IdleCall)
  /\ UNCHANGED <<provider, upstream, row, locked, sync, mirror, used>>

\* deleteProvider reads the rows' ids, detaches products, deletes the provider.
BeginDelete(c) ==
  /\ call[c].at = "idle" /\ Count
  /\ provider.there
  /\ CallTo(c, [IdleCall EXCEPT !.at = "detach", !.set = {e \in Exts : row[e] # None}])
  /\ UNCHANGED <<provider, upstream, row, product, locked, sync, mirror, edited>>

\* The products of the rows read; one of a row stored since, only if it names the
\* provider itself, which createProduct leaves to its caller.
Detach(c) ==
  /\ call[c].at = "detach"
  /\ \E linked \in SUBSET {p \in Products : product[p].there /\ product[p].link # None} :
         /\ \A p \in Products : product[p].there /\ product[p].link \in call[c].set => p \in linked
         /\ product' = [p \in Products |->
                          IF p \in linked
                          THEN [product[p] EXCEPT !.link = None, !.mode = "manual",
                                  !.follow = FALSE, !.adjusted = FALSE, !.providerPrice = None]
                          ELSE product[p]]
         /\ edited' = edited \cup linked
  /\ CallTo(c, [call[c] EXCEPT !.at = "remove"])
  /\ UNCHANGED <<provider, upstream, row, locked, sync, mirror, used>>

RemoveProvider(c) ==
  /\ call[c].at = "remove"
  /\ provider' = [provider EXCEPT !.there = FALSE]
  /\ CallTo(c, IdleCall)
  /\ UNCHANGED <<upstream, row, product, locked, sync, mirror, edited, used>>

ToggleProvider ==
  /\ provider.there /\ Count
  /\ provider' = [provider EXCEPT !.active = ~@]
  /\ UNCHANGED <<upstream, row, product, locked, sync, call, mirror, edited>>

----------------------------------------------------------------------------
(* The surroundings                                                        *)

\* The provider reprices, withdraws or lists a product.
UpstreamChange ==
  /\ used.changes < MaxChanges /\ ~provider.dealer
  /\ \E e \in Exts, o \in Offers \cup {None} :
       o # upstream[e] /\ upstream' = [upstream EXCEPT ![e] = o]
  /\ used' = [used EXCEPT !.changes = @ + 1]
  /\ UNCHANGED <<provider, row, product, locked, sync, call, mirror, edited>>

\* The process restarts: the lock and everything in flight are forgotten.
Restart ==
  /\ locked /\ used.changes < MaxChanges
  /\ locked' = FALSE
  /\ sync' = [s \in Syncs |-> IdleSync]
  /\ call' = [c \in Calls |-> IdleCall]
  /\ used' = [used EXCEPT !.changes = @ + 1]
  /\ UNCHANGED <<provider, upstream, row, product, mirror, edited>>

SyncStep(s) ==
  \/ StartSync(s) \/ FindProvider(s) \/ Fetched(s) \/ FetchFails(s)
  \/ \E e \in Exts : Upsert(s, e) \/ FindFollowers(s, e)
  \/ Deactivate(s) \/ SyncPrice(s) \/ Finish(s)

CallStep(c) ==
  \/ \E mode \in {"manual", "sync"}, markup \in Markups, sent \in Prices :
       \/ \E e \in Exts : ReadRow(c, e, mode, markup, sent)
       \/ \E e \in Exts \cup {None}, nobility \in BOOLEAN :
            ReadForCreate(c, e, mode, markup, sent, nobility)
  \/ CheckPublished(c) \/ Create(c)
  \/ \E p \in Products : ReadForStatus(c, p) \/ \E patch \in Patches : ReadForUpdate(c, p, patch)
  \/ Save(c) \/ BeginDelete(c) \/ Detach(c) \/ RemoveProvider(c)

Next ==
  \/ \E s \in Syncs : SyncStep(s)
  \/ \E c \in Calls : CallStep(c)
  \/ EnsureDynamicProduct \/ ToggleProvider \/ UpstreamChange \/ Restart

Spec == Init /\ [][Next]_vars

----------------------------------------------------------------------------
\* After a clean synchronisation the active rows are what the provider listed
\* as active, at its prices, until the next fetch.
RowsMirror ==
  mirror # None =>
    \A e \in Exts :
      IF mirror[e] = None THEN row[e] = None \/ ~row[e].active ELSE row[e] = mirror[e]

\* ... and a product that follows a listed row, and that nobody saved since
\* the fetch, is charged at the listed price with its own markup.
ProductsMirror ==
  mirror # None =>
    \A p \in Products \ edited :
      /\ product[p].there /\ product[p].mode = "sync" /\ ~product[p].nobility
      /\ product[p].link # None
      /\ mirror[product[p].link] # None
      => /\ product[p].providerPrice = mirror[product[p].link].price
         /\ product[p].price = mirror[product[p].link].price + product[p].markup

\* The lock is held exactly while a synchronisation is in flight.
LockHeld == locked = (\E s \in Syncs : sync[s].at # "idle")

SyncMirrors == RowsMirror /\ ProductsMirror /\ LockHeld

============================================================================
