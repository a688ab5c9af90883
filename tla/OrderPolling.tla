---------------------------- MODULE OrderPolling ----------------------------
(***************************************************************************)
(* The status poll of orders/orderPolling: the PROCESSING orders grouped   *)
(* by provider, a pool of workers that takes the groups from a shared      *)
(* index, checkOrders() in batches, and each answer handed to the order of *)
(* that provider it is for.  What an order does with its answer is         *)
(* OrderSettlement's matter; here it leaves PROCESSING or does not.        *)
(***************************************************************************)
EXTENDS Integers, Sequences, FiniteSets, FiniteSetsExt

CONSTANTS
    Orders,
    Providers,
    Ids,             \* provider order ids; two providers may give the same one
    ProviderOf,      \* [Orders -> Providers \cup {None}]
    IdOf,            \* [Orders -> Ids]
    Workers,         \* MAX_CONCURRENT_PROVIDERS of them
    MaxBatchSize,
    MaxCycles,       \* bound: ticks that start a poll
    None

VARIABLES
    status,      \* PROCESSING, SETTLED or MANUAL_REVIEW
    usable,      \* the provider exists, is active and has an adapter
    report,      \* what each provider says of each of its ids
    running,     \* the job's lock
    cycles,      \* bounded
    groups,      \* the tasks of this poll: the loaded orders of each provider, in some order
    index,       \* the next task
    worker,      \* the group a worker is at, what it has not asked for, what it has answers for
    settled,     \* the settlements of the tasks
    counts,      \* the result of each task: completed and failed, pending, and
                 \* those moved to manual review, which its pending leaves out
    handed       \* how often, and with which answers, each order was processed in this poll

pollVars == <<status, usable, report, running, cycles, groups, index, worker, settled,
              counts, handed>>

Idle == [group |-> None, orders |-> {}, left |-> {}, batch |-> {}]
NoCounts == [done |-> 0, pending |-> 0, moved |-> 0]
Total(c) == c.done + c.pending + c.moved
Nothing == [o \in Orders |-> [times |-> 0, answers |-> {}]]
Answers == {"Completed", "Cancelled", "absent"}

Init ==
    /\ status = [o \in Orders |-> "PROCESSING"]
    /\ usable \in [Providers -> BOOLEAN]
    /\ report \in [Providers -> [Ids -> Answers]]
    /\ running = FALSE
    /\ cycles = 0
    /\ groups = <<>>
    /\ index = 1
    /\ worker = [w \in Workers |-> Idle]
    /\ settled = {}
    /\ counts = <<>>
    /\ handed = Nothing

\* Maps keep their keys in the order they were first set in: any, here.
GroupsOf(orders) ==
    LET keys == {ProviderOf[o] : o \in orders} IN
    {[i \in 1..Cardinality(keys) |->
        [provider |-> key[i], orders |-> {o \in orders : ProviderOf[o] = key[i]}]] :
     key \in {s \in [1..Cardinality(keys) -> keys] : \A x \in keys : \E i \in DOMAIN s : s[i] = x}}

Tick ==
    /\ ~running
    /\ cycles < MaxCycles
    /\ cycles' = cycles + 1
    /\ LET loaded == {o \in Orders : status[o] = "PROCESSING"} IN
       /\ loaded # {}
       /\ groups' \in GroupsOf(loaded)
    /\ running' = TRUE
    /\ index' = 1
    /\ settled' = {}
    /\ counts' = [i \in DOMAIN groups' |-> NoCounts]
    /\ handed' = Nothing
    /\ UNCHANGED <<status, usable, report, worker>>

\* index++ comes before the await, so that no two workers take one task.
MutTaken == index
Taken == index + 1

Take(w) ==
    /\ running
    /\ worker[w].group = None
    /\ index <= Len(groups)
    /\ index' = Taken
    /\ worker' = [worker EXCEPT ![w] =
                    [group |-> index, orders |-> groups[index].orders,
                     left |-> groups[index].orders, batch |-> {}]]
    /\ UNCHANGED <<status, usable, report, running, cycles, groups, settled, counts, handed>>

Provider(w) == groups[worker[w].group].provider
Unusable(p) == p \notin {q \in Providers : usable[q]}

\* moveOrdersToManualReview: what is no longer PROCESSING is not moved, and counts as pending.
MoveToManualReview(w) ==
    /\ worker[w].group # None
    /\ Unusable(Provider(w))
    /\ \E moved \in SUBSET worker[w].left :
        LET open == {o \in worker[w].left : status[o] = "PROCESSING"}
            failed == moved # open IN
        /\ moved \subseteq open
        /\ status' = [o \in Orders |-> IF o \in moved THEN "MANUAL_REVIEW" ELSE status[o]]
        /\ settled' = settled \cup {[group |-> worker[w].group, ok |-> ~failed]}
        /\ counts' = IF failed THEN counts
                     ELSE [counts EXCEPT
                             ![worker[w].group].moved = @ + Cardinality(moved),
                             ![worker[w].group].pending = @ + Cardinality(worker[w].left \ moved)]
    /\ worker' = [worker EXCEPT ![w] = Idle]
    /\ UNCHANGED <<usable, report, running, cycles, groups, index, handed>>

\* checkOrders() of the next batch: an answer, or an error for the whole batch.
CheckOrders(w) ==
    /\ worker[w].group # None
    /\ ~Unusable(Provider(w))
    /\ worker[w].batch = {} /\ worker[w].left # {}
    /\ \E batch \in SUBSET worker[w].left :
        /\ Cardinality(batch) = Min({MaxBatchSize, Cardinality(worker[w].left)})
        /\ \/ /\ worker' = [worker EXCEPT ![w].left = @ \ batch, ![w].batch = batch]
              /\ UNCHANGED counts
           \/ /\ worker' = [worker EXCEPT ![w].left = @ \ batch]
              /\ counts' = [counts EXCEPT ![worker[w].group].pending = @ + Cardinality(batch)]
    /\ UNCHANGED <<status, usable, report, running, cycles, groups, index, settled, handed>>

\* resultMap.get(order.providerOrderId), then processOrderStatusResult, which may throw.
Process(w, o) ==
    LET answer == report[Provider(w)][IdOf[o]] IN
    /\ o \in worker[w].batch
    /\ worker' = [worker EXCEPT ![w].batch = @ \ {o}]
    /\ \/ /\ answer = "absent"
          /\ counts' = [counts EXCEPT ![worker[w].group].pending = @ + 1]
          /\ UNCHANGED <<status, handed>>
       \/ /\ answer # "absent"
          /\ handed' = [handed EXCEPT ![o] =
                          [times |-> @.times + 1, answers |-> @.answers \cup {answer}]]
          /\ \/ /\ status[o] = "PROCESSING"
                /\ status' = [status EXCEPT ![o] = "SETTLED"]
                /\ counts' = [counts EXCEPT ![worker[w].group].done = @ + 1]
             \/ /\ counts' = [counts EXCEPT ![worker[w].group].pending = @ + 1]
                /\ UNCHANGED status
    /\ UNCHANGED <<usable, report, running, cycles, groups, index, settled>>

Return(w) ==
    /\ worker[w].group # None
    /\ ~Unusable(Provider(w))
    /\ worker[w].left = {} /\ worker[w].batch = {}
    /\ settled' = settled \cup {[group |-> worker[w].group, ok |-> TRUE]}
    /\ worker' = [worker EXCEPT ![w] = Idle]
    /\ UNCHANGED <<status, usable, report, running, cycles, groups, index, counts, handed>>

Drained == index > Len(groups) /\ \A w \in Workers : worker[w].group = None

EndPoll ==
    /\ running
    /\ Drained
    /\ running' = FALSE
    /\ UNCHANGED <<status, usable, report, cycles, groups, index, worker, settled, counts, handed>>

\* An administrator or the fulfilment job settles an order meanwhile.
SettledElsewhere(o) ==
    /\ status[o] = "PROCESSING"
    /\ status' = [status EXCEPT ![o] = "SETTLED"]
    /\ UNCHANGED <<usable, report, running, cycles, groups, index, worker, settled, counts, handed>>

Next ==
    \/ Tick \/ EndPoll
    \/ \E w \in Workers :
        \/ Take(w) \/ MoveToManualReview(w) \/ CheckOrders(w) \/ Return(w)
        \/ \E o \in Orders : Process(w, o)
    \/ \E o \in Orders : SettledElsewhere(o)

Spec == Init /\ [][Next]_pollVars

-----------------------------------------------------------------------------
\* An order is processed at most once in a poll, and only with what its own
\* provider says of it; no two workers are at one group.  One task's failure is
\* its own: when the poll ends each task has been settled, and each that did not
\* throw, whatever became of the others, has a result that counts every order of
\* its group once (runWithConcurrency, pollProviderGroup).
PollSound ==
    /\ \A o \in Orders :
        /\ handed[o].times <= 1
        /\ handed[o].times = 1 => handed[o].answers = {report[ProviderOf[o]][IdOf[o]]}
    /\ \A v, w \in Workers : v # w /\ worker[v].group # None => worker[v].group # worker[w].group
    /\ \A s \in settled :
          s.ok => Total(counts[s.group]) = Cardinality(groups[s.group].orders)
    /\ running /\ Drained => {s.group : s \in settled} = DOMAIN groups
=============================================================================
