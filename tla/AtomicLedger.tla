------------------------------ MODULE AtomicLedger ------------------------------
(***************************************************************************)
(* What the exact ledger promises its callers: a call takes effect in one  *)
(* step, on the balance as it is at that instant and together with its     *)
(* entry, or not at all.  There is no version to compare and nothing is    *)
(* tried again.                                                            *)
(***************************************************************************)
EXTENDS Integers

CONSTANTS Requests, Users, Suspended, Currencies, Rates, Start, Home, Amounts, Targets,
          Keys, None

VARIABLES balance,      \* units, credit limit and currency of each user, and how
                        \* often they changed
          entries,      \* of each user
          demand        \* what each call asks for, and how it ended

Kinds == {"DEBIT", "FORCED", "CREDIT", "REFUND", "BALANCE", "LIMIT", "CONVERT"}

Values == [kind \in Kinds |->
    CASE kind \in {"DEBIT", "FORCED", "CREDIT", "REFUND"} -> Amounts
      [] kind = "BALANCE" -> Targets
      [] kind = "LIMIT" -> Targets \cap Nat
      [] kind = "CONVERT" -> Currencies]

Init ==
    /\ balance = [u \in Users |->
          [units |-> Start[u].units, limit |-> Start[u].limit,
           currency |-> Home[u], changes |-> 0]]
    /\ entries = [u \in Users |-> {}]
    /\ demand = [r \in Requests |-> [at |-> "idle"]]

\* An amount is in the currency the wallet has when it is asked for.
Ask(r) ==
    /\ demand[r].at = "idle"
    /\ \E u \in Users, kind \in Kinds, key \in Keys \cup {None} : \E value \in Values[kind] :
          /\ key # None => kind = "CREDIT"
          /\ demand' = [demand EXCEPT ![r] =
                [at |-> "pending", user |-> u, kind |-> kind, value |-> value, key |-> key,
                 currency |-> IF kind = "CONVERT" THEN None ELSE balance[u].currency]]
    /\ UNCHANGED <<balance, entries>>

Pending(r) == demand[r].at = "pending"
Ends(r, how) == demand' = [demand EXCEPT ![r] = [at |-> how]]

After(d, b) ==
    CASE d.kind \in {"DEBIT", "FORCED"} -> [b EXCEPT !.units = @ - d.value]
      [] d.kind \in {"CREDIT", "REFUND"} -> [b EXCEPT !.units = @ + d.value]
      [] d.kind = "BALANCE" -> [b EXCEPT !.units = d.value]
      [] d.kind = "LIMIT" -> [b EXCEPT !.limit = d.value]

\* A change of the units has an entry.
Entry(d, b, units) ==
    IF units = b.units THEN {}
    ELSE {[change |-> b.changes, before |-> b.units, after |-> units,
           currency |-> b.currency, key |-> d.key]}

\* A key stands for one entry.
Free(key) == key # None => \A u \in Users : \A entry \in entries[u] : entry.key # key

Mutate(r) ==
    LET d == demand[r]
        b == balance[d.user]
        after == After(d, b)
    IN  /\ Pending(r) /\ d.kind # "CONVERT"
        /\ d.currency = b.currency
        /\ d.kind = "DEBIT" => d.user \notin Suspended /\ b.units + b.limit >= d.value
        /\ after.units # b.units => Free(d.key)
        /\ balance' = [balance EXCEPT ![d.user] = [after EXCEPT !.changes = b.changes + 1]]
        /\ entries' = [entries EXCEPT ![d.user] = @ \cup Entry(d, b, after.units)]
        /\ Ends(r, "done")

\* n is an integer nearest to a / b.
Nearest(n, a, b) == 2 * (n * b - a) \in -b..b

\* Units and limit at the rates of the two currencies.
Convert(r) ==
    LET d == demand[r]
        b == balance[d.user]
    IN  /\ Pending(r) /\ d.kind = "CONVERT" /\ b.currency # d.value
        /\ \E from, to \in Rates :
              LET after == balance'[d.user]
              IN  /\ Nearest(after.units, b.units * to, from)
                  /\ Nearest(after.limit, b.limit * to, from)
                  /\ balance' = [balance EXCEPT ![d.user] =
                        [units |-> after.units, limit |-> after.limit,
                         currency |-> d.value, changes |-> b.changes + 1]]
        /\ Ends(r, "done")
        /\ UNCHANGED entries

Converted(r) ==
    /\ Pending(r) /\ demand[r].kind = "CONVERT"
    /\ balance[demand[r].user].currency = demand[r].value
    /\ Ends(r, "done")
    /\ UNCHANGED <<balance, entries>>

\* Refused, or given up against other calls.
Fail(r) ==
    /\ Pending(r)
    /\ Ends(r, "failed")
    /\ UNCHANGED <<balance, entries>>

vars == <<balance, entries, demand>>

\* Stuttering comes first because TLC looks at it first: most steps of an
\* implementation are no step here.
Next ==
    \/ UNCHANGED vars
    \/ \E r \in Requests : Ask(r) \/ Mutate(r) \/ Convert(r) \/ Converted(r) \/ Fail(r)

Spec == Init /\ [][Next]_vars
================================================================================
