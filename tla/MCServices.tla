------------------------------ MODULE MCServices ------------------------------
(***************************************************************************)
(* Small instances of the services around orders and payments, which share *)
(* no state that their properties speak of.  A behaviour is one of them:   *)
(* an order for an irreversible provider call, accounts and sub-agents,    *)
(* registration, one-time credentials, target orders, the catalogue, the   *)
(* answers of the adapters, the status poll, the Hago connection, Hago     *)
(* quotes, the resellers' API, notifications, the WhatsApp client.  k1 and *)
(* k2 are whatever acts concurrently in it, a1 and a2 the documents acted  *)
(* upon, q1 the one call of executeOrder that an order gets.               *)
(***************************************************************************)
EXTENDS ProviderServices, OrderServices, CustomerServices, TLC

CONSTANTS
    k1, k2, q1, a1, a2, u1, g1, e1, e2, f1, f2, c1, c2, x1, y1, m1, s1, v1, p1, p2, t1, t2

VARIABLE part

Actor == {k1, k2}
Document == {a1, a2}

MCProviderOf == [o \in {e1, e2, f1} |-> IF o = f1 THEN p2 ELSE p1]
MCIdOf == [o \in {e1, e2, f1} |-> IF o = e2 THEN 2 ELSE 1]

\* The parts that stand still start in one way.
MCInit ==
    /\ part \in {"mutations", "accounts", "registration", "email", "otp", "profile",
                 "targets", "listing", "products", "answers", "poll", "hago", "nobility",
                 "reseller", "notices", "chat"}
    /\ Init /\ (part = "mutations" \/ service = "hago")
    /\ Account!Init
    /\ Register!Init /\ (part = "registration" \/ Register!Existing = {})
    /\ Credential!Init
    /\ Target!Init /\ (part = "targets" \/ app.price = 1)
    /\ Catalog!Init
    /\ CASE part = "products" -> offers[e1] = None
         [] part = "listing"  -> TRUE
         [] OTHER -> ~provider.dealer /\ offers[e1] = None /\ offers[x1] = None
    /\ Answers!Init /\ (part = "answers" \/ adapter = "toros")
    /\ report \in {[p \in {p1, p2} |-> [id \in {1, 2} |->
                      CASE id = 2 /\ p = p2 -> "absent"
                        [] id = 1 /\ p = p2 -> other
                        [] OTHER -> IF id = 1 THEN "Cancelled" ELSE "Completed"]] :
                   other \in IF part = "poll" THEN {"Completed", "absent"} ELSE {"absent"}}
    /\ Poll!Init /\ (part = "poll" \/ \A p \in {p1, p2} : usable[p])
    /\ Hago!Init
    /\ Nobility!Init /\ article.price = 1 /\ rate = 3 /\ (part = "nobility" \/ ~exact)
    /\ Reseller!Init /\ (part = "reseller" \/ Reseller!Stored = {})
    /\ Notice!Init
    /\ Chat!Init

\* Accounts are blocked or changed where one code and one profile are in use.
RegisterNext ==
    /\ part = "registration" /\ Register!Next
    /\ changes' = 0 \/ \A u \in Document : user'[u].code # c2 /\ user'[u].google # f2

CredentialNext ==
    \/ part = "email" /\ Credential!EmailNext
    \/ part = "otp" /\ Credential!OtpNext
    \/ part = "profile" /\ Credential!ProfileNext
    \/ part \in {"email", "otp", "profile"}
       /\ (Credential!Expire \/ \E s \in Actor : Credential!Save(s))

\* One request and two listed products, or one product with two requests or two syncs.
CatalogueNext ==
    \/ part = "listing" /\ Catalog!Next /\ used'.calls <= 1
    \/ part = "products" /\ Catalog!Next /\ offers'[e1] = None
       /\ (used'.calls <= 1 \/ used'.syncs <= 1)

MCNext ==
    /\ UNCHANGED part
    /\ \/ part = "mutations" /\ Next
       \/ part # "mutations" /\ UNCHANGED mutationVars
    /\ \/ part = "accounts" /\ Account!Next
       \/ part # "accounts" /\ UNCHANGED accountVars
    /\ \/ RegisterNext
       \/ part # "registration" /\ UNCHANGED registerVars
    /\ \/ CredentialNext
       \/ part \notin {"email", "otp", "profile"} /\ UNCHANGED credentialVars
    /\ \/ part = "targets" /\ Target!Next
       \/ part # "targets" /\ UNCHANGED targetVars
    /\ \/ CatalogueNext
       \/ part \notin {"listing", "products"} /\ UNCHANGED catalogueVars
    /\ \/ part = "answers" /\ Answers!Next
       \/ part # "answers" /\ UNCHANGED answerVars
    /\ \/ part = "poll" /\ Poll!Next
       \/ part # "poll" /\ UNCHANGED pollVars
    /\ \/ part = "hago" /\ Hago!Next
       \/ part # "hago" /\ UNCHANGED hagoVars
    /\ \/ part = "nobility" /\ Nobility!Next
       \/ part # "nobility" /\ UNCHANGED nobilityVars
    /\ \/ part = "reseller" /\ Reseller!Next
       \/ part # "reseller" /\ UNCHANGED resellerVars
    /\ \/ part = "notices" /\ Notice!Next
       \/ part # "notices" /\ UNCHANGED noticeVars
    /\ \/ part = "chat" /\ Chat!Next
       \/ part # "chat" /\ UNCHANGED chatVars

MCSpec ==
    MCInit /\ [][MCNext]_<<part, mutationVars, accountVars, registerVars, credentialVars,
                           targetVars, catalogueVars, answerVars, pollVars, hagoVars, nobilityVars,
                           resellerVars, noticeVars, chatVars>>

Symmetry == Permutations(Actor) \cup Permutations(Document)
================================================================================
