------------------------- MODULE PickRequestsProofs -------------------------
(***************************************************************************)
(* Theorems about PickRequests, for any number of requests, keys,          *)
(* payloads, replicas, faults and expiries and for either store: a         *)
(* standing claim yields one event and one pickId, an answer fits the      *)
(* payload it was asked with, and without faults an accepted pick is       *)
(* published.                                                              *)
(***************************************************************************)
EXTENDS PickRequests, TLAPS

(* Only a request with a key asks the store anything, and one that is not  *)
(* done has no answer yet.                                                 *)
RequestInv ==
    \A r \in Requests :
      /\ pc[r] \in {"claim", "lookup"} => req[r].key \in Keys
      /\ pc[r] # "done" => answer[r] = 0

(* An entry is the claim of a request that asked this store for this key   *)
(* with this payload, and has moved on to publish.                         *)
EntryInv ==
    \A s \in Stores, key \in Keys : store[s][key] # NoEntry =>
      LET e == store[s][key] IN
      /\ req[e.pick].key = key /\ StoreOf(e.pick) = s
      /\ req[e.pick].payload = e.payload
      /\ pc[e.pick] \in {"publish", "done"}

(* While no entry of a key was lost: before the key is granted nobody gets *)
(* past its claim but to fail; once it is, only its holder publishes, and  *)
(* whoever is accepted is given the holder's pickId.                       *)
ClaimInv ==
    \A r \in Requests : req[r].key \in Keys /\ ~Released(r) =>
      IF Holder(r) = NoEntry
        THEN /\ r \notin events
             /\ pc[r] = "claim" \/ (pc[r] = "done" /\ answer[r] \in {1, 503})
        ELSE /\ pc[r] = "publish" \/ r \in events => r = Holder(r).pick
             /\ answer[r] = 202 => pickId[r] = Holder(r).pick

(* Without faults, the holder of an entry is about to publish or has.      *)
Underway(r) == r \in events \/ pc[r] = "publish"

HolderInv ==
    faults = 0 =>
      \A s \in Stores, key \in Keys :
        store[s][key] # NoEntry => Underway(store[s][key].pick)

(* An answer carries a pickId if and only if it is a 202.                  *)
PickIdInv ==
    \A r \in Requests : answer[r] = 202 => pickId[r] \in Requests

Inv == /\ TypeOK /\ RequestInv /\ EntryInv /\ ClaimInv /\ HolderInv
       /\ PickIdInv /\ AnswerFitsPayload /\ AcceptedGetsPublished

-----------------------------------------------------------------------------
(* The steps, request by request and entry by entry.                       *)

(* No step changes what was asked or which store is in use.                *)
LEMMA Fixed ==
    ASSUME [Next]_vars
    PROVE  /\ shared' = shared /\ req' = req
           /\ \A r \in Requests : StoreOf(r)' = StoreOf(r)
<1>1. shared' = shared /\ req' = req
  BY DEF Next, vars, Claim, Lookup, Publish, StoreFails, PublishFails,
         PublishLost, ReplicaCrashes, Expire, AllAnswered
<1>2. QED
  BY <1>1 DEF StoreOf

(* What [f EXCEPT ![a][b] = c] is, entry by entry.                          *)
LEMMA EntryUpdated ==
    ASSUME NEW A, NEW B, NEW C, NEW f \in [A -> [B -> C]],
           NEW a \in A, NEW b \in B, NEW c \in C
    PROVE  /\ [f EXCEPT ![a][b] = c] \in [A -> [B -> C]]
           /\ [f EXCEPT ![a][b] = c][a][b] = c
           /\ \A x \in A, y \in B : x # a \/ y # b =>
                [f EXCEPT ![a][b] = c][x][y] = f[x][y]
<1>1. /\ [f EXCEPT ![a][b] = c] \in [A -> [B -> C]]
      /\ [f EXCEPT ![a][b] = c][a] = [f[a] EXCEPT ![b] = c]
      /\ \A x \in A : x # a => [f EXCEPT ![a][b] = c][x] = f[x]
  OBVIOUS
<1>2. f[a] \in [B -> C]
  OBVIOUS
<1>3. QED
  BY <1>1, <1>2

LEMMA StoreOfTyped ==
    ASSUME TypeOK, NEW r \in Requests
    PROVE  StoreOf(r) \in Stores
  BY DEF TypeOK, StoreOf, Stores, Input

(* setIfAbsent grants r's key to r and leaves every other entry alone.     *)
LEMMA GrantEffect ==
    ASSUME TypeOK, NEW r \in Requests, req[r].key \in Keys, Granted(r)
    PROVE  /\ store' \in [Stores -> [Keys -> Entry \cup {NoEntry}]]
           /\ store'[StoreOf(r)][req[r].key] = [pick |-> r, payload |-> req[r].payload]
           /\ \A s \in Stores, key \in Keys :
                s # StoreOf(r) \/ key # req[r].key => store'[s][key] = store[s][key]
<1>1. StoreOf(r) \in Stores
  BY StoreOfTyped
<1>2. [pick |-> r, payload |-> req[r].payload] \in Entry
  BY DEF TypeOK, Input, Entry
<1>3. QED
  BY <1>1, <1>2, EntryUpdated DEF TypeOK, Granted

LEMMA RespondEffect ==
    ASSUME TypeOK, NEW r \in Requests, NEW status \in {202, 409, 503},
           NEW pick \in Requests \cup {NoPick}, Respond(r, status, pick)
    PROVE  /\ pc' \in [Requests -> {"claim", "lookup", "publish", "done"}]
           /\ answer' \in [Requests -> {0, 1, 202, 409, 503}]
           /\ pickId' \in [Requests -> Requests \cup {NoPick}]
           /\ pc'[r] = "done" /\ answer'[r] = status /\ pickId'[r] = pick
           /\ \A o \in Requests \ {r} : /\ pc'[o] = pc[o] /\ answer'[o] = answer[o]
                                        /\ pickId'[o] = pickId[o]
  BY DEF TypeOK, Respond

LEMMA ContinueEffect ==
    ASSUME TypeOK, NEW r \in Requests, NEW s \in {"lookup", "publish"},
           Continue(r, s)
    PROVE  /\ pc' \in [Requests -> {"claim", "lookup", "publish", "done"}]
           /\ answer' = answer /\ pickId' = pickId
           /\ pc'[r] = s
           /\ \A o \in Requests \ {r} : pc'[o] = pc[o]
  BY DEF TypeOK, Continue

(* An entry in store a is lost with the replica a, and no other is.        *)
LEMMA CrashEffect ==
    ASSUME TypeOK, NEW a \in Replicas, ReplicaCrashes(a)
    PROVE  /\ store' \in [Stores -> [Keys -> Entry \cup {NoEntry}]]
           /\ released' \in [Stores -> [Keys -> BOOLEAN]]
           /\ pc' \in [Requests -> {"claim", "lookup", "publish", "done"}]
           /\ answer' \in [Requests -> {0, 1, 202, 409, 503}]
           /\ \A s \in Stores, key \in Keys :
                /\ s = a => /\ store'[s][key] = NoEntry
                            /\ released'[s][key] =
                                 (released[s][key] \/ store[s][key] # NoEntry)
                /\ s # a => /\ store'[s][key] = store[s][key]
                            /\ released'[s][key] = released[s][key]
           /\ \A r \in Requests :
                \/ pc'[r] = pc[r] /\ answer'[r] = answer[r]
                \/ pc[r] # "done" /\ pc'[r] = "done" /\ answer'[r] = 1
<1>1. a \in Stores
  BY DEF Stores
<1>2. /\ store' \in [Stores -> [Keys -> Entry \cup {NoEntry}]]
      /\ \A s \in Stores, key \in Keys :
           store'[s][key] = IF s = a THEN NoEntry ELSE store[s][key]
  BY <1>1 DEF TypeOK, ReplicaCrashes
<1>3. /\ released' \in [Stores -> [Keys -> BOOLEAN]]
      /\ \A s \in Stores, key \in Keys :
           released'[s][key] = IF s = a THEN released[s][key] \/ store[s][key] # NoEntry
                                        ELSE released[s][key]
  BY <1>1 DEF TypeOK, ReplicaCrashes
<1>4. /\ pc' \in [Requests -> {"claim", "lookup", "publish", "done"}]
      /\ answer' \in [Requests -> {0, 1, 202, 409, 503}]
      /\ \A r \in Requests :
           \/ pc'[r] = pc[r] /\ answer'[r] = answer[r]
           \/ pc[r] # "done" /\ pc'[r] = "done" /\ answer'[r] = 1
  BY DEF TypeOK, ReplicaCrashes
<1>5. QED
  BY <1>2, <1>3, <1>4

LEMMA ExpireEffect ==
    ASSUME TypeOK, NEW s \in Stores, NEW key \in Keys, Expire(s, key)
    PROVE  /\ store' \in [Stores -> [Keys -> Entry \cup {NoEntry}]]
           /\ released' \in [Stores -> [Keys -> BOOLEAN]]
           /\ store'[s][key] = NoEntry /\ released'[s][key]
           /\ \A t \in Stores, k \in Keys : t # s \/ k # key =>
                store'[t][k] = store[t][k] /\ released'[t][k] = released[t][k]
           /\ UNCHANGED <<pc, answer, pickId, events, faults>>
<1>1. /\ store' \in [Stores -> [Keys -> Entry \cup {NoEntry}]]
      /\ store'[s][key] = NoEntry
      /\ \A t \in Stores, k \in Keys : t # s \/ k # key => store'[t][k] = store[t][k]
  BY EntryUpdated DEF TypeOK, Expire
<1>2. /\ released' \in [Stores -> [Keys -> BOOLEAN]]
      /\ released'[s][key]
      /\ \A t \in Stores, k \in Keys :
           t # s \/ k # key => released'[t][k] = released[t][k]
  <2>1. released \in [Stores -> [Keys -> BOOLEAN]] /\ TRUE \in BOOLEAN
    BY DEF TypeOK
  <2>2. released' = [released EXCEPT ![s][key] = TRUE]
    BY DEF Expire
  <2>3. /\ released' = [released EXCEPT ![s] = [released[s] EXCEPT ![key] = TRUE]]
        /\ released[s] \in [Keys -> BOOLEAN]
    BY <2>1, <2>2
  <2>4. [released[s] EXCEPT ![key] = TRUE] \in [Keys -> BOOLEAN]
    BY <2>3
  <2>5. /\ released' \in [Stores -> [Keys -> BOOLEAN]]
        /\ released'[s] = [released[s] EXCEPT ![key] = TRUE]
        /\ \A t \in Stores : t # s => released'[t] = released[t]
    BY <2>1, <2>3, <2>4, Zenon
  <2>6. released'[s][key] /\ \A k \in Keys : k # key => released'[s][k] = released[s][k]
    BY <2>3, <2>5, Zenon
  <2>7. QED
    BY <2>5, <2>6
<1>3. QED
  BY <1>1, <1>2 DEF Expire

-----------------------------------------------------------------------------
LEMMA InvInit == Init => Inv
<1> SUFFICES ASSUME Init PROVE Inv
  OBVIOUS
<1>1. TypeOK
  BY PickRequestsAssumption DEF Init, TypeOK
<1>2. RequestInv
  BY DEF Init, RequestInv, Input
<1>3. \A s \in Stores, key \in Keys : store[s][key] = NoEntry
  BY DEF Init
<1>4. ClaimInv
  <2> SUFFICES ASSUME NEW r \in Requests, req[r].key \in Keys
               PROVE  /\ Holder(r) = NoEntry
                      /\ r \notin events /\ pc[r] = "claim"
    BY DEF ClaimInv
  <2>1. Holder(r) = NoEntry
    BY <1>1, <1>3, StoreOfTyped DEF Holder
  <2>2. QED
    BY <2>1, PickRequestsAssumption DEF Init
<1>5. EntryInv /\ HolderInv
  BY <1>3 DEF EntryInv, HolderInv
<1>6. PickIdInv /\ AnswerFitsPayload /\ AcceptedGetsPublished
  BY DEF Init, PickIdInv, AnswerFitsPayload, AcceptedGetsPublished
<1>7. QED
  BY <1>1, <1>2, <1>4, <1>5, <1>6 DEF Inv

(* Every step keeps the types, and no request gets to the store without a  *)
(* key or past its answer.                                                 *)
LEMMA TypeStep == Inv /\ [Next]_vars => TypeOK' /\ RequestInv'
<1> SUFFICES ASSUME Inv, [Next]_vars PROVE TypeOK' /\ RequestInv'
  OBVIOUS
<1> USE DEF Inv
<1>1. shared' = shared /\ req' = req
  BY Fixed
<1>2. ASSUME NEW r \in Requests, Claim(r) PROVE TypeOK' /\ RequestInv'
  <2>1. req[r].key \in Keys
    BY <1>2 DEF Claim, RequestInv
  <2>2. store' \in [Stores -> [Keys -> Entry \cup {NoEntry}]]
    <3>1. store \in [Stores -> [Keys -> Entry \cup {NoEntry}]]
      BY DEF TypeOK
    <3>2. Granted(r) \/ store' = store
      BY <1>2 DEF Claim
    <3>3. QED
      BY <2>1, <3>1, <3>2, GrantEffect
  <2>3. Continue(r, "publish") \/ Continue(r, "lookup")
    BY <1>2 DEF Claim
  <2>4. /\ pc' \in [Requests -> {"claim", "lookup", "publish", "done"}]
        /\ answer' = answer /\ pickId' = pickId
        /\ pc[r] = "claim" /\ pc'[r] \in {"lookup", "publish"}
        /\ \A o \in Requests \ {r} : pc'[o] = pc[o]
    BY <1>2, <2>3, ContinueEffect DEF Claim
  <2>5. UNCHANGED <<events, released, faults, expiries>>
    BY <1>2 DEF Claim
  <2>6. TypeOK'
    BY <1>1, <2>2, <2>4, <2>5 DEF TypeOK
  <2>7. RequestInv'
    BY <1>1, <2>1, <2>4 DEF RequestInv
  <2>8. QED
    BY <2>6, <2>7
<1>3. ASSUME NEW r \in Requests, NEW status \in {202, 409, 503},
             NEW pick \in Requests \cup {NoPick}, Respond(r, status, pick),
             store' \in [Stores -> [Keys -> Entry \cup {NoEntry}]],
             events' \subseteq Requests, released' = released, faults' \in Nat,
             expiries' = expiries
      PROVE  TypeOK' /\ RequestInv'
  <2>1. /\ pc' \in [Requests -> {"claim", "lookup", "publish", "done"}]
        /\ answer' \in [Requests -> {0, 1, 202, 409, 503}]
        /\ pickId' \in [Requests -> Requests \cup {NoPick}]
        /\ pc'[r] = "done"
        /\ \A o \in Requests \ {r} : pc'[o] = pc[o] /\ answer'[o] = answer[o]
    BY <1>3, RespondEffect
  <2>2. RequestInv'
    BY <1>1, <2>1 DEF RequestInv
  <2>3. QED
    BY <1>1, <1>3, <2>1, <2>2 DEF TypeOK
<1>4. ASSUME NEW r \in Requests, Lookup(r) PROVE TypeOK' /\ RequestInv'
  <2>1. UNCHANGED <<store, events, released, faults, expiries>>
    BY <1>4 DEF Lookup
  <2>2. CASE Continue(r, "publish")
    BY <1>1, <2>1, <2>2, ContinueEffect, <1>4 DEF Lookup, TypeOK, RequestInv
  <2>3. CASE Respond(r, 409, NoPick)
    BY <1>3, <2>1, <2>3 DEF TypeOK
  <2>4. CASE Holder(r) # NoEntry /\ Respond(r, 202, Holder(r).pick)
    <3>1. Holder(r).pick \in Requests
      BY <1>4, <2>4, StoreOfTyped DEF Lookup, RequestInv, Holder, TypeOK, Entry
    <3>2. QED
      BY <1>3, <2>1, <2>4, <3>1 DEF TypeOK
  <2>5. QED
    BY <1>4, <2>2, <2>3, <2>4 DEF Lookup
<1>5. ASSUME NEW r \in Requests, Publish(r) PROVE TypeOK' /\ RequestInv'
  BY <1>3, <1>5 DEF Publish, TypeOK
<1>6. ASSUME Fault PROVE faults' \in Nat
  BY <1>6 DEF Fault, TypeOK
<1>7. ASSUME NEW r \in Requests, StoreFails(r) PROVE TypeOK' /\ RequestInv'
  <2>1. req[r].key \in Keys
    BY <1>7 DEF StoreFails, RequestInv
  <2>2. store' \in [Stores -> [Keys -> Entry \cup {NoEntry}]]
    <3>1. store \in [Stores -> [Keys -> Entry \cup {NoEntry}]]
      BY DEF TypeOK
    <3>2. Granted(r) \/ store' = store
      BY <1>7 DEF StoreFails
    <3>3. QED
      BY <2>1, <3>1, <3>2, GrantEffect
  <2>3. QED
    BY <1>3, <1>6, <1>7, <2>2 DEF StoreFails, TypeOK
<1>8. ASSUME NEW r \in Requests, PublishFails(r) \/ PublishLost(r)
      PROVE  TypeOK' /\ RequestInv'
  BY <1>3, <1>6, <1>8 DEF PublishFails, PublishLost, TypeOK
<1>9. ASSUME NEW a \in Replicas, ReplicaCrashes(a) PROVE TypeOK' /\ RequestInv'
  <2>1. UNCHANGED <<pickId, events, expiries>> /\ faults' \in Nat
    BY <1>6, <1>9 DEF ReplicaCrashes
  <2>2. QED
    BY <1>1, <1>9, <2>1, CrashEffect DEF TypeOK, RequestInv
<1>10. ASSUME NEW s \in Stores, NEW key \in Keys, Expire(s, key)
       PROVE  TypeOK' /\ RequestInv'
  <2>1. expiries' \in Nat
    BY <1>10 DEF Expire, TypeOK
  <2>2. QED
    BY <1>1, <1>10, <2>1, ExpireEffect DEF TypeOK, RequestInv
<1>11. CASE UNCHANGED vars
  BY <1>11 DEF vars, TypeOK, RequestInv
<1>12. QED
  BY <1>2, <1>4, <1>5, <1>7, <1>8, <1>9, <1>10, <1>11 DEF Next, AllAnswered

-----------------------------------------------------------------------------
(* The steps of a request again, as what each does to the entry of its key *)
(* and to its own answer.                                                  *)
Others(r) ==
    \A o \in Requests \ {r} :
      pc'[o] = pc[o] /\ answer'[o] = answer[o] /\ pickId'[o] = pickId[o]

Grants(r) ==
    /\ Holder(r) = NoEntry
    /\ store'[StoreOf(r)][req[r].key] = [pick |-> r, payload |-> req[r].payload]
    /\ \A s \in Stores, key \in Keys :
         s # StoreOf(r) \/ key # req[r].key => store'[s][key] = store[s][key]

LEMMA HolderTyped ==
    ASSUME Inv, NEW r \in Requests, req[r].key \in Keys
    PROVE  /\ StoreOf(r) \in Stores
           /\ Holder(r) # NoEntry =>
                /\ Holder(r) \in Entry
                /\ Holder(r).pick \in Requests
                /\ req[Holder(r).pick].key = req[r].key
                /\ StoreOf(Holder(r).pick) = StoreOf(r)
                /\ req[Holder(r).pick].payload = Holder(r).payload
                /\ pc[Holder(r).pick] \in {"publish", "done"}
<1>1. StoreOf(r) \in Stores
  BY StoreOfTyped DEF Inv
<1>2. Holder(r) \in Entry \cup {NoEntry}
  BY <1>1 DEF Inv, TypeOK, Holder
<1>3. QED
  BY <1>1, <1>2 DEF Inv, EntryInv, Holder, Entry

LEMMA ClaimEffect ==
    ASSUME Inv, NEW r \in Requests, Claim(r)
    PROVE  /\ pc[r] = "claim" /\ req[r].key \in Keys
           /\ Others(r) /\ answer'[r] = 0 /\ answer'[r] = answer[r]
           /\ UNCHANGED <<events, released, faults>>
           /\ \/ Grants(r) /\ pc'[r] = "publish"
              \/ Holder(r) # NoEntry /\ store' = store /\ pc'[r] = "lookup"
<1>1. pc[r] = "claim" /\ req[r].key \in Keys /\ answer[r] = 0 /\ TypeOK
  BY DEF Inv, RequestInv, Claim
<1>2. CASE Holder(r) = NoEntry
  <2>1. Granted(r) /\ Continue(r, "publish")
    BY <1>2 DEF Claim
  <2>2. Grants(r)
    BY <1>1, <1>2, <2>1, GrantEffect DEF Grants
  <2>3. QED
    BY <1>1, <2>1, <2>2, ContinueEffect DEF Others, Claim
<1>3. CASE Holder(r) # NoEntry
  <2>1. store' = store /\ Continue(r, "lookup")
    BY <1>3 DEF Claim
  <2>2. QED
    BY <1>1, <1>3, <2>1, ContinueEffect DEF Others, Claim
<1>4. QED
  BY <1>2, <1>3

LEMMA LookupEffect ==
    ASSUME Inv, NEW r \in Requests, Lookup(r)
    PROVE  /\ pc[r] = "lookup" /\ req[r].key \in Keys
           /\ Others(r)
           /\ UNCHANGED <<store, events, released, faults>>
           /\ \/ /\ Holder(r) = NoEntry
                 /\ pc'[r] = "publish" /\ answer'[r] = 0 /\ answer'[r] = answer[r]
              \/ /\ Holder(r) # NoEntry /\ Holder(r).payload = req[r].payload
                 /\ pc'[r] = "done" /\ answer'[r] = 202
                 /\ pickId'[r] = Holder(r).pick
              \/ /\ Holder(r) # NoEntry /\ Holder(r).payload # req[r].payload
                 /\ pc'[r] = "done" /\ answer'[r] = 409
<1>1. pc[r] = "lookup" /\ req[r].key \in Keys /\ answer[r] = 0 /\ TypeOK
  BY DEF Inv, RequestInv, Lookup
<1>2. CASE Holder(r) = NoEntry
  <2>1. Continue(r, "publish")
    BY <1>2 DEF Lookup
  <2>2. QED
    BY <1>1, <1>2, <2>1, ContinueEffect DEF Others, Lookup
<1>3. CASE Holder(r) # NoEntry /\ Holder(r).payload = req[r].payload
  <2>1. Respond(r, 202, Holder(r).pick) /\ Holder(r).pick \in Requests
    BY <1>1, <1>3, HolderTyped DEF Lookup
  <2>2. QED
    BY <1>1, <1>3, <2>1, RespondEffect DEF Others, Lookup
<1>4. CASE Holder(r) # NoEntry /\ Holder(r).payload # req[r].payload
  <2>1. Respond(r, 409, NoPick)
    BY <1>4 DEF Lookup
  <2>2. QED
    BY <1>1, <1>4, <2>1, RespondEffect DEF Others, Lookup
<1>5. QED
  BY <1>2, <1>3, <1>4

(* Published, lost on the way, or failed: the request is done with its own *)
(* pickId, and only the first puts an event into the exchange.             *)
LEMMA PublishEffect ==
    ASSUME Inv, NEW r \in Requests, Publish(r) \/ PublishLost(r) \/ PublishFails(r)
    PROVE  /\ pc[r] = "publish" /\ Others(r) /\ pc'[r] = "done"
           /\ UNCHANGED <<store, released>>
           /\ \/ answer'[r] = 202 /\ pickId'[r] = r
              \/ answer'[r] = 503
           /\ events' \in {events, events \cup {r}}
           /\ \/ events' = events \cup {r} /\ faults' = faults
              \/ events' = events /\ faults' = faults + 1
<1>1. TypeOK
  BY DEF Inv
<1>2. Respond(r, 202, r) \/ Respond(r, 503, NoPick)
  BY DEF Publish, PublishLost, PublishFails
<1>3. /\ Others(r) /\ pc'[r] = "done"
      /\ \/ answer'[r] = 202 /\ pickId'[r] = r
         \/ answer'[r] = 503
  BY <1>1, <1>2, RespondEffect DEF Others
<1>4. QED
  BY <1>3 DEF Publish, PublishLost, PublishFails, Fault

LEMMA StoreFailsEffect ==
    ASSUME Inv, NEW r \in Requests, StoreFails(r)
    PROVE  /\ pc[r] \in {"claim", "lookup"} /\ req[r].key \in Keys
           /\ Others(r) /\ pc'[r] = "done" /\ answer'[r] = 503
           /\ UNCHANGED <<events, released>> /\ faults' = faults + 1
           /\ store' = store \/ (pc[r] = "claim" /\ Grants(r))
<1>1. pc[r] \in {"claim", "lookup"} /\ req[r].key \in Keys /\ TypeOK
  BY DEF Inv, RequestInv, StoreFails
<1>2. Others(r) /\ pc'[r] = "done" /\ answer'[r] = 503
  BY <1>1, RespondEffect DEF Others, StoreFails
<1>3. store' = store \/ (pc[r] = "claim" /\ Holder(r) = NoEntry /\ Granted(r))
  BY DEF StoreFails
<1>4. store' = store \/ (pc[r] = "claim" /\ Grants(r))
  BY <1>1, <1>3, GrantEffect DEF Grants
<1>5. QED
  BY <1>1, <1>2, <1>4 DEF StoreFails, Fault

-----------------------------------------------------------------------------
(* Any step, from one request's point of view: it stays put, makes one of  *)
(* its moves, or fails and a fault is counted.                             *)
Moves(r) ==
    \/ pc'[r] = pc[r] /\ answer'[r] = answer[r] /\ pickId'[r] = pickId[r]
    \/ /\ pc[r] = "claim" /\ answer'[r] = 0
       /\ \/ Holder(r) # NoEntry /\ pc'[r] = "lookup"
          \/ Grants(r) /\ pc'[r] = "publish"
    \/ /\ pc[r] = "lookup" /\ Holder(r) = NoEntry
       /\ pc'[r] = "publish" /\ answer'[r] = 0
    \/ /\ pc[r] = "lookup" /\ Holder(r) # NoEntry /\ pc'[r] = "done"
       /\ \/ /\ Holder(r).payload = req[r].payload
             /\ answer'[r] = 202 /\ pickId'[r] = Holder(r).pick
          \/ Holder(r).payload # req[r].payload /\ answer'[r] = 409
    \/ /\ pc[r] = "publish" /\ pc'[r] = "done"
       /\ answer'[r] = 202 /\ pickId'[r] = r
       /\ r \in events' \/ faults' # 0
    \/ pc[r] # "done" /\ pc'[r] = "done" /\ answer'[r] \in {1, 503} /\ faults' # 0

LEMMA EveryMove ==
    ASSUME Inv, [Next]_vars, NEW r \in Requests
    PROVE  Moves(r)
<1>1. faults \in Nat
  BY DEF Inv, TypeOK
<1>2. ASSUME NEW o \in Requests, Claim(o) PROVE Moves(r)
  BY <1>2, ClaimEffect DEF Moves, Others
<1>3. ASSUME NEW o \in Requests, Lookup(o) PROVE Moves(r)
  BY <1>3, LookupEffect DEF Moves, Others
<1>4. ASSUME NEW o \in Requests, Publish(o) \/ PublishLost(o) \/ PublishFails(o)
      PROVE  Moves(r)
  <2>1. CASE r # o
    BY <1>4, <2>1, PublishEffect DEF Moves, Others
  <2>2. CASE r = o /\ Publish(o)
    BY <1>4, <2>2, PublishEffect DEF Moves, Publish, Respond, Inv, TypeOK
  <2>3. CASE r = o /\ (PublishLost(o) \/ PublishFails(o))
    <3>1. faults' # 0
      BY <1>1, <2>3 DEF PublishLost, PublishFails, Fault
    <3>2. QED
      BY <1>4, <2>3, <3>1, PublishEffect DEF Moves
  <2>4. QED
    BY <1>4, <2>1, <2>2, <2>3
<1>5. ASSUME NEW o \in Requests, StoreFails(o) PROVE Moves(r)
  BY <1>1, <1>5, StoreFailsEffect DEF Moves, Others
<1>6. ASSUME NEW a \in Replicas, ReplicaCrashes(a) PROVE Moves(r)
  <2>1. pickId' = pickId /\ faults' # 0
    BY <1>1, <1>6 DEF ReplicaCrashes, Fault
  <2>2. QED
    BY <1>6, <2>1, CrashEffect DEF Moves, Inv
<1>7. ASSUME NEW s \in Stores, NEW key \in Keys, Expire(s, key) PROVE Moves(r)
  BY <1>7 DEF Moves, Expire
<1>8. CASE UNCHANGED vars
  BY <1>8 DEF vars, Moves
<1>9. QED
  BY <1>2, <1>3, <1>4, <1>5, <1>6, <1>7, <1>8 DEF Next, AllAnswered

(* Any step, from the events' point of view: they stay, and a new one is   *)
(* that of a request that was about to publish.                            *)
LEMMA EventStep ==
    ASSUME Inv, [Next]_vars
    PROVE  /\ events \subseteq events'
           /\ \A r \in events' : r \in events \/ pc[r] = "publish"
<1>1. ASSUME NEW o \in Requests, Publish(o) \/ PublishLost(o) \/ PublishFails(o)
      PROVE  pc[o] = "publish" /\ events' \in {events, events \cup {o}}
  BY <1>1, PublishEffect
<1>2. CASE events' = events
  BY <1>2
<1>3. CASE \E o \in Requests : Publish(o) \/ PublishLost(o) \/ PublishFails(o)
  BY <1>1, <1>3
<1>4. CASE \E r \in Requests : Claim(r) \/ Lookup(r) \/ StoreFails(r)
  BY <1>2, <1>4 DEF Claim, Lookup, StoreFails
<1>5. CASE UNCHANGED vars \/ (\E a \in Replicas : ReplicaCrashes(a))
           \/ (\E s \in Stores, key \in Keys : Expire(s, key))
  BY <1>2, <1>5 DEF vars, ReplicaCrashes, Expire
<1>6. QED
  BY <1>3, <1>4, <1>5 DEF Next, AllAnswered

(* Any step, from one entry's point of view: it stays, it is lost and its  *)
(* key is released, or a claim is granted to a request whose next move is  *)
(* to publish, unless it died.                                             *)
GrantedTo(r, s, key) ==
    /\ pc[r] = "claim" /\ Grants(r) /\ s = StoreOf(r) /\ key = req[r].key
    /\ pc'[r] = "publish" \/ (pc'[r] = "done" /\ answer'[r] = 503 /\ faults' # 0)
    /\ Others(r) /\ events' = events

EntryMoves(s, key) ==
    /\ released[s][key] => released'[s][key]
    /\ \/ store'[s][key] = store[s][key]
       \/ store'[s][key] = NoEntry /\ released'[s][key]
       \/ \E r \in Requests : GrantedTo(r, s, key)

LEMMA EveryEntryMoves ==
    ASSUME Inv, [Next]_vars, NEW s \in Stores, NEW key \in Keys
    PROVE  EntryMoves(s, key)
<1>1. faults \in Nat
  BY DEF Inv, TypeOK
<1>2. ASSUME NEW r \in Requests, Claim(r) PROVE EntryMoves(s, key)
  <2>1. CASE store' = store
    BY <1>2, <2>1, ClaimEffect DEF EntryMoves
  <2>2. CASE Grants(r) /\ pc'[r] = "publish"
    <3>1. released' = released
      BY <1>2 DEF Claim
    <3>2. CASE s = StoreOf(r) /\ key = req[r].key
      <4>1. GrantedTo(r, s, key)
        BY <1>2, <2>2, <3>2, ClaimEffect DEF GrantedTo
      <4>2. QED
        BY <3>1, <4>1 DEF EntryMoves
    <3>3. CASE s # StoreOf(r) \/ key # req[r].key
      BY <2>2, <3>1, <3>3 DEF EntryMoves, Grants
    <3>4. QED
      BY <3>2, <3>3
  <2>3. QED
    BY <1>2, <2>1, <2>2, ClaimEffect
<1>3. ASSUME NEW r \in Requests, StoreFails(r) PROVE EntryMoves(s, key)
  <2>1. faults' # 0 /\ released' = released
    BY <1>1, <1>3 DEF StoreFails, Fault
  <2>2. CASE store' = store
    BY <2>1, <2>2 DEF EntryMoves
  <2>3. CASE pc[r] = "claim" /\ Grants(r)
    <3>1. CASE s = StoreOf(r) /\ key = req[r].key
      <4>1. GrantedTo(r, s, key)
        BY <1>3, <2>1, <2>3, <3>1, StoreFailsEffect DEF GrantedTo
      <4>2. QED
        BY <2>1, <4>1 DEF EntryMoves
    <3>2. CASE s # StoreOf(r) \/ key # req[r].key
      BY <2>1, <2>3, <3>2 DEF EntryMoves, Grants
    <3>3. QED
      BY <3>1, <3>2
  <2>4. QED
    BY <1>3, <2>2, <2>3, StoreFailsEffect
<1>4. ASSUME NEW a \in Replicas, ReplicaCrashes(a) PROVE EntryMoves(s, key)
  BY <1>4, CrashEffect DEF EntryMoves, Inv
<1>5. ASSUME NEW t \in Stores, NEW k \in Keys, Expire(t, k) PROVE EntryMoves(s, key)
  <2>1. TypeOK
    BY DEF Inv
  <2>2. CASE s = t /\ key = k
    BY <1>5, <2>1, <2>2, ExpireEffect DEF EntryMoves
  <2>3. CASE s # t \/ key # k
    BY <1>5, <2>1, <2>3, ExpireEffect DEF EntryMoves
  <2>4. QED
    BY <2>2, <2>3
<1>6. ASSUME UNCHANGED <<store, released>> PROVE EntryMoves(s, key)
  BY <1>6 DEF EntryMoves
<1>7. CASE \E r \in Requests : \/ Lookup(r) \/ Publish(r)
                              \/ PublishFails(r) \/ PublishLost(r)
  BY <1>6, <1>7 DEF Lookup, Publish, PublishFails, PublishLost
<1>8. CASE UNCHANGED vars
  BY <1>6, <1>8 DEF vars
<1>9. QED
  BY <1>2, <1>3, <1>4, <1>5, <1>7, <1>8 DEF Next, AllAnswered

-----------------------------------------------------------------------------
(* The inductive invariant, part by part.                                  *)

(* A claim only moves on towards its answer, so the holder of an entry     *)
(* stays past its claim; a new entry is that of the request it was granted *)
(* to.                                                                     *)
LEMMA EntryInvStep == Inv /\ [Next]_vars => EntryInv'
<1> SUFFICES ASSUME Inv, [Next]_vars PROVE EntryInv'
  OBVIOUS
<1> USE DEF Inv
<1>1. \A r \in Requests : StoreOf(r)' = StoreOf(r) /\ req' = req
  BY Fixed
<1>2. ASSUME NEW s \in Stores, NEW key \in Keys, store'[s][key] # NoEntry
      PROVE  \E p \in Requests :
               /\ p = store'[s][key].pick
               /\ req'[p].key = key /\ StoreOf(p)' = s
               /\ req'[p].payload = store'[s][key].payload
               /\ pc'[p] \in {"publish", "done"}
  <2>1. EntryMoves(s, key)
    BY EveryEntryMoves
  <2>2. CASE store'[s][key] = store[s][key]
    <3>1. store[s][key] \in Entry
      BY <1>2, <2>2 DEF TypeOK
    <3> DEFINE p == store[s][key].pick
    <3>2. /\ p \in Requests
          /\ req[p].key = key /\ StoreOf(p) = s
          /\ req[p].payload = store[s][key].payload
          /\ pc[p] \in {"publish", "done"}
      BY <1>2, <2>2, <3>1 DEF EntryInv, Entry
    <3>3. pc'[p] \in {"publish", "done"}
      BY <3>2, EveryMove DEF Moves
    <3>4. QED
      BY <1>1, <2>2, <3>2, <3>3
  <2>3. CASE \E r \in Requests : GrantedTo(r, s, key)
    <3>1. PICK r \in Requests : GrantedTo(r, s, key)
      BY <2>3
    <3>2. store'[s][key] = [pick |-> r, payload |-> req[r].payload]
      BY <3>1 DEF GrantedTo, Grants
    <3>3. pc'[r] \in {"publish", "done"} /\ s = StoreOf(r) /\ key = req[r].key
      BY <3>1 DEF GrantedTo
    <3>4. QED
      BY <1>1, <3>2, <3>3
  <2>4. QED
    BY <1>2, <2>1, <2>2, <2>3 DEF EntryMoves
<1>3. QED
  BY <1>2 DEF EntryInv, StoreOf

(* A request that no entry was lost on sees its key granted, or nothing.   *)
LEMMA ClaimInvStep == Inv /\ [Next]_vars => ClaimInv'
<1> SUFFICES ASSUME Inv, [Next]_vars PROVE ClaimInv'
  OBVIOUS
<1> USE DEF Inv
<1>1. req' = req /\ \A r \in Requests : StoreOf(r)' = StoreOf(r)
  BY Fixed
<1>2. SUFFICES ASSUME NEW o \in Requests, req[o].key \in Keys, ~Released(o)'
               PROVE  IF Holder(o)' = NoEntry
                        THEN /\ o \notin events'
                             /\ \/ pc'[o] = "claim"
                                \/ pc'[o] = "done" /\ answer'[o] \in {1, 503}
                        ELSE /\ pc'[o] = "publish" \/ o \in events'
                                  => o = Holder(o)'.pick
                             /\ answer'[o] = 202 => pickId'[o] = Holder(o)'.pick
  BY <1>1 DEF ClaimInv
<1> DEFINE s == StoreOf(o)
           key == req[o].key
<1>3. s \in Stores /\ key \in Keys
  BY <1>2, StoreOfTyped
<1>4. /\ Holder(o) = store[s][key] /\ Holder(o)' = store'[s][key]
      /\ Released(o) = released[s][key] /\ Released(o)' = released'[s][key]
  BY <1>1 DEF Holder, Released
<1>5. EntryMoves(s, key) /\ Moves(o)
  BY <1>3, EveryEntryMoves, EveryMove
<1>6. ~Released(o)
  BY <1>2, <1>4, <1>5 DEF EntryMoves
<1>7. \/ Holder(o)' = Holder(o)
      \/ \E r \in Requests : GrantedTo(r, s, key)
  BY <1>2, <1>4, <1>5 DEF EntryMoves
<1>8. o \in events' => o \in events \/ pc[o] = "publish"
  BY EventStep
<1>9. ASSUME Holder(o) = NoEntry
      PROVE  /\ o \notin events' /\ answer[o] \in {0, 1, 503}
             /\ pc[o] = "claim" \/ (pc[o] = "done" /\ answer[o] \in {1, 503})
  BY <1>2, <1>6, <1>8, <1>9 DEF ClaimInv, RequestInv
<1>10. CASE \E r \in Requests : GrantedTo(r, s, key)
  <2>1. PICK r \in Requests : GrantedTo(r, s, key)
    BY <1>10
  <2>2. /\ Holder(o)' = [pick |-> r, payload |-> req[r].payload]
        /\ Holder(o) = NoEntry
    BY <1>4, <2>1 DEF GrantedTo, Grants, Holder
  <2>3. [pick |-> r, payload |-> req[r].payload] \in Entry
    BY DEF TypeOK, Input, Entry
  <2>4. Holder(o)' # NoEntry /\ Holder(o)'.pick = r
    BY <2>2, <2>3, PickRequestsAssumption
  <2>5. o # r => pc'[o] = pc[o] /\ answer'[o] = answer[o]
    BY <2>1 DEF GrantedTo, Others
  <2>6. /\ o # r => pc'[o] # "publish" /\ answer'[o] # 202
        /\ o \notin events'
    BY <1>9, <2>2, <2>5
  <2>7. answer[r] = 0 /\ (o = r => answer'[o] # 202)
    BY <2>1, <1>5 DEF GrantedTo, RequestInv, Moves
  <2>8. QED
    BY <2>4, <2>6, <2>7
<1>11. CASE Holder(o)' = Holder(o) /\ Holder(o) = NoEntry
  <2>1. ~Grants(o)
    <3>1. ASSUME Grants(o) PROVE Holder(o)' \in Entry
      BY <1>4, <3>1 DEF Grants, TypeOK, Input, Entry
    <3>2. QED
      BY <1>11, <3>1, PickRequestsAssumption
  <2>2. QED
    BY <1>5, <1>9, <1>11, <2>1 DEF Moves
<1>12. CASE Holder(o)' = Holder(o) /\ Holder(o) # NoEntry
  <2>1. /\ pc[o] = "publish" \/ o \in events => o = Holder(o).pick
        /\ answer[o] = 202 => pickId[o] = Holder(o).pick
    BY <1>2, <1>6, <1>12 DEF ClaimInv
  <2>2. ~Grants(o)
    BY <1>12 DEF Grants
  <2>3. pc'[o] = "publish" => pc[o] = "publish"
    BY <1>5, <1>12, <2>2 DEF Moves
  <2>4. answer'[o] = 202 => pickId'[o] = Holder(o).pick
    BY <1>5, <1>12, <2>1 DEF Moves
  <2>5. QED
    BY <1>8, <1>12, <2>1, <2>3, <2>4
<1>13. QED
  BY <1>7, <1>10, <1>11, <1>12

(* Without faults, who is about to publish stays so until it has.          *)
LEMMA UnderwayStays ==
    ASSUME Inv, [Next]_vars, NEW r \in Requests, Underway(r), faults' = 0
    PROVE  Underway(r)'
  BY EveryMove, EventStep DEF Moves, Underway

(* A fault, once counted, stays counted.                                   *)
LEMMA FaultsStay ==
    ASSUME Inv, [Next]_vars, faults' = 0
    PROVE  faults = 0
<1>1. faults \in Nat /\ faults' \in {faults, faults + 1}
  BY DEF Inv, TypeOK, Next, vars, Claim, Lookup, Publish, StoreFails, PublishFails,
         PublishLost, ReplicaCrashes, Expire, AllAnswered, Fault
<1>2. QED
  BY <1>1

LEMMA HolderInvStep == Inv /\ [Next]_vars => HolderInv'
<1> SUFFICES ASSUME Inv, [Next]_vars, faults' = 0,
                    NEW s \in Stores, NEW key \in Keys, store'[s][key] # NoEntry
             PROVE  \E p \in Requests : p = store'[s][key].pick /\ Underway(p)'
  BY DEF HolderInv, Underway
<1> USE DEF Inv
<1>1. EntryMoves(s, key) /\ faults = 0
  BY EveryEntryMoves, FaultsStay
<1>2. CASE store'[s][key] = store[s][key]
  <2>1. store[s][key].pick \in Requests
    BY <1>2 DEF TypeOK, Entry
  <2>2. Underway(store[s][key].pick)
    BY <1>1, <1>2 DEF HolderInv
  <2>3. \A p \in Requests : Underway(p) => Underway(p)'
    BY UnderwayStays
  <2>4. QED
    BY <1>2, <2>1, <2>2, <2>3
<1>3. CASE \E r \in Requests : GrantedTo(r, s, key)
  <2>1. PICK r \in Requests : GrantedTo(r, s, key)
    BY <1>3
  <2>2. store'[s][key].pick = r /\ pc'[r] = "publish"
    BY <2>1 DEF GrantedTo, Grants
  <2>3. QED
    BY <2>2 DEF Underway
<1>4. QED
  BY <1>1, <1>2, <1>3 DEF EntryMoves

(* A 202 is the request's own, or the replay of a holder with its payload; *)
(* a 409 names a holder with another.                                      *)
LEMMA AnswerStep == Inv /\ [Next]_vars => PickIdInv' /\ AnswerFitsPayload'
<1> SUFFICES ASSUME Inv, [Next]_vars, NEW r \in Requests
             PROVE  /\ answer'[r] = 202 => /\ pickId'[r] \in Requests
                                           /\ req'[pickId'[r]].payload = req'[r].payload
                    /\ answer'[r] = 409 => \E o \in Requests :
                           SameClaim(r, o)' /\ req'[o].payload # req'[r].payload
  BY DEF PickIdInv, AnswerFitsPayload
<1> USE DEF Inv
<1>1. req' = req /\ \A o \in Requests : SameClaim(r, o)' <=> SameClaim(r, o)
  BY Fixed DEF SameClaim
<1>2. Moves(r)
  BY EveryMove
<1>3. CASE answer'[r] = answer[r] /\ pickId'[r] = pickId[r]
  BY <1>1, <1>3 DEF PickIdInv, AnswerFitsPayload
<1>4. CASE pickId'[r] = r /\ answer'[r] = 202
  BY <1>1, <1>4
<1>5. CASE pc[r] = "lookup" /\ Holder(r) # NoEntry
  <2>1. req[r].key \in Keys /\ req[r].key # NoKey
    BY <1>5, PickRequestsAssumption DEF RequestInv
  <2>2. /\ Holder(r).pick \in Requests
        /\ SameClaim(r, Holder(r).pick)
        /\ req[Holder(r).pick].payload = Holder(r).payload
    BY <1>5, <2>1, HolderTyped DEF SameClaim
  <2>3. \/ answer'[r] = answer[r] /\ pickId'[r] = pickId[r]
        \/ /\ answer'[r] = 202 /\ pickId'[r] = Holder(r).pick
           /\ Holder(r).payload = req[r].payload
        \/ answer'[r] = 409 /\ Holder(r).payload # req[r].payload
        \/ answer'[r] \in {1, 503}
    BY <1>2, <1>5 DEF Moves
  <2>4. QED
    BY <1>1, <1>3, <2>2, <2>3
<1>6. CASE answer'[r] \in {0, 1, 503}
  BY <1>6
<1>7. QED
  BY <1>2, <1>3, <1>4, <1>5, <1>6 DEF Moves

LEMMA PublishedStep == Inv /\ [Next]_vars => AcceptedGetsPublished'
<1> SUFFICES ASSUME Inv, [Next]_vars, faults' = 0, NEW r \in Requests,
                    answer'[r] = 202
             PROVE  \E p \in Requests : p = pickId'[r] /\ Underway(p)'
  BY DEF AcceptedGetsPublished, Underway
<1> USE DEF Inv
<1>1. /\ faults = 0 /\ Moves(r)
      /\ \A p \in Requests : Underway(p) => Underway(p)'
  BY FaultsStay, EveryMove, UnderwayStays
<1>2. CASE answer'[r] = answer[r] /\ pickId'[r] = pickId[r]
  <2>1. pickId[r] \in Requests /\ Underway(pickId[r])
    BY <1>1, <1>2 DEF AcceptedGetsPublished, PickIdInv, Underway
  <2>2. QED
    BY <1>1, <1>2, <2>1
<1>3. CASE pc[r] = "lookup" /\ Holder(r) # NoEntry /\ pickId'[r] = Holder(r).pick
  <2>1. req[r].key \in Keys
    BY <1>3 DEF RequestInv
  <2>2. Holder(r).pick \in Requests /\ Underway(Holder(r).pick)
    BY <1>1, <1>3, <2>1, HolderTyped DEF HolderInv, Holder
  <2>3. QED
    BY <1>1, <1>3, <2>2
<1>4. CASE pickId'[r] = r /\ r \in events'
  BY <1>4 DEF Underway
<1>5. QED
  BY <1>1, <1>2, <1>3, <1>4 DEF Moves

-----------------------------------------------------------------------------
LEMMA InvHolds == Spec => []Inv
<1>1. Inv /\ [Next]_vars => Inv'
  BY TypeStep, EntryInvStep, ClaimInvStep, HolderInvStep, AnswerStep, PublishedStep
     DEF Inv
<1>2. QED
  BY InvInit, <1>1, PTL DEF Spec

(* Every variable keeps its type, whatever the requests, the faults and    *)
(* the clock do.                                                           *)
THEOREM TypeCorrect == Spec => []TypeOK
<1>1. Inv => TypeOK
  BY DEF Inv
<1>2. QED
  BY <1>1, InvHolds, PTL

(* CreatePickUseCase.execute: one pick.created per Idempotency-Key for as  *)
(* long as no entry of the key expired or died with its replica.           *)
THEOREM OneEvent == Spec => []OneEventPerClaim
<1>1. Inv => OneEventPerClaim
  <2> SUFFICES ASSUME Inv, NEW r \in events, NEW o \in events, r # o,
                      SameClaim(r, o), ~Released(r)
               PROVE  FALSE
    BY DEF OneEventPerClaim
  <2>1. r \in Requests /\ o \in Requests /\ req[r].key \in Keys /\ req[o].key \in Keys
    BY DEF Inv, TypeOK, Input, SameClaim
  <2>2. Holder(o) = Holder(r) /\ ~Released(o)
    BY DEF SameClaim, Holder, Released
  <2>3. QED
    BY <2>1, <2>2 DEF Inv, ClaimInv
<1>2. QED
  BY <1>1, InvHolds, PTL

(* All clients accepted under one standing claim hold the same pickId.     *)
THEOREM OnePickId == Spec => []OnePickIdPerClaim
<1>1. Inv => OnePickIdPerClaim
  <2> SUFFICES ASSUME Inv, NEW r \in Requests, NEW o \in Requests,
                      SameClaim(r, o), answer[r] = 202, answer[o] = 202,
                      ~Released(r)
               PROVE  pickId[r] = pickId[o]
    BY DEF OnePickIdPerClaim
  <2>1. req[r].key \in Keys /\ req[o].key \in Keys
    BY DEF Inv, TypeOK, Input, SameClaim
  <2>2. Holder(o) = Holder(r) /\ ~Released(o)
    BY DEF SameClaim, Holder, Released
  <2>3. \A p \in Requests :
          req[p].key \in Keys /\ ~Released(p) /\ answer[p] = 202
            => pickId[p] = Holder(p).pick
    BY DEF Inv, ClaimInv, RequestInv
  <2>4. QED
    BY <2>1, <2>2, <2>3
<1>2. QED
  BY <1>1, InvHolds, PTL

(* CreatePickUseCase.replay: a 202 carries a pick of the payload it was    *)
(* asked with, a 409 answers a key that really served another payload.     *)
THEOREM AnswersFit == Spec => []AnswerFitsPayload
<1>1. Inv => AnswerFitsPayload
  BY DEF Inv
<1>2. QED
  BY <1>1, InvHolds, PTL

(* Without faults the pick of every 202 is published or about to be, a     *)
(* replayed one included.                                                  *)
THEOREM AcceptedIsPublished == Spec => []AcceptedGetsPublished
<1>1. Inv => AcceptedGetsPublished
  BY DEF Inv
<1>2. QED
  BY <1>1, InvHolds, PTL
=============================================================================
