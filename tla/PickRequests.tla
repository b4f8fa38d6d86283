---------------------------- MODULE PickRequests ----------------------------
(***************************************************************************)
(* POST /picks: CreatePickUseCase over the idempotency store and the pick  *)
(* queue.  Every request generates its own pickId (a random UUID, never    *)
(* repeated), so the request itself stands for the pickId it generated.    *)
(* Claiming a key, looking up who holds it and publishing are separate     *)
(* awaits: requests of several replicas interleave between them, entries   *)
(* expire, Redis and RabbitMQ fail, replicas crash.                        *)
(***************************************************************************)
EXTENDS Integers

CONSTANTS
    Requests,       \* POST /picks requests, each with its fresh pickId
    Keys,           \* Idempotency-Key values
    NoKey,          \* the header is absent
    Payloads,       \* (product_code, quantity, pick_location)
    Replicas,       \* api processes
    Redis,          \* the store all replicas share when REDIS_URL is set
    NoEntry,        \* the store holds nothing for a key
    NoPick,         \* the response carries no pickId
    MaxFaults,      \* bound on failures of Redis, RabbitMQ and replicas
    MaxExpiries     \* bound on entries that reach their TTL

Stores == Replicas \cup {Redis}

Input == [key : Keys \cup {NoKey}, payload : Payloads, replica : Replicas]

Entry == [pick : Requests, payload : Payloads]

ASSUME PickRequestsAssumption ==
    /\ NoKey \notin Keys
    /\ Redis \notin Replicas
    /\ NoEntry \notin Entry
    /\ NoPick \notin Requests
    /\ MaxFaults \in Nat
    /\ MaxExpiries \in Nat

VARIABLES
    shared,     \* REDIS_URL is set: fixed when the replicas start
    req,        \* req[r]: what request r asks
    store,      \* store[s][key]: the live entry of key in store s
    pc,         \* pc[r]: the await r is at
    answer,     \* answer[r]: HTTP status; 0 before, 1 if the replica died
    pickId,     \* pickId[r]: the pickId of a 202
    events,     \* the picks whose pick.created event was published
    released,   \* history: released[s][key]: an entry of key expired or was lost
    faults,     \* how many faults happened
    expiries    \* how many entries reached their TTL

vars == <<shared, req, store, pc, answer, pickId, events, released, faults,
          expiries>>

Init ==
    /\ shared \in BOOLEAN
    /\ req \in [Requests -> Input]
    /\ store = [s \in Stores |-> [key \in Keys |-> NoEntry]]
    /\ pc = [r \in Requests |-> IF req[r].key = NoKey THEN "publish" ELSE "claim"]
    /\ answer = [r \in Requests |-> 0]
    /\ pickId = [r \in Requests |-> NoPick]
    /\ events = {}
    /\ released = [s \in Stores |-> [key \in Keys |-> FALSE]]
    /\ faults = 0
    /\ expiries = 0

StoreOf(r) == IF shared THEN Redis ELSE req[r].replica

Holder(r) == store[StoreOf(r)][req[r].key]

Respond(r, status, pick) ==
    /\ answer' = [answer EXCEPT ![r] = status]
    /\ pickId' = [pickId EXCEPT ![r] = pick]
    /\ pc' = [pc EXCEPT ![r] = "done"]

Continue(r, s) ==
    /\ pc' = [pc EXCEPT ![r] = s]
    /\ UNCHANGED <<answer, pickId>>

Granted(r) ==
    store' = [store EXCEPT ![StoreOf(r)][req[r].key] =
                 [pick |-> r, payload |-> req[r].payload]]

-----------------------------------------------------------------------------
(* Mutant: SET without NX.                                                 *)
ClaimAnyway(r) ==
    /\ pc[r] = "claim"
    /\ Granted(r) /\ Continue(r, "publish")
    /\ UNCHANGED <<shared, req, events, released, faults, expiries>>

(* setIfAbsent: SET NX EX, or the synchronous check-and-set of the Map.    *)
Claim(r) ==
    /\ pc[r] = "claim"
    /\ IF Holder(r) = NoEntry THEN Granted(r) /\ Continue(r, "publish")
                              ELSE UNCHANGED store /\ Continue(r, "lookup")
    /\ UNCHANGED <<shared, req, events, released, faults, expiries>>

(* Mutants of the replay: it answers with its own fresh pickId, it does    *)
(* not compare the payloads, it takes a missing entry for a published pick. *)
ReplayOwnPick(r) ==
    /\ pc[r] = "lookup" /\ Holder(r) # NoEntry
    /\ Respond(r, 202, r)
    /\ UNCHANGED <<shared, req, store, events, released, faults, expiries>>

ReplayAnyPayload(r) ==
    /\ pc[r] = "lookup" /\ Holder(r) # NoEntry
    /\ Respond(r, 202, Holder(r).pick)
    /\ UNCHANGED <<shared, req, store, events, released, faults, expiries>>

ReplayMissing(r) ==
    /\ pc[r] = "lookup" /\ Holder(r) = NoEntry
    /\ Respond(r, 202, r)
    /\ UNCHANGED <<shared, req, store, events, released, faults, expiries>>

(* get, after the claim was lost: replay, conflict, or an entry that is    *)
(* gone by now.                                                            *)
Lookup(r) ==
    /\ pc[r] = "lookup"
    /\ IF Holder(r) = NoEntry
         THEN Continue(r, "publish")
         ELSE IF Holder(r).payload = req[r].payload
           THEN Respond(r, 202, Holder(r).pick)
           ELSE Respond(r, 409, NoPick)
    /\ UNCHANGED <<shared, req, store, events, released, faults, expiries>>

Publish(r) ==
    /\ pc[r] = "publish"
    /\ events' = events \cup {r}
    /\ Respond(r, 202, r)
    /\ UNCHANGED <<shared, req, store, released, faults, expiries>>

-----------------------------------------------------------------------------
(* Faults and the passage of time.                                         *)

Fault == faults < MaxFaults /\ faults' = faults + 1

(* Mutant: the error is rethrown without its 503 AppError.                 *)
StoreFailsBare(r) ==
    /\ Fault
    /\ shared
    /\ pc[r] \in {"claim", "lookup"}
    /\ Respond(r, 500, NoPick)
    /\ UNCHANGED <<shared, req, store, events, released, expiries>>

(* A Redis command rejects; a claim may have been granted before its reply *)
(* was lost.  The in-memory store cannot fail.                             *)
StoreFails(r) ==
    /\ Fault
    /\ shared
    /\ pc[r] \in {"claim", "lookup"}
    /\ \/ UNCHANGED store
       \/ pc[r] = "claim" /\ Holder(r) = NoEntry /\ Granted(r)
    /\ Respond(r, 503, NoPick)
    /\ UNCHANGED <<shared, req, events, released, expiries>>

(* getChannel or channel.publish throws.  The claim stays.                 *)
PublishFails(r) ==
    /\ Fault
    /\ pc[r] = "publish"
    /\ Respond(r, 503, NoPick)
    /\ UNCHANGED <<shared, req, store, events, released, expiries>>

(* No publisher confirms: the write is buffered, the client is answered,   *)
(* and the connection drops before the broker has the event.               *)
PublishLost(r) ==
    /\ Fault
    /\ pc[r] = "publish"
    /\ Respond(r, 202, r)
    /\ UNCHANGED <<shared, req, store, events, released, expiries>>

(* A replica dies with its requests and its in-memory entries, and is      *)
(* restarted.                                                              *)
ReplicaCrashes(a) ==
    /\ Fault
    /\ LET lost == {r \in Requests : req[r].replica = a /\ pc[r] # "done"}
       IN /\ pc' = [r \in Requests |-> IF r \in lost THEN "done" ELSE pc[r]]
          /\ answer' = [r \in Requests |-> IF r \in lost THEN 1 ELSE answer[r]]
    /\ store' = [store EXCEPT ![a] = [key \in Keys |-> NoEntry]]
    /\ released' = [released EXCEPT ![a] = [key \in Keys |->
                       released[a][key] \/ store[a][key] # NoEntry]]
    /\ UNCHANGED <<shared, req, pickId, events, expiries>>

(* The TTL of an entry elapses.                                            *)
Expire(s, key) ==
    /\ expiries < MaxExpiries
    /\ store[s][key] # NoEntry
    /\ store' = [store EXCEPT ![s][key] = NoEntry]
    /\ released' = [released EXCEPT ![s][key] = TRUE]
    /\ expiries' = expiries + 1
    /\ UNCHANGED <<shared, req, pc, answer, pickId, events, faults>>

AllAnswered == (\A r \in Requests : pc[r] = "done") /\ UNCHANGED vars

Next ==
    \/ \E r \in Requests : Claim(r) \/ Lookup(r) \/ Publish(r)
    \/ \E r \in Requests : StoreFails(r) \/ PublishFails(r) \/ PublishLost(r)
    \/ \E a \in Replicas : ReplicaCrashes(a)
    \/ \E s \in Stores, key \in Keys : Expire(s, key)
    \/ AllAnswered

Spec == Init /\ [][Next]_vars

-----------------------------------------------------------------------------
TypeOK ==
    /\ shared \in BOOLEAN
    /\ req \in [Requests -> Input]
    /\ store \in [Stores -> [Keys -> Entry \cup {NoEntry}]]
    /\ pc \in [Requests -> {"claim", "lookup", "publish", "done"}]
    /\ answer \in [Requests -> {0, 1, 202, 409, 503}]
    /\ pickId \in [Requests -> Requests \cup {NoPick}]
    /\ events \subseteq Requests
    /\ released \in [Stores -> [Keys -> BOOLEAN]]
    /\ faults \in Nat
    /\ expiries \in Nat

(* Requests r and o sent the same key to the same store.                   *)
SameClaim(r, o) ==
    /\ req[r].key = req[o].key /\ req[r].key # NoKey
    /\ StoreOf(r) = StoreOf(o)

Released(r) == released[StoreOf(r)][req[r].key]

(* A key publishes one pick for as long as its claim stands: a second      *)
(* pick.created of a key needs an entry that expired or died with its      *)
(* replica, however claims, lookups, publishes and failures interleave.    *)
OneEventPerClaim ==
    \A r, o \in events : r # o /\ SameClaim(r, o) => Released(r)

(* All clients that were accepted under one key hold the same pickId,      *)
(* unless an entry of the key was lost.                                    *)
OnePickIdPerClaim ==
    \A r, o \in Requests :
        /\ SameClaim(r, o)
        /\ answer[r] = 202 /\ answer[o] = 202
        => pickId[r] = pickId[o] \/ Released(r)

(* A 202 never hands a client the pick of another payload, and a 409 means *)
(* that the key really served another payload.                             *)
AnswerFitsPayload ==
    \A r \in Requests :
        /\ answer[r] = 202 => req[pickId[r]].payload = req[r].payload
        /\ answer[r] = 409 => \E o \in Requests :
                SameClaim(r, o) /\ req[o].payload # req[r].payload

(* Without faults every accepted pick is published, or the request that    *)
(* generated it is about to publish it.                                    *)
AcceptedGetsPublished ==
    faults = 0 =>
        \A r \in Requests :
            answer[r] = 202 => pickId[r] \in events \/ pc[pickId[r]] = "publish"

(* openapi.ts, SYSTEM_FLOW.md: 202 means the pick.created event is         *)
(* published; a replay never returns a pick nobody will process.           *)
ReplayIsProcessed ==
    \A r \in Requests :
        /\ answer[r] = 202
        /\ pickId[r] # r
        => pickId[r] \in events \/ pc[pickId[r]] = "publish"
=============================================================================
